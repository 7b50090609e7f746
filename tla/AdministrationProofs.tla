------------------------ MODULE AdministrationProofs ------------------------
(***************************************************************************)
(* How a hotel is run: the counters that stand before its logins, the      *)
(* invitations its owner comes by, the filling and cleaning of its rooms,  *)
(* its pictures and its leaving, for any number of those who knock, follow *)
(* links, book, clean, upload and administer at the same time.             *)
(***************************************************************************)
EXTENDS Housekeeping, Accounts, LoginThrottle, FilledRoom, Tenants, PhotoLists, RoomPlacesProofs, SequenceTheorems

-----------------------------------------------------------------------------
(* Counting a set of which one member may come or go *)

Here(S, w) == IF w \in S THEN 1 ELSE 0

LEMMA CountOne ==
  ASSUME NEW U, IsFiniteSet(U), NEW S \in SUBSET U, NEW w \in U
  PROVE  /\ Cardinality(S) = Cardinality(S \ {w}) + Here(S, w)
         /\ Cardinality(S \ {w}) \in Nat
         /\ Cardinality(S \ {w}) + 1 <= Cardinality(U)
<1>1. IsFiniteSet(S)
  BY FS_Subset
<1>2. Cardinality(S) \in Nat /\ Cardinality(U) \in Nat
  BY <1>1, FS_CardinalityType
<1>3. /\ IsFiniteSet(S \ {w})
      /\ Cardinality(S \ {w}) = IF w \in S THEN Cardinality(S) - 1 ELSE Cardinality(S)
  BY <1>1, FS_RemoveElement
<1>4. Cardinality(S \ {w}) \in Nat
  BY <1>3, FS_CardinalityType
<1>5. Cardinality((S \ {w}) \cup {w}) = Cardinality(S \ {w}) + 1
  BY <1>3, FS_AddElement
<1>6. Cardinality((S \ {w}) \cup {w}) <= Cardinality(U)
  BY FS_Subset
<1> QED BY <1>2, <1>3, <1>4, <1>5, <1>6 DEF Here

-----------------------------------------------------------------------------
(* Rooms *)

\* A row of free places is a number of free places, so who finds one by name finds
\* one by the rule.
LEMMA RowIsRoom ==
  ASSUME NEW cap \in Nat, NEW g \in Nat \ {0}, NEW held, Taken(held) \subseteq 1 .. cap,
         NEW start \in Nat, spanFree(start, cap, TRUE, g, held)
  PROVE  roomFits(cap, TRUE, g, held)
<1> DEFINE used == Taken(held)
           row   == start .. (start + g - 1)
           free  == (1 .. cap) \ used
<1>1. placesOf(g, cap, TRUE) = g
  BY DEF placesOf
<1>2. row \subseteq 1 .. cap /\ \A o \in held : row \cap HolderSpan(o) = {}
  <2>1. start >= 1 /\ start + g - 1 <= cap
    BY <1>1 DEF spanFree
  <2>2. \A o \in held : Span(start, placesOf(g, cap, TRUE)) \cap HolderSpan(o) = {}
    BY Zenon DEF spanFree
  <2>3. row \subseteq 1 .. cap
    BY <2>1
  <2>4. Span(start, placesOf(g, cap, TRUE)) = row
    BY <1>1 DEF Span
  <2> QED BY <2>2, <2>3, <2>4
<1>3. row \cap used = {}
  BY <1>2 DEF Taken
<1>4. /\ IsFiniteSet(row) /\ Cardinality(row) = g
      /\ IsFiniteSet(1 .. cap) /\ Cardinality(1 .. cap) = cap
  BY FS_Interval
<1>5. IsFiniteSet(used) /\ Cardinality(used) \in Nat
  BY <1>4, FS_Subset, FS_CardinalityType
<1>6. Cardinality(row \cup used) = g + Cardinality(used)
  <2>1. Cardinality(row \cap used) = 0
    BY <1>3, FS_EmptySet
  <2>2. Cardinality(row \cup used) = Cardinality(row) + Cardinality(used) - Cardinality(row \cap used)
    BY <1>4, <1>5, FS_Union
  <2> QED BY <1>4, <1>5, <2>1, <2>2
<1>7. Cardinality(row \cup used) <= cap
  <2>1. row \cup used \in SUBSET (1 .. cap)
    BY <1>2
  <2> QED BY <1>4, <2>1, FS_Subset
<1>8. start \in free
  BY <1>2, <1>3
<1>9. First(free) \in free
  BY <1>8, FirstInSet
<1>10. First(free) # NoPlace
  BY <1>9 DEF NoPlace
<1>11. ~ (cap - Cardinality(used) < placesOf(g, cap, TRUE)) /\ free # {}
  <2>1. ~ (cap - Cardinality(used) < g)
    BY <1>5, <1>6, <1>7
  <2> QED BY <1>1, <1>8, <2>1
<1>12. allocatePlace(cap, TRUE, g, held) = First(free)
  <2>1. allocatePlace(cap, TRUE, g, held) =
          IF cap - Cardinality(used) < placesOf(g, cap, TRUE) \/ free = {} THEN NoPlace ELSE First(free)
    BY DEF allocatePlace
  <2> QED BY <1>11, <2>1
<1> QED BY <1>10, <1>12 DEF roomFits

\* In every room, however it came to be filled, a party for which a place could be
\* named is not refused by the rule (spanFree and allocatePlace of room-places.ts).
\* Of the place that the rule then names it says only that the room is not full: it is
\* the first free one, and the places after it may be taken.
THEOREM NamedPlaceIsFound == FillingSpec => []GapIsFound
<1>1. FillingInit => FillingTypeOK
  BY DEF FillingInit, FillingTypeOK
<1>2. FillingTypeOK /\ [FillingStep]_fillingVars => FillingTypeOK'
  BY DEF FillingTypeOK, FillingStep, ComesIn, Leaves, fillingVars
<1>3. FillingTypeOK => GapIsFound
  <2> SUFFICES ASSUME FillingTypeOK, NEW g \in 1 .. capacity, NEW start \in 1 .. capacity,
                      spanFree(start, capacity, TRUE, g, others)
               PROVE  roomFits(capacity, TRUE, g, others)
    BY DEF GapIsFound, Parties
  <2>1. capacity \in Nat /\ g \in Nat \ {0} /\ start \in Nat
    BY CapacityAssumption DEF FillingTypeOK
  <2>2. Taken(others) \subseteq 1 .. capacity
    BY DEF FillingTypeOK, Taken
  <2> QED BY <2>1, <2>2, RowIsRoom
<1> QED BY <1>1, <1>2, <1>3, PTL DEF FillingSpec

-----------------------------------------------------------------------------
(* Logins *)

LEMMA LimitIsSome == \A k \in Counters : Limit(k) \in Nat \ {0}
BY ThrottleAssumption DEF Limit

LEMMA ThrottleStart == ThrottleInit => GuessesInv
<1> SUFFICES ASSUME ThrottleInit PROVE GuessesInv
  OBVIOUS
<1>1. ThrottleTypeOK
  BY DEF ThrottleInit, ThrottleTypeOK
<1>2. ASSUME NEW k \in Counters
      PROVE  /\ failures[k] + Cardinality(PastQuestion(k)) < Limit(k) + Cardinality(Workers)
             /\ wrong[k] <= failures[k] + Cardinality(FoundWrong(k))
  <2>1. PastQuestion(k) = {} /\ FoundWrong(k) = {}
    BY DEF PastQuestion, FoundWrong, ThrottleInit
  <2>2. Cardinality(PastQuestion(k)) = 0 /\ Cardinality(FoundWrong(k)) = 0
    BY <2>1, FS_EmptySet
  <2>3. failures[k] = 0 /\ wrong[k] = 0
    BY DEF ThrottleInit
  <2>4. Cardinality(Workers) \in Nat
    BY ThrottleAssumption, FS_CardinalityType
  <2> QED BY <2>2, <2>3, <2>4, LimitIsSome
<1> QED BY <1>1, <1>2 DEF GuessesInv

LEMMA TryType ==
  ASSUME ThrottleTypeOK, NEW w \in Workers, try[w] # NoLogin
  PROVE  try[w] \in Try /\ try[w].email \in Addresses /\ try[w].ip \in Machines
BY DEF ThrottleTypeOK, Try

\* A step of one worker: what becomes of a counter and of the worker's own part in
\* it keeps the two bounds.
LEMMA ThrottleWorkerStep ==
  ASSUME GuessesInv, ThrottleTypeOK', NEW w \in Workers,
         \A v \in Workers \ {w} : try'[v] = try[v],
         \A k \in Counters :
           \/ failures'[k] = 0 /\ wrong'[k] = 0
           \/ /\ \/ failures[k] < Limit(k) /\ failures'[k] = failures[k]
                 \/ failures'[k] + Here(PastQuestion(k)', w) <= failures[k] + Here(PastQuestion(k), w)
              /\ \/ wrong'[k] = 0
                 \/ wrong'[k] + failures[k] + Here(FoundWrong(k), w)
                      <= wrong[k] + failures'[k] + Here(FoundWrong(k)', w)
  PROVE  GuessesInv'
<1>1. ASSUME NEW k \in Counters
      PROVE  /\ failures'[k] + Cardinality(PastQuestion(k)') < Limit(k) + Cardinality(Workers)
             /\ wrong'[k] <= failures'[k] + Cardinality(FoundWrong(k)')
  <2> DEFINE P == PastQuestion(k)
             F == FoundWrong(k)
             rest == Cardinality(P \ {w})
             bad  == Cardinality(F \ {w})
             all  == Cardinality(Workers)
  <2>1. P \in SUBSET Workers /\ P' \in SUBSET Workers /\ F \in SUBSET Workers /\ F' \in SUBSET Workers
    BY DEF PastQuestion, FoundWrong
  <2>2. P' \ {w} = P \ {w} /\ F' \ {w} = F \ {w}
    BY DEF PastQuestion, FoundWrong, Uncounted
  <2>3. /\ failures[k] \in Nat /\ wrong[k] \in Nat /\ failures'[k] \in Nat /\ wrong'[k] \in Nat
        /\ failures[k] + Cardinality(P) < Limit(k) + all
        /\ wrong[k] <= failures[k] + Cardinality(F)
    BY DEF GuessesInv, ThrottleTypeOK
  <2> HIDE DEF P, F
  <2>4. /\ Cardinality(P) = rest + Here(P, w) /\ Cardinality(P') = rest + Here(P', w)
        /\ rest \in Nat /\ rest + 1 <= all
    BY <2>1, <2>2, CountOne, ThrottleAssumption
  <2>5. /\ Cardinality(F) = bad + Here(F, w) /\ Cardinality(F') = bad + Here(F', w)
        /\ bad \in Nat
    BY <2>1, <2>2, CountOne, ThrottleAssumption
  <2>6. all \in Nat /\ Limit(k) \in Nat \ {0}
    BY ThrottleAssumption, FS_CardinalityType, LimitIsSome
  <2>7. /\ Here(P, w) \in 0 .. 1 /\ Here(P', w) \in 0 .. 1
        /\ Here(F, w) \in 0 .. 1 /\ Here(F', w) \in 0 .. 1
    BY DEF Here
  <2>8. \/ failures'[k] = 0 /\ wrong'[k] = 0
        \/ /\ \/ failures[k] < Limit(k) /\ failures'[k] = failures[k]
              \/ failures'[k] + Here(P', w) <= failures[k] + Here(P, w)
           /\ \/ wrong'[k] = 0
              \/ wrong'[k] + failures[k] + Here(F, w) <= wrong[k] + failures'[k] + Here(F', w)
    BY DEF P, F
  <2> HIDE DEF rest, bad, all
  <2>9. failures'[k] + Cardinality(P') < Limit(k) + all
    BY <2>3, <2>4, <2>6, <2>7, <2>8
  <2>10. wrong'[k] <= failures'[k] + Cardinality(F')
    BY <2>3, <2>5, <2>7, <2>8
  <2> QED BY <2>9, <2>10 DEF all, P, F
<1>2. (\A k \in Counters :
         /\ failures[k] + Cardinality(PastQuestion(k)) < Limit(k) + Cardinality(Workers)
         /\ wrong[k] <= failures[k] + Cardinality(FoundWrong(k)))'
  BY <1>1 DEF Limit, Counters
<1> QED BY <1>2 DEF GuessesInv

\* Each call of a login to the store keeps the bounds.
LEMMA ThrottleCalls ==
  ASSUME GuessesInv, NEW w \in Workers,
         \/ \E e \in Addresses, m \in Machines : Login(w, e, m)
         \/ AskEmail(w) \/ AskIp(w) \/ CompareWrong(w) \/ CompareRight(w) \/ CountEmail(w)
         \/ CountIp(w) \/ Denied(w) \/ Success(w) \/ Broken(w)
  PROVE  GuessesInv'
<1> DEFINE Keeps(k) ==
      \/ failures'[k] = 0 /\ wrong'[k] = 0
      \/ /\ \/ failures[k] < Limit(k) /\ failures'[k] = failures[k]
            \/ failures'[k] + Here(PastQuestion(k)', w) <= failures[k] + Here(PastQuestion(k), w)
         /\ \/ wrong'[k] = 0
            \/ wrong'[k] + failures[k] + Here(FoundWrong(k), w)
                 <= wrong[k] + failures'[k] + Here(FoundWrong(k)', w)
      e == try[w].email
      m == try[w].ip
<1>1. /\ failures \in [Counters -> Nat] /\ wrong \in [Counters -> Nat]
      /\ window \subseteq Counters /\ try \in [Workers -> Try \cup {NoLogin}]
  BY DEF GuessesInv, ThrottleTypeOK
<1>2. \A k \in Counters : failures[k] \in Nat /\ wrong[k] \in Nat
  BY <1>1
<1>3. try[w] # NoLogin => try[w] \in Try /\ e \in Addresses /\ m \in Machines /\ e # m
                        /\ e \in Counters /\ m \in Counters
  BY <1>1, ThrottleAssumption DEF Try, Counters
<1> SUFFICES /\ ThrottleTypeOK'
             /\ \A v \in Workers \ {w} : try'[v] = try[v]
             /\ \A k \in Counters : Keeps(k)
  BY ThrottleWorkerStep
<1>4. ASSUME UNCHANGED <<failures, wrong>>, NEW k \in Counters,
             w \in PastQuestion(k)' => w \in PastQuestion(k) \/ failures[k] < Limit(k),
             w \in FoundWrong(k) => w \in FoundWrong(k)'
      PROVE  Keeps(k)
  BY <1>2, <1>4 DEF Here
<1> HIDE DEF Keeps
<1>5. CASE \E a \in Addresses, b \in Machines : Login(w, a, b)
  <2>1. PICK a \in Addresses, b \in Machines : Login(w, a, b)
    BY <1>5
  <2>2. try' = [try EXCEPT ![w] = [email |-> a, ip |-> b, step |-> "askEmail"]] /\ try[w] = NoLogin
        /\ UNCHANGED <<failures, window, wrong>>
    BY <2>1 DEF Login
  <2>3. try'[w] = [email |-> a, ip |-> b, step |-> "askEmail"]
    BY <1>1, <2>2
  <2>4. \A k : w \notin PastQuestion(k)' /\ w \notin FoundWrong(k)
    BY <2>2, <2>3 DEF PastQuestion, FoundWrong
  <2>5. ThrottleTypeOK'
    BY <1>1, <2>2 DEF ThrottleTypeOK, Try
  <2> QED BY <1>1, <1>4, <2>2, <2>4, <2>5
<1>6. CASE AskEmail(w)
  <2>1. try[w] # NoLogin /\ try[w].step = "askEmail" /\ UNCHANGED <<failures, window, wrong>>
    BY <1>6 DEF AskEmail, AssertAllowed, StepIs
  <2>2. \/ failures[e] < Limit(e) /\ try' = [try EXCEPT ![w].step = "askIp"]
        \/ try' = [try EXCEPT ![w] = NoLogin]
    BY <1>6 DEF AskEmail, AssertAllowed, Allowed, To, Answered
  <2>3. ThrottleTypeOK'
    BY <1>1, <1>3, <2>1, <2>2 DEF ThrottleTypeOK, Try
  <2>4. \/ failures[e] < Limit(e) /\ try'[w] = [try[w] EXCEPT !.step = "askIp"]
        \/ try'[w] = NoLogin
    BY <1>1, <2>2
  <2>5. ASSUME NEW k \in Counters PROVE Keeps(k)
    <3>1. w \notin FoundWrong(k)
      BY <2>1 DEF FoundWrong, Uncounted
    <3>2. w \in PastQuestion(k)' => failures[k] < Limit(k)
      BY <1>3, <2>1, <2>4 DEF PastQuestion, Try
    <3> QED BY <1>4, <2>1, <3>1, <3>2
  <2> QED BY <1>1, <2>2, <2>3, <2>5
<1>7. CASE AskIp(w)
  <2>1. try[w] # NoLogin /\ try[w].step = "askIp" /\ UNCHANGED <<failures, window, wrong>>
    BY <1>7 DEF AskIp, AssertAllowed, StepIs
  <2>2. \/ failures[m] < Limit(m) /\ try' = [try EXCEPT ![w].step = "compare"]
        \/ try' = [try EXCEPT ![w] = NoLogin]
    BY <1>7 DEF AskIp, AssertAllowed, Allowed, To, Answered
  <2>3. ThrottleTypeOK'
    BY <1>1, <1>3, <2>1, <2>2 DEF ThrottleTypeOK, Try
  <2>4. \/ failures[m] < Limit(m) /\ try'[w] = [try[w] EXCEPT !.step = "compare"]
        \/ try'[w] = NoLogin
    BY <1>1, <2>2
  <2>5. ASSUME NEW k \in Counters PROVE Keeps(k)
    <3>1. w \notin FoundWrong(k)
      BY <2>1 DEF FoundWrong, Uncounted
    <3>2. w \in PastQuestion(k)' => w \in PastQuestion(k) \/ failures[k] < Limit(k)
      BY <1>3, <2>1, <2>4 DEF PastQuestion, Try
    <3> QED BY <1>4, <2>1, <3>1, <3>2
  <2> QED BY <1>1, <2>2, <2>3, <2>5
<1>8. CASE CompareWrong(w)
  <2>1. try[w] # NoLogin /\ try[w].step = "compare" /\ UNCHANGED <<failures, window>>
    BY <1>8 DEF CompareWrong, StepIs
  <2>2. /\ try' = [try EXCEPT ![w].step = "countEmail"]
        /\ wrong' = [k \in Counters |-> IF k \in {e, m} THEN wrong[k] + 1 ELSE wrong[k]]
    BY <1>8 DEF CompareWrong, To
  <2>3. ThrottleTypeOK'
    BY <1>1, <1>3, <2>1, <2>2 DEF ThrottleTypeOK, Try
  <2>4. try'[w] = [try[w] EXCEPT !.step = "countEmail"] /\ try'[w] # NoLogin
    BY <1>1, <1>3, <2>1, <2>2, ThrottleAssumption DEF Try
  <2>5. ASSUME NEW k \in Counters PROVE Keeps(k)
    <3>1. w \in PastQuestion(k) <=> k \in {e, m}
      BY <1>3, <2>1 DEF PastQuestion
    <3>2. w \in PastQuestion(k)' <=> k \in {e, m}
      BY <1>3, <2>1, <2>4 DEF PastQuestion, Try
    <3>3. w \notin FoundWrong(k)
      BY <2>1 DEF FoundWrong, Uncounted
    <3>4. w \in FoundWrong(k)' <=> k \in {e, m}
      BY <1>3, <2>1, <2>4 DEF FoundWrong, Uncounted, Try
    <3>5. wrong'[k] = IF k \in {e, m} THEN wrong[k] + 1 ELSE wrong[k]
      BY <2>2
    <3> QED BY <1>2, <2>1, <3>1, <3>2, <3>3, <3>4, <3>5 DEF Keeps, Here
  <2> QED BY <1>1, <2>2, <2>3, <2>5
<1>9. CASE CompareRight(w)
  <2>1. try[w] # NoLogin /\ try[w].step = "compare" /\ UNCHANGED <<failures, window, wrong>>
        /\ try' = [try EXCEPT ![w].step = "success"]
    BY <1>9 DEF CompareRight, StepIs, To
  <2>2. ThrottleTypeOK'
    BY <1>1, <1>3, <2>1 DEF ThrottleTypeOK, Try
  <2>3. try'[w] = [try[w] EXCEPT !.step = "success"]
    BY <1>1, <2>1
  <2>4. ASSUME NEW k \in Counters PROVE Keeps(k)
    <3>1. w \notin FoundWrong(k)
      BY <2>1 DEF FoundWrong, Uncounted
    <3>2. w \notin PastQuestion(k)'
      BY <1>3, <2>1, <2>3 DEF PastQuestion, Try
    <3> QED BY <1>4, <2>1, <3>1, <3>2
  <2> QED BY <1>1, <2>1, <2>2, <2>4
<1>10. CASE Denied(w)
  <2>1. try[w] # NoLogin /\ try[w].step = "done" /\ UNCHANGED <<failures, window, wrong>>
        /\ try' = [try EXCEPT ![w] = NoLogin]
    BY <1>10 DEF Denied, StepIs, Answered
  <2>2. ThrottleTypeOK' /\ try'[w] = NoLogin
    BY <1>1, <2>1 DEF ThrottleTypeOK
  <2>3. \A k : w \notin FoundWrong(k) /\ w \notin PastQuestion(k)'
    BY <2>1, <2>2 DEF FoundWrong, Uncounted, PastQuestion
  <2> QED BY <1>1, <1>4, <2>1, <2>2, <2>3
<1>11. CASE Success(w)
  <2>1. /\ try[w] # NoLogin /\ try[w].step = "success" /\ try' = [try EXCEPT ![w] = NoLogin]
        /\ failures' = [failures EXCEPT ![e] = 0] /\ wrong' = [wrong EXCEPT ![e] = 0]
        /\ window' = window \ {e}
    BY <1>11 DEF Success, StepIs, Answered, Forget
  <2>2. ThrottleTypeOK' /\ try'[w] = NoLogin
    BY <1>1, <1>3, <2>1 DEF ThrottleTypeOK
  <2>3. \A k : w \notin FoundWrong(k) /\ w \notin PastQuestion(k)'
    BY <2>1, <2>2 DEF FoundWrong, Uncounted, PastQuestion
  <2>4. ASSUME NEW k \in Counters PROVE Keeps(k)
    <3>1. \/ failures'[k] = 0 /\ wrong'[k] = 0
          \/ failures'[k] = failures[k] /\ wrong'[k] = wrong[k]
      BY <1>1, <2>1
    <3> QED BY <1>2, <2>3, <3>1 DEF Keeps, Here
  <2> QED BY <1>1, <2>1, <2>2, <2>4
<1>12. CASE Broken(w)
  <2>1. /\ try[w] # NoLogin /\ try' = [try EXCEPT ![w] = NoLogin] /\ UNCHANGED <<failures, window>>
        /\ wrong' = [k \in Counters |-> IF k \in Uncounted(w) /\ wrong[k] > 0 THEN wrong[k] - 1 ELSE wrong[k]]
    BY <1>12 DEF Broken, Answered
  <2>2. ThrottleTypeOK' /\ try'[w] = NoLogin
    BY <1>1, <1>2, <2>1 DEF ThrottleTypeOK
  <2>3. ASSUME NEW k \in Counters PROVE Keeps(k)
    <3>1. w \notin FoundWrong(k)' /\ w \notin PastQuestion(k)'
      BY <2>2 DEF FoundWrong, PastQuestion
    <3>2. w \in FoundWrong(k) <=> k \in Uncounted(w)
      BY <2>1 DEF FoundWrong
    <3>3. wrong'[k] = IF k \in Uncounted(w) /\ wrong[k] > 0 THEN wrong[k] - 1 ELSE wrong[k]
      BY <2>1
    <3>4. failures'[k] = failures[k]
      BY <2>1
    <3> QED BY <1>2, <3>1, <3>2, <3>3, <3>4 DEF Keeps, Here
  <2> QED BY <1>1, <2>1, <2>2, <2>3
<1>13. CASE CountEmail(w)
  <2>1. CASE Incr(w, "countEmail", e, "expireEmail", "countIp")
    <3>1. /\ try[w] # NoLogin /\ try[w].step = "countEmail" /\ UNCHANGED <<window, wrong>>
          /\ failures' = [failures EXCEPT ![e] = @ + 1]
      BY <2>1 DEF Incr, StepIs
    <3>2. PICK then \in {"expireEmail", "countIp"} : try' = [try EXCEPT ![w].step = then]
      BY <2>1 DEF Incr, To
    <3>3. ThrottleTypeOK'
      BY <1>1, <1>3, <3>1, <3>2 DEF ThrottleTypeOK, Try
    <3>4. try'[w] = [try[w] EXCEPT !.step = then] /\ try'[w] # NoLogin
      BY <1>1, <1>3, <3>1, <3>2, ThrottleAssumption DEF Try
    <3>5. ASSUME NEW k \in Counters PROVE Keeps(k)
      <4>1. w \in PastQuestion(k) <=> k \in {e, m}
        BY <1>3, <3>1 DEF PastQuestion
      <4>2. w \in PastQuestion(k)' <=> k = m
        BY <1>3, <3>1, <3>4 DEF PastQuestion, Try
      <4>3. w \in FoundWrong(k) <=> k \in {e, m}
        BY <1>3, <3>1 DEF FoundWrong, Uncounted
      <4>4. w \in FoundWrong(k)' <=> k = m
        BY <1>3, <3>1, <3>4 DEF FoundWrong, Uncounted, Try
      <4>5. failures'[k] = IF k = e THEN failures[k] + 1 ELSE failures[k]
        BY <1>1, <3>1
      <4> QED BY <1>2, <1>3, <3>1, <4>1, <4>2, <4>3, <4>4, <4>5 DEF Keeps, Here
    <3> QED BY <1>1, <3>2, <3>3, <3>5
  <2>2. CASE Expire(w, "expireEmail", e, "countIp")
    <3>1. /\ try[w] # NoLogin /\ try[w].step = "expireEmail" /\ UNCHANGED <<failures, wrong>>
          /\ window' \subseteq window \cup {e} /\ try' = [try EXCEPT ![w].step = "countIp"]
      BY <1>13, <2>2 DEF Expire, StepIs, To, CountEmail
    <3>2. ThrottleTypeOK'
      BY <1>1, <1>3, <3>1 DEF ThrottleTypeOK, Try
    <3>3. try'[w] = [try[w] EXCEPT !.step = "countIp"] /\ try'[w] # NoLogin
      BY <1>1, <1>3, <3>1, ThrottleAssumption DEF Try
    <3>4. ASSUME NEW k \in Counters PROVE Keeps(k)
      <4>1. w \in PastQuestion(k)' => w \in PastQuestion(k)
        BY <1>3, <3>1, <3>3 DEF PastQuestion, Try
      <4>2. w \in FoundWrong(k) => w \in FoundWrong(k)'
        BY <1>3, <3>1, <3>3 DEF FoundWrong, Uncounted, Try
      <4> QED BY <1>4, <3>1, <4>1, <4>2
    <3> QED BY <1>1, <3>1, <3>2, <3>4
  <2> QED BY <1>13, <2>1, <2>2 DEF CountEmail
<1>14. CASE CountIp(w)
  <2>1. CASE Incr(w, "countIp", m, "expireIp", "done")
    <3>1. /\ try[w] # NoLogin /\ try[w].step = "countIp" /\ UNCHANGED <<window, wrong>>
          /\ failures' = [failures EXCEPT ![m] = @ + 1]
      BY <2>1 DEF Incr, StepIs
    <3>2. PICK then \in {"expireIp", "done"} : try' = [try EXCEPT ![w].step = then]
      BY <2>1 DEF Incr, To
    <3>3. ThrottleTypeOK'
      BY <1>1, <1>3, <3>1, <3>2 DEF ThrottleTypeOK, Try
    <3>4. try'[w] = [try[w] EXCEPT !.step = then]
      BY <1>1, <3>2
    <3>5. ASSUME NEW k \in Counters PROVE Keeps(k)
      <4>1. w \in PastQuestion(k) <=> k = m
        BY <1>3, <3>1 DEF PastQuestion
      <4>2. w \notin PastQuestion(k)' /\ w \notin FoundWrong(k)'
        BY <1>3, <3>1, <3>4 DEF PastQuestion, FoundWrong, Uncounted, Try
      <4>3. w \in FoundWrong(k) <=> k = m
        BY <1>3, <3>1 DEF FoundWrong, Uncounted
      <4>4. failures'[k] = IF k = m THEN failures[k] + 1 ELSE failures[k]
        BY <1>1, <3>1
      <4> QED BY <1>2, <1>3, <3>1, <4>1, <4>2, <4>3, <4>4 DEF Keeps, Here
    <3> QED BY <1>1, <3>2, <3>3, <3>5
  <2>2. CASE Expire(w, "expireIp", m, "done")
    <3>1. /\ try[w] # NoLogin /\ try[w].step = "expireIp" /\ UNCHANGED <<failures, wrong>>
          /\ window' \subseteq window \cup {m} /\ try' = [try EXCEPT ![w].step = "done"]
      BY <1>14, <2>2 DEF Expire, StepIs, To, CountIp
    <3>2. ThrottleTypeOK'
      BY <1>1, <1>3, <3>1 DEF ThrottleTypeOK, Try
    <3>3. try'[w] = [try[w] EXCEPT !.step = "done"]
      BY <1>1, <3>1
    <3>4. ASSUME NEW k \in Counters PROVE Keeps(k)
      <4>1. w \notin PastQuestion(k)' /\ w \notin FoundWrong(k)
        BY <1>3, <3>1, <3>3 DEF PastQuestion, FoundWrong, Uncounted, Try
      <4> QED BY <1>4, <3>1, <4>1
    <3> QED BY <1>1, <3>1, <3>2, <3>4
  <2> QED BY <1>14, <2>1, <2>2 DEF CountIp
<1> QED BY <1>5, <1>6, <1>7, <1>8, <1>9, <1>10, <1>11, <1>12, <1>13, <1>14

\* The end of a window empties a counter.
LEMMA ThrottleStep == GuessesInv /\ [ThrottleNext]_throttleVars => GuessesInv'
<1> SUFFICES ASSUME GuessesInv, [ThrottleNext]_throttleVars PROVE GuessesInv'
  OBVIOUS
<1>1. ASSUME NEW w \in Workers,
             \/ \E e \in Addresses, m \in Machines : Login(w, e, m)
             \/ AskEmail(w) \/ AskIp(w) \/ CompareWrong(w) \/ CompareRight(w) \/ CountEmail(w)
             \/ CountIp(w) \/ Denied(w) \/ Success(w) \/ Broken(w)
      PROVE  GuessesInv'
  BY <1>1, ThrottleCalls
<1>2. ASSUME NEW k \in Counters, WindowEnds(k) PROVE GuessesInv'
  <2>1. /\ failures' = [failures EXCEPT ![k] = 0] /\ wrong' = [wrong EXCEPT ![k] = 0]
        /\ window' = window \ {k} /\ try' = try
    BY <1>2 DEF WindowEnds, Forget
  <2>2. ThrottleTypeOK'
    BY <2>1 DEF GuessesInv, ThrottleTypeOK
  <2>3. ASSUME NEW j \in Counters
        PROVE  /\ failures'[j] + Cardinality(PastQuestion(j)) < Limit(j) + Cardinality(Workers)
               /\ wrong'[j] <= failures'[j] + Cardinality(FoundWrong(j))
    <3>1. /\ failures'[j] = IF j = k THEN 0 ELSE failures[j]
          /\ wrong'[j] = IF j = k THEN 0 ELSE wrong[j]
      BY <2>1 DEF GuessesInv, ThrottleTypeOK
    <3>2. PastQuestion(j) \in SUBSET Workers /\ FoundWrong(j) \in SUBSET Workers
      BY DEF PastQuestion, FoundWrong
    <3>3. /\ Cardinality(PastQuestion(j)) <= Cardinality(Workers) /\ Cardinality(Workers) \in Nat
          /\ Cardinality(PastQuestion(j)) \in Nat /\ Cardinality(FoundWrong(j)) \in Nat
      BY <3>2, ThrottleAssumption, FS_Subset, FS_CardinalityType
    <3> QED BY <3>1, <3>3, LimitIsSome DEF GuessesInv
  <2>4. \A j : PastQuestion(j)' = PastQuestion(j) /\ FoundWrong(j)' = FoundWrong(j)
    BY <2>1 DEF PastQuestion, FoundWrong, Uncounted
  <2> QED BY <2>2, <2>3, <2>4 DEF GuessesInv, Counters, Limit
<1>3. CASE UNCHANGED throttleVars
  <2>1. failures' = failures /\ window' = window /\ try' = try /\ wrong' = wrong
    BY <1>3 DEF throttleVars
  <2>2. \A j : PastQuestion(j)' = PastQuestion(j) /\ FoundWrong(j)' = FoundWrong(j)
    BY <2>1 DEF PastQuestion, FoundWrong, Uncounted
  <2> QED BY <2>1, <2>2 DEF GuessesInv, ThrottleTypeOK, Counters, Limit
<1> QED BY <1>1, <1>2, <1>3 DEF ThrottleNext

LEMMA GuessesAreCounted == GuessesInv => GuessesAreBounded
<1> SUFFICES ASSUME GuessesInv, NEW k \in Counters
             PROVE  wrong[k] < Limit(k) + Cardinality(Workers)
  BY DEF GuessesAreBounded
<1>1. FoundWrong(k) \subseteq PastQuestion(k) /\ PastQuestion(k) \in SUBSET Workers
  BY DEF FoundWrong, PastQuestion, Uncounted
<1>2. IsFiniteSet(PastQuestion(k))
  BY <1>1, ThrottleAssumption, FS_Subset
<1>3. /\ Cardinality(FoundWrong(k)) <= Cardinality(PastQuestion(k))
      /\ Cardinality(FoundWrong(k)) \in Nat /\ Cardinality(PastQuestion(k)) \in Nat
      /\ Cardinality(Workers) \in Nat
  BY <1>1, <1>2, ThrottleAssumption, FS_Subset, FS_CardinalityType
<1> QED BY <1>3, LimitIsSome DEF GuessesInv, ThrottleTypeOK

\* The passwords found wrong for one address or from one machine go beyond the
\* limit of a window by less than the number of logins served at one time,
\* however these interleave (assertAllowed, recordFailure, recordSuccess).
THEOREM GuessesBounded == ThrottleSpec => []GuessesAreBounded
<1>1. ThrottleSpec => []GuessesInv
  BY ThrottleStart, ThrottleStep, PTL DEF ThrottleSpec
<1> QED BY <1>1, GuessesAreCounted, PTL

-----------------------------------------------------------------------------
(* Owners *)

LEMMA OwnerStart == AccountsInit => OwnerInv
<1> SUFFICES ASSUME AccountsInit PROVE OwnerInv
  OBVIOUS
<1>1. AccountsTypeOK /\ \A c \in Clients : call[c] = Nothing
  BY DEF AccountsInit, AccountsTypeOK
<1>2. ActiveOwners = {} /\ OpenInvites = {}
  BY DEF AccountsInit, ActiveOwners, Owners, Registered, OpenInvites
<1> QED BY <1>1, <1>2 DEF OwnerInv, OneComes, SawAll, InHand, On

\* A client goes on and nothing else changes.
LEMMA MovesKeep ==
  ASSUME OwnerInv, NEW c \in Clients, NEW r, Moves(c, r), r # Nothing => Asked(r),
         InHand(c)', ~ownerMissed /\ ~backOn => SawAll(c)'
  PROVE  OwnerInv'
<1>1. /\ call' = [call EXCEPT ![c] = r]
      /\ account' = account /\ invite' = invite /\ ownerMissed' = ownerMissed /\ backOn' = backOn
  BY DEF Moves, Asks
<1>2. AccountsTypeOK'
  BY <1>1 DEF OwnerInv, AccountsTypeOK
<1>3. ActiveOwners' = ActiveOwners /\ OpenInvites' = OpenInvites /\ OneComes' = OneComes
  BY <1>1 DEF ActiveOwners, Owners, Registered, OpenInvites, OneComes
<1>4. ASSUME NEW d \in Clients, d # c
      PROVE  /\ InHand(d) => InHand(d)'
             /\ SawAll(d) => SawAll(d)'
  <2>1. call'[d] = call[d]
    BY <1>1, <1>4 DEF OwnerInv, AccountsTypeOK
  <2> QED BY <1>1, <1>3, <2>1 DEF InHand, SawAll, Looked, On, Registered
<1> QED BY <1>1, <1>2, <1>3, <1>4 DEF OwnerInv

LEMMA AskedParts ==
  ASSUME NEW r, Asked(r)
  PROVE  /\ r.op \in {"create", "accept", "createUser", "toggle"}
         /\ r.step \in {"check", "email", "revoke", "write"}
         /\ r.email \in Emails /\ r.invite \in Invites \cup {Nothing} /\ r.fresh \in BOOLEAN
         /\ r.seen \in IF r.op = "toggle" THEN BOOLEAN
                       ELSE IF r.step = "write" THEN SUBSET Invites ELSE {Nothing}
         /\ \A f \in BOOLEAN : Asked([r EXCEPT !.fresh = f])
BY DEF Asked

\* What is looked up, asked and revoked.
LEMMA ClientsMoveOn ==
  ASSUME OwnerInv, NEW c \in Clients,
         \/ \E e \in Emails : BeginInvite(c, e) \/ BeginCreateUser(c, e) \/ BeginToggle(c, e)
         \/ \E i \in Invites : BeginAccept(c, i)
         \/ CheckOwner(c) \/ CheckAddress(c) \/ RevokeOpen(c)
  PROVE  OwnerInv'
<1>1. /\ account \in [Emails -> Account \cup {Nothing}]
      /\ invite \in [Invites -> Invite \cup {Nothing}]
      /\ DOMAIN call = Clients /\ (call[c] # Nothing => Asked(call[c]))
  BY DEF OwnerInv, AccountsTypeOK
<1>2. ASSUME NEW r, Moves(c, r)
      PROVE  /\ call'[c] = r /\ ActiveOwners' = ActiveOwners /\ OpenInvites' = OpenInvites
             /\ account' = account /\ invite' = invite
  BY <1>1, <1>2 DEF Moves, Asks, ActiveOwners, Owners, Registered, OpenInvites
<1>3. ASSUME Hangs(c) PROVE OwnerInv'
  <2>1. Moves(c, Nothing)
    BY <1>3 DEF Hangs, Moves
  <2>2. InHand(c)' /\ SawAll(c)'
    BY <1>2, <2>1 DEF InHand, SawAll, On
  <2> QED BY <2>1, <2>2, MovesKeep
<1>4. ASSUME NEW r, Moves(c, r), r # Nothing => Asked(r), r.step = "check",
             r.op = "accept" => r.invite \in Invites /\ invite[r.invite] # Nothing,
             r.op = "toggle" => Registered(r.email)
      PROVE  OwnerInv'
  <2>1. InHand(c)' /\ SawAll(c)'
    BY <1>2, <1>4 DEF InHand, SawAll, On, Looked, Registered
  <2> QED BY <1>4, <2>1, MovesKeep
<1>5. ASSUME NEW e \in Emails, BeginInvite(c, e) \/ BeginCreateUser(c, e) PROVE OwnerInv'
  <2>1. PICK op \in {"create", "createUser"} : Moves(c, Call(op, e, Nothing))
    BY <1>5 DEF BeginInvite, BeginCreateUser
  <2>2. Asked(Call(op, e, Nothing))
    BY DEF Asked, Call
  <2> QED BY <1>4, <2>1, <2>2 DEF Call
<1>6. ASSUME NEW e \in Emails, BeginToggle(c, e) PROVE OwnerInv'
  <2> DEFINE r == [Call("toggle", e, Nothing) EXCEPT !.seen = account[e].active]
  <2>1. Registered(e) /\ account[e].active \in BOOLEAN
    BY <1>1, <1>6 DEF BeginToggle, Registered, Account
  <2>2. Asked(r) /\ r.step = "check" /\ r.op = "toggle" /\ r.email = e
    BY <2>1 DEF Asked, Call
  <2> QED BY <1>4, <1>6, <2>1, <2>2 DEF BeginToggle
<1>7. ASSUME NEW i \in Invites, BeginAccept(c, i) PROVE OwnerInv'
  <2> DEFINE r == Call("accept", invite[i].email, i)
  <2>1. invite[i] # Nothing /\ invite[i].email \in Emails
    BY <1>1, <1>7 DEF BeginAccept, Valid, Invite
  <2>2. Asked(r) /\ r.step = "check" /\ r.op = "accept" /\ r.invite = i
    BY <2>1 DEF Asked, Call
  <2> QED BY <1>4, <1>7, <2>1, <2>2 DEF BeginAccept
<1>8. CASE CheckOwner(c)
  <2> DEFINE r == [call[c] EXCEPT !.step = "email", !.fresh = TRUE]
  <2>1. CASE ActiveOwners = {}
    <3>1. Moves(c, r) /\ Asked(call[c]) /\ call[c].op = "create" /\ call[c].step = "check"
      BY <1>1, <1>8, <2>1 DEF CheckOwner, On
    <3>2. Asked(r) /\ r.op = "create" /\ r.step = "email"
      BY <3>1 DEF Asked
    <3>3. InHand(c)' /\ SawAll(c)'
      BY <1>2, <2>1, <3>1, <3>2 DEF InHand, SawAll, On, Looked
    <3> QED BY <3>1, <3>2, <3>3, MovesKeep
  <2> QED BY <1>3, <1>8, <2>1 DEF CheckOwner
<1>9. ASSUME NEW r, Moves(c, r), Asked(r), Looked(c), r.op = "create", r.fresh = call[c].fresh,
             r.step = "write" => r.seen = OpenInvites
      PROVE  OwnerInv'
  <2>1. InHand(c)'
    BY <1>2, <1>9 DEF InHand, On
  <2>2. call[c] # Nothing
    BY <1>9 DEF Looked, On
  <2>3. ~ownerMissed /\ ~backOn => SawAll(c)'
    BY <1>2, <1>9, <2>2 DEF OwnerInv, SawAll, On, Looked
  <2> QED BY <1>9, <2>1, <2>3, MovesKeep
<1>10. CASE CheckAddress(c)
  <2> DEFINE r == [call[c] EXCEPT !.step = "revoke"]
  <2>1. CASE ~Registered(call[c].email)
    <3>1. Moves(c, r) /\ Asked(call[c]) /\ call[c].op = "create" /\ call[c].step = "email" /\ Looked(c)
      BY <1>1, <1>10, <2>1 DEF CheckAddress, On, Looked
    <3>2. Asked(r) /\ r.op = "create" /\ r.step = "revoke" /\ r.fresh = call[c].fresh
      BY <3>1 DEF Asked
    <3> QED BY <1>9, <3>1, <3>2
  <2> QED BY <1>3, <1>10, <2>1 DEF CheckAddress
<1>11. CASE RevokeOpen(c)
  <2> DEFINE r == [call[c] EXCEPT !.step = "write", !.seen = OpenInvites]
  <2>1. Moves(c, r) /\ Asked(call[c]) /\ call[c].op = "create" /\ call[c].step = "revoke" /\ Looked(c)
    BY <1>1, <1>11 DEF RevokeOpen, On, Looked
  <2>2. OpenInvites \in SUBSET Invites
    BY DEF OpenInvites
  <2>3. Asked(r) /\ r.op = "create" /\ r.fresh = call[c].fresh /\ r.seen = OpenInvites
    BY <2>1, <2>2 DEF Asked
  <2> QED BY <1>9, <2>1, <2>3
<1> QED BY <1>5, <1>6, <1>7, <1>8, <1>10, <1>11

\* An account is made or switched: who owned before may have been switched off, who
\* did not own does not now.
LEMMA AccountsMoveOn ==
  ASSUME OwnerInv,
         \/ \E c \in Clients : CreateUser(c) \/ ToggleUser(c)
         \/ \E e \in Emails, active \in BOOLEAN : SetUser(e, active)
  PROVE  OwnerInv'
<1>1. /\ account \in [Emails -> Account \cup {Nothing}]
      /\ DOMAIN call = Clients /\ \A c \in Clients : call[c] # Nothing => Asked(call[c])
  BY DEF OwnerInv, AccountsTypeOK
<1>2. ASSUME account' \in [Emails -> Account \cup {Nothing}], UNCHANGED <<invite, ownerMissed>>,
             backOn' \in BOOLEAN, ~backOn' => ~backOn /\ ActiveOwners' \subseteq ActiveOwners,
             \A e \in Emails : account[e] # Nothing => account'[e] # Nothing,
             DOMAIN call' = Clients, \A c \in Clients : call'[c] \in {call[c], Nothing}
      PROVE  OwnerInv'
  <2>1. AccountsTypeOK'
    BY <1>2 DEF OwnerInv, AccountsTypeOK
  <2>2. OpenInvites' = OpenInvites
    BY <1>2 DEF OpenInvites
  <2>3. ASSUME NEW c \in Clients PROVE InHand(c)'
    <3>1. call[c] # Nothing => call[c].email \in Emails
      BY <1>1, AskedParts
    <3> QED BY <1>2, <3>1 DEF OwnerInv, InHand, On, Registered
  <2>4. ~ownerMissed' /\ ~backOn' => OneComes'
    BY <1>2, <2>2 DEF OwnerInv, OneComes
  <2>5. ASSUME NEW c \in Clients, ~ownerMissed', ~backOn' PROVE SawAll(c)'
    <3>1. SawAll(c) /\ ActiveOwners' \subseteq ActiveOwners
      BY <1>2, <2>5 DEF OwnerInv
    <3> QED BY <1>2, <2>2, <3>1 DEF SawAll, Looked, On
  <2> QED BY <2>1, <2>3, <2>4, <2>5 DEF OwnerInv
<1>3. ASSUME NEW c \in Clients, CreateUser(c) PROVE OwnerInv'
  <2> DEFINE e == call[c].email
  <2>1. CASE Registered(e)
    <3>1. Hangs(c)
      BY <1>3, <2>1 DEF CreateUser
    <3>2. Moves(c, Nothing) /\ call'[c] = Nothing
      BY <1>1, <3>1 DEF Hangs, Moves, Asks
    <3>3. InHand(c)' /\ SawAll(c)'
      BY <3>2 DEF InHand, SawAll, On
    <3> QED BY <3>2, <3>3, MovesKeep
  <2>2. CASE ~Registered(e)
    <3>1. /\ account' = [account EXCEPT ![e] = [role |-> "STAFF", active |-> TRUE]]
          /\ call' = [call EXCEPT ![c] = Nothing] /\ UNCHANGED <<invite, ownerMissed, backOn>>
          /\ call[c] # Nothing
      BY <1>3, <2>2 DEF CreateUser, NewAccount, Asks, On
    <3>2. e \in Emails
      BY <1>1, <3>1, AskedParts
    <3>3. ActiveOwners' \subseteq ActiveOwners
      BY <1>1, <3>1, <3>2 DEF ActiveOwners, Owners, Registered
    <3>4. account' \in [Emails -> Account \cup {Nothing}]
      BY <1>1, <3>1, <3>2 DEF Account
    <3>5. \A f \in Emails : account[f] # Nothing => account'[f] # Nothing
      BY <1>1, <2>2, <3>1, <3>2 DEF Registered
    <3>6. DOMAIN call' = Clients /\ \A d \in Clients : call'[d] \in {call[d], Nothing}
      BY <1>1, <3>1
    <3>7. backOn' \in BOOLEAN /\ (~backOn' => ~backOn)
      BY <3>1 DEF OwnerInv, AccountsTypeOK
    <3> QED BY <1>2, <3>1, <3>3, <3>4, <3>5, <3>6, <3>7
  <2> QED BY <2>1, <2>2
<1>4. ASSUME NEW e \in Emails, NEW active \in BOOLEAN, Registered(e),
             account' = [account EXCEPT ![e].active = active]
      PROVE  /\ account' \in [Emails -> Account \cup {Nothing}]
             /\ \A f \in Emails : account[f] # Nothing => account'[f] # Nothing
             /\ e \notin Owners \/ ~active => ActiveOwners' \subseteq ActiveOwners
  <2>1. /\ account'[e] = [account[e] EXCEPT !.active = active] /\ account[e] \in Account
        /\ \A f \in Emails \ {e} : account'[f] = account[f]
    BY <1>1, <1>4 DEF Registered
  <2>2. account'[e] \in Account /\ account'[e].role = account[e].role /\ account'[e].active = active
    BY <2>1 DEF Account
  <2>3. account' \in [Emails -> Account \cup {Nothing}]
    BY <1>1, <1>4, <2>2
  <2> QED BY <2>1, <2>2, <2>3, AccountsAssumption DEF ActiveOwners, Owners, Registered
<1>5. ASSUME NEW c \in Clients, ToggleUser(c) PROVE OwnerInv'
  <2> DEFINE e == call[c].email
  <2>1. /\ account' = [account EXCEPT ![e].active = ~call[c].seen]
        /\ backOn' = (backOn \/ (e \in Owners /\ ~call[c].seen))
        /\ call' = [call EXCEPT ![c] = Nothing] /\ UNCHANGED <<invite, ownerMissed>>
        /\ call[c] # Nothing /\ call[c].op = "toggle" /\ call[c].step = "check"
    BY <1>5 DEF ToggleUser, On, Asks
  <2>2. e \in Emails /\ call[c].seen \in BOOLEAN
    BY <1>1, <2>1, AskedParts
  <2>3. Registered(e)
    BY <2>1 DEF OwnerInv, InHand, On
  <2>4. /\ account' \in [Emails -> Account \cup {Nothing}]
        /\ \A f \in Emails : account[f] # Nothing => account'[f] # Nothing
        /\ e \notin Owners \/ call[c].seen => ActiveOwners' \subseteq ActiveOwners
    BY <1>4, <2>1, <2>2, <2>3
  <2>5. backOn' \in BOOLEAN /\ (~backOn' => ~backOn /\ ActiveOwners' \subseteq ActiveOwners)
    BY <2>1, <2>2, <2>4 DEF OwnerInv, AccountsTypeOK
  <2>6. DOMAIN call' = Clients /\ \A d \in Clients : call'[d] \in {call[d], Nothing}
    BY <1>1, <2>1
  <2> QED BY <1>2, <2>1, <2>4, <2>5, <2>6
<1>6. ASSUME NEW e \in Emails, NEW active \in BOOLEAN, SetUser(e, active) PROVE OwnerInv'
  <2>1. /\ account' = [account EXCEPT ![e].active = active] /\ Registered(e) /\ e \notin Owners
        /\ UNCHANGED <<invite, call, ownerMissed, backOn>>
    BY <1>6 DEF SetUser, Owners
  <2>2. backOn' \in BOOLEAN /\ (~backOn' => ~backOn)
    BY <2>1 DEF OwnerInv, AccountsTypeOK
  <2> QED BY <1>1, <1>2, <1>4, <2>1, <2>2
<1> QED BY <1>3, <1>5, <1>6

\* A link runs out: it was open or not, and is so still.
LEMMA ExpiryKeeps == ASSUME OwnerInv, NEW i \in Invites, InviteExpires(i) PROVE OwnerInv'
<1>1. /\ invite' = [invite EXCEPT ![i].expired = TRUE] /\ invite[i] # Nothing
      /\ account' = account /\ call' = call /\ ownerMissed' = ownerMissed /\ backOn' = backOn
  BY DEF InviteExpires
<1>2. invite \in [Invites -> Invite \cup {Nothing}]
  BY DEF OwnerInv, AccountsTypeOK
<1>3. /\ invite'[i] = [invite[i] EXCEPT !.expired = TRUE] /\ invite[i] \in Invite
      /\ \A j \in Invites \ {i} : invite'[j] = invite[j]
  BY <1>1, <1>2
<1>4. invite'[i] \in Invite /\ invite'[i].state = invite[i].state
  BY <1>3 DEF Invite
<1>5. invite' \in [Invites -> Invite \cup {Nothing}]
  BY <1>1, <1>2, <1>4
<1>6. OpenInvites' = OpenInvites /\ \A j \in Invites : invite[j] # Nothing => invite'[j] # Nothing
  <2>1. invite'[i] # Nothing
    BY <1>4, AccountsAssumption
  <2>2. \A j \in Invites : /\ invite[j] # Nothing <=> invite'[j] # Nothing
                           /\ invite[j] # Nothing => invite'[j].state = invite[j].state
    BY <1>1, <1>3, <1>4, <2>1
  <2> QED BY <2>2 DEF OpenInvites
<1>7. ActiveOwners' = ActiveOwners
  BY <1>1 DEF ActiveOwners, Owners, Registered
<1> QED BY <1>1, <1>5, <1>6, <1>7 DEF OwnerInv, AccountsTypeOK, OneComes, SawAll, InHand, Looked, On, Registered

\* The new link is the only good one: its maker has locked the one before, and who
\* was to write another now knows that he missed this one.
LEMMA NewLinkKeeps == ASSUME OwnerInv, NEW c \in Clients, MakeInvite(c) PROVE OwnerInv'
<1>1. /\ invite \in [Invites -> Invite \cup {Nothing}] /\ DOMAIN call = Clients
      /\ \A d \in Clients : call[d] # Nothing => Asked(call[d])
      /\ ownerMissed \in BOOLEAN /\ backOn \in BOOLEAN
  BY DEF OwnerInv, AccountsTypeOK
<1>2. /\ call[c] # Nothing /\ call[c].op = "create" /\ call[c].step = "write" /\ On(c, "create", "write")
      /\ ownerMissed' = (ownerMissed \/ ~call[c].fresh)
      /\ call' = [d \in Clients |->
           IF d = c THEN Nothing
           ELSE IF On(d, "create", "write") THEN [call[d] EXCEPT !.fresh = FALSE] ELSE call[d]]
      /\ account' = account /\ backOn' = backOn
  BY DEF MakeInvite, On
<1>3. PICK i \in Invites :
        /\ invite[i] = Nothing
        /\ invite' = [j \in Invites |->
             IF j = i THEN [email |-> call[c].email, state |-> "open", expired |-> FALSE]
             ELSE IF j \in call[c].seen \cap OpenInvites THEN [invite[j] EXCEPT !.state = "revoked"]
             ELSE invite[j]]
  BY DEF MakeInvite
<1>4. call[c].email \in Emails /\ call[c].fresh \in BOOLEAN
  BY <1>1, <1>2, AskedParts
<1>5. ASSUME NEW j \in Invites
      PROVE  /\ invite'[j] \in Invite \cup {Nothing}
             /\ invite[j] # Nothing => invite'[j] # Nothing
             /\ j \in OpenInvites' => j = i \/ j \in OpenInvites \ call[c].seen
  <2>1. CASE j = i
    BY <1>3, <1>4, <2>1 DEF Invite
  <2>2. CASE j # i /\ j \in call[c].seen \cap OpenInvites
    <3>1. invite'[j] = [invite[j] EXCEPT !.state = "revoked"] /\ invite[j] \in Invite
      BY <1>1, <1>3, <2>2 DEF OpenInvites
    <3>2. invite'[j] \in Invite /\ invite'[j].state = "revoked"
      BY <3>1 DEF Invite
    <3> QED BY <3>2, AccountsAssumption DEF OpenInvites
  <2>3. CASE j # i /\ j \notin call[c].seen \cap OpenInvites
    <3>1. invite'[j] = invite[j]
      BY <1>3, <2>3
    <3> QED BY <1>1, <2>3, <3>1 DEF OpenInvites
  <2> QED BY <2>1, <2>2, <2>3
<1>6. ASSUME NEW d \in Clients
      PROVE  \/ call'[d] = Nothing
             \/ call'[d] = call[d] /\ ~On(d, "create", "write")
             \/ /\ call[d] # Nothing /\ Asked(call'[d]) /\ call'[d].fresh = FALSE
                /\ call'[d].op = "create" /\ call'[d].step = "write"
  <2>1. CASE d # c /\ On(d, "create", "write")
    <3>1. call'[d] = [call[d] EXCEPT !.fresh = FALSE] /\ Asked(call[d])
      BY <1>1, <1>2, <2>1 DEF On
    <3>2. \A f \in BOOLEAN : Asked([call[d] EXCEPT !.fresh = f])
      BY <3>1, AskedParts
    <3>3. Asked(call'[d])
      BY <3>1, <3>2
    <3>4. /\ call'[d].fresh = FALSE /\ call'[d].op = call[d].op /\ call'[d].step = call[d].step
      BY <3>1 DEF Asked
    <3> QED BY <2>1, <3>3, <3>4 DEF On
  <2> QED BY <1>2, <2>1
<1>7. AccountsTypeOK'
  <2>1. invite' \in [Invites -> Invite \cup {Nothing}]
    BY <1>3, <1>5
  <2>2. DOMAIN call' = Clients /\ \A d \in Clients : call'[d] # Nothing => Asked(call'[d])
    BY <1>1, <1>2, <1>6
  <2> QED BY <1>1, <1>2, <1>4, <2>1, <2>2 DEF OwnerInv, AccountsTypeOK
<1>8. ASSUME NEW d \in Clients PROVE InHand(d)'
  <2>1. CASE call'[d] = call[d]
    BY <1>2, <1>5, <2>1 DEF OwnerInv, InHand, On, Registered
  <2> QED BY <1>6, <2>1 DEF InHand, On
<1>9. ASSUME ~ownerMissed', ~backOn' PROVE OneComes' /\ \A d \in Clients : SawAll(d)'
  <2>1. OneComes /\ call[c].fresh /\ SawAll(c)
    BY <1>1, <1>2, <1>4, <1>9 DEF OwnerInv
  <2>2. OpenInvites \subseteq call[c].seen /\ ActiveOwners = {}
    BY <1>2, <2>1 DEF SawAll, Looked
  <2>3. ActiveOwners' = {}
    BY <1>2, <2>2 DEF ActiveOwners, Owners, Registered
  <2>4. OpenInvites' \subseteq {i}
    BY <1>5, <2>2 DEF OpenInvites
  <2>5. ASSUME NEW d \in Clients PROVE SawAll(d)'
    BY <1>6, <2>3 DEF SawAll, On
  <2> QED BY <2>3, <2>4, <2>5 DEF OneComes
<1> QED BY <1>7, <1>8, <1>9 DEF OwnerInv

\* Who follows a good link is the only owner, and no link is good any more.
LEMMA AcceptKeeps == ASSUME OwnerInv, NEW c \in Clients, Accept(c) PROVE OwnerInv'
<1> DEFINE i == call[c].invite
           e == call[c].email
<1>1. /\ account \in [Emails -> Account \cup {Nothing}] /\ invite \in [Invites -> Invite \cup {Nothing}]
      /\ DOMAIN call = Clients /\ \A d \in Clients : call[d] # Nothing => Asked(call[d])
  BY DEF OwnerInv, AccountsTypeOK
<1>2. On(c, "accept", "check") /\ call[c] # Nothing
  BY DEF Accept, On
<1>3. i \in Invites /\ invite[i] # Nothing /\ e \in Emails
  BY <1>1, <1>2, AskedParts DEF OwnerInv, InHand
<1>4. CASE ~StillOpen(i) \/ Registered(e)
  <2>1. Hangs(c)
    BY <1>4 DEF Accept
  <2>2. Moves(c, Nothing) /\ call'[c] = Nothing
    BY <1>1, <2>1 DEF Hangs, Moves, Asks
  <2>3. InHand(c)' /\ SawAll(c)'
    BY <2>2 DEF InHand, SawAll, On
  <2> QED BY <2>2, <2>3, MovesKeep
<1>5. CASE StillOpen(i) /\ ~Registered(e)
  <2>1. /\ invite' = [invite EXCEPT ![i].state = "used"]
        /\ account' = [account EXCEPT ![e] = [role |-> "OWNER", active |-> TRUE]]
        /\ call' = [d \in Clients |-> IF d = c \/ call[d] = Nothing THEN Nothing
                                     ELSE [call[d] EXCEPT !.fresh = FALSE]]
        /\ ownerMissed' = ownerMissed /\ backOn' = backOn
    BY <1>5 DEF Accept, NewAccount, AllMissed
  <2>2. /\ invite'[i] = [invite[i] EXCEPT !.state = "used"] /\ invite[i] \in Invite
        /\ \A j \in Invites \ {i} : invite'[j] = invite[j]
    BY <1>1, <1>3, <2>1
  <2>3. invite'[i] \in Invite /\ invite'[i].state = "used"
    BY <2>2 DEF Invite
  <2>4. /\ account'[e] = [role |-> "OWNER", active |-> TRUE]
        /\ \A f \in Emails \ {e} : account'[f] = account[f]
    BY <1>1, <1>3, <2>1
  <2>5. ASSUME NEW d \in Clients, call'[d] # Nothing
        PROVE  /\ call[d] # Nothing /\ Asked(call'[d]) /\ call'[d].fresh = FALSE
               /\ call'[d].op = call[d].op /\ call'[d].step = call[d].step
               /\ call'[d].invite = call[d].invite /\ call'[d].email = call[d].email
    <3>1. call'[d] = [call[d] EXCEPT !.fresh = FALSE] /\ Asked(call[d])
      BY <1>1, <2>1, <2>5
    <3> QED BY <2>1, <2>5, <3>1, AskedParts DEF Asked
  <2>6. AccountsTypeOK'
    <3>1. invite' \in [Invites -> Invite \cup {Nothing}]
      BY <1>1, <2>1, <2>3
    <3>2. account' \in [Emails -> Account \cup {Nothing}]
      BY <1>1, <2>1 DEF Account
    <3>3. DOMAIN call' = Clients /\ \A d \in Clients : call'[d] # Nothing => Asked(call'[d])
      BY <2>1, <2>5
    <3> QED BY <2>1, <3>1, <3>2, <3>3 DEF OwnerInv, AccountsTypeOK
  <2>7. /\ \A f \in Emails : account[f] # Nothing => account'[f] # Nothing
        /\ \A j \in Invites : invite[j] # Nothing => invite'[j] # Nothing
    BY <1>5, <2>2, <2>3, <2>4, AccountsAssumption DEF Registered
  <2>8. ASSUME NEW d \in Clients PROVE InHand(d)'
    <3>1. call[d] # Nothing => call[d].email \in Emails
      BY <1>1, AskedParts
    <3>2. InHand(d)
      BY DEF OwnerInv
    <3>3. CASE call'[d] = Nothing
      BY <3>3 DEF InHand, On
    <3>4. CASE call'[d] # Nothing
      <4>1. /\ call[d] # Nothing /\ call'[d].op = call[d].op /\ call'[d].step = call[d].step
            /\ call'[d].invite = call[d].invite /\ call'[d].email = call[d].email
        BY <2>5, <3>4
      <4> QED BY <2>7, <3>1, <3>2, <3>4, <4>1 DEF InHand, On, Registered
    <3> QED BY <3>3, <3>4
  <2>9. ASSUME ~ownerMissed', ~backOn' PROVE OneComes' /\ \A d \in Clients : SawAll(d)'
    <3>1. OneComes /\ i \in OpenInvites
      BY <1>3, <1>5, <2>1, <2>9 DEF OwnerInv, OpenInvites, StillOpen
    <3>2. \A j \in Invites \ {i} : j \notin OpenInvites
      BY <3>1 DEF OneComes
    <3>3. OpenInvites' = {}
      BY <2>2, <2>3, <3>2 DEF OpenInvites
    <3>4. ActiveOwners = {}
      BY <3>1 DEF OneComes
    <3>5. ActiveOwners' \subseteq {e}
      BY <2>4, <3>4 DEF ActiveOwners, Owners, Registered
    <3>6. ASSUME NEW d \in Clients PROVE SawAll(d)'
      BY <2>5 DEF SawAll
    <3> QED BY <3>3, <3>5, <3>6 DEF OneComes
  <2> QED BY <2>6, <2>8, <2>9 DEF OwnerInv
<1> QED BY <1>4, <1>5

LEMMA OwnerStep == OwnerInv /\ [AccountsNext]_accountVars => OwnerInv'
<1> SUFFICES ASSUME OwnerInv, [AccountsNext]_accountVars PROVE OwnerInv'
  OBVIOUS
<1>1. ASSUME NEW c \in Clients, ClientStep(c) PROVE OwnerInv'
  BY <1>1, ClientsMoveOn, AccountsMoveOn, NewLinkKeeps, AcceptKeeps DEF ClientStep
<1>2. CASE UNCHANGED accountVars
  BY <1>2 DEF accountVars, OwnerInv, AccountsTypeOK, OneComes, SawAll, InHand, Looked, On,
              ActiveOwners, Owners, Registered, OpenInvites
<1> QED BY <1>1, <1>2, ExpiryKeeps, AccountsMoveOn DEF AccountsNext

\* A hotel's links, however many were sent and however many are followed at once,
\* bring one owner (invitations.service.ts create and accept): the newest link alone
\* is good and is good for one, unless its maker missed an owner or a link, or the
\* platform switched a former owner on again.
THEOREM InvitesBringOneOwner == AccountsSpec => []OneOwnerByInvite
<1>1. AccountsSpec => []OwnerInv
  BY OwnerStart, OwnerStep, PTL DEF AccountsSpec
<1>2. OwnerInv => OneOwnerByInvite
  <2> SUFFICES ASSUME OwnerInv, ~ownerMissed, ~backOn PROVE Cardinality(ActiveOwners) <= 1
    BY DEF OneOwnerByInvite
  <2>1. \A e, f \in ActiveOwners : e = f
    BY DEF OwnerInv, OneComes
  <2>2. CASE ActiveOwners = {}
    BY <2>2, FS_EmptySet
  <2>3. CASE ActiveOwners # {}
    <3>1. PICK e : ActiveOwners = {e}
      BY <2>1, <2>3
    <3> QED BY <3>1, FS_Singleton
  <2> QED BY <2>2, <2>3
<1> QED BY <1>1, <1>2, PTL

-----------------------------------------------------------------------------
(* Cleaning *)

\* A room that was listed stays listed: no announcement is taken back but in a missed
\* room, no open task leaves the board but of a room somebody has spoken of.
LEMMA ListKeeps ==
  ASSUME LeftIsListed, unsaid' \ missed' \subseteq unsaid \ missed,
         \A r \in unsaid' \ missed', b \in Bookings : <<b, r>> \in due => <<b, r>> \in due',
         \A t \in TaskIds : Unfinished(t) /\ task[t].room \in unsaid' =>
                             Unfinished(t)' /\ task'[t].room = task[t].room,
         DOMAIN task = TaskIds
  PROVE  LeftIsListed'
<1> SUFFICES ASSUME NEW r \in unsaid' \ missed'
             PROVE  (\E b \in Bookings : <<b, r>> \in due') \/ (\E t \in Tasks' : Unfinished(t)' /\ task'[t].room = r)
  BY DEF LeftIsListed
<1>1. CASE \E b \in Bookings : <<b, r>> \in due
  BY <1>1
<1>2. ASSUME NEW t \in Tasks, Unfinished(t), task[t].room = r
      PROVE  \E u \in Tasks' : Unfinished(u)' /\ task'[u].room = r
  <2>1. t \in TaskIds
    BY <1>2 DEF Tasks, Rows
  <2>2. Unfinished(t)' /\ task'[t].room = r
    BY <1>2, <2>1
  <2> QED BY <2>2 DEF Unfinished
<1> QED BY <1>1, <1>2 DEF LeftIsListed

LEMMA CleaningStart == Furnished /\ HousekeepingInit => HousekeepingInv
<1> SUFFICES ASSUME Furnished, HousekeepingInit PROVE HousekeepingInv
  OBVIOUS
<1>1. PICK f \in Injection(RoomIds, Numbers), c \in TypeIds, code \in Codes :
        /\ category = [x \in TypeIds |-> IF x = c THEN NewType(code) ELSE NoRow]
        /\ room = [r \in RoomIds |-> NewRoom(f[r], c, "CLEAN")]
  BY DEF Furnished
<1>2. \A r \in RoomIds : f[r] \in Numbers
  BY DEF Injection
<1>3. room \in [RoomIds -> RoomRow]
  BY <1>1, <1>2, HousekeepingAssumption DEF NewRoom, RoomRow, StatusSet
<1>4. HousekeepingTypeOK
  BY <1>1, <1>3 DEF Furnished, HousekeepingInit, HousekeepingTypeOK
<1> QED BY <1>4 DEF HousekeepingInv, DepartureIsSeen, LeftIsDirty, LeftIsListed, Furnished, HousekeepingInit

LEMMA OutdatedForms ==
  ASSUME job \in [Desks -> RoomForm \cup {NoRow}]
  PROVE  /\ Outdates \in [Desks -> RoomForm \cup {NoRow}]
         /\ \A d \in Desks : Ends(d) \in [Desks -> RoomForm \cup {NoRow}]
BY DEF Outdates, Ends, RoomForm

\* A guest leaves: the room is dirty in the same transaction and its departure is
\* to be announced.
LEMMA LeaveKeeps == ASSUME HousekeepingInv, NEW b \in Bookings, Leave(b) PROVE HousekeepingInv'
<1> DEFINE r == booking[b].room
<1>1. /\ booking[b].status = "live" /\ booking' = [booking EXCEPT ![b].status = "left"]
      /\ room' = [room EXCEPT ![r].status = "DIRTY"] /\ job' = Outdates /\ left' = left + 1
      /\ due' = due \cup {<<b, r>>} /\ unsaid' = unsaid \cup {r}
      /\ missed' = missed \ {r} /\ undone' = undone \ {r}
      /\ UNCHANGED <<category, overlapped, task>>
  BY DEF Leave, CheckOut
<1>2. r \in RoomIds
  BY <1>1 DEF HousekeepingInv
<1>3. booking'[b] = [room |-> r, status |-> "left"] /\ \A a \in Bookings \ {b} : booking'[a] = booking[a]
  BY <1>1 DEF HousekeepingInv, HousekeepingTypeOK
<1>4. /\ room'[r] = [room[r] EXCEPT !.status = "DIRTY"] /\ room[r] \in RoomRow
      /\ \A q \in RoomIds \ {r} : room'[q] = room[q]
  BY <1>1, <1>2 DEF HousekeepingInv, HousekeepingTypeOK
<1>5. room'[r] \in RoomRow /\ room'[r].status = "DIRTY"
  BY <1>4 DEF RoomRow, StatusSet
<1>6. HousekeepingTypeOK'
  <2>1. room' \in [RoomIds -> RoomRow]
    BY <1>1, <1>2, <1>5 DEF HousekeepingInv, HousekeepingTypeOK
  <2>2. booking' \in [Bookings -> [room : RoomIds \cup {NoRow}, status : {"none", "live", "left"}]]
    BY <1>1, <1>2, <1>3 DEF HousekeepingInv, HousekeepingTypeOK
  <2>3. job' \in [Desks -> RoomForm \cup {NoRow}]
    BY <1>1, OutdatedForms DEF HousekeepingInv, HousekeepingTypeOK
  <2>4. left' \in Nat /\ unsaid' \subseteq RoomIds /\ due' \subseteq Bookings \X RoomIds
    BY <1>1, <1>2 DEF HousekeepingInv, HousekeepingTypeOK
  <2> QED BY <1>1, <2>1, <2>2, <2>3, <2>4 DEF HousekeepingInv, HousekeepingTypeOK
<1>7. \A a \in Bookings : booking'[a].status # "none" => booking'[a].room \in RoomIds
  BY <1>2, <1>3 DEF HousekeepingInv
<1>8. LeftIsDirty'
  <2>1. ASSUME NEW q \in unsaid' \ undone' PROVE room'[q].status = "DIRTY"
    <3>1. CASE q = r
      BY <1>5, <3>1
    <3>2. CASE q # r
      <4>1. q \in unsaid \ undone /\ q \in RoomIds
        BY <1>1, <2>1, <3>2 DEF HousekeepingInv, HousekeepingTypeOK
      <4> QED BY <1>4, <3>2, <4>1 DEF HousekeepingInv, DepartureIsSeen, LeftIsDirty
    <3> QED BY <3>1, <3>2
  <2> QED BY <2>1 DEF LeftIsDirty
<1>9. LeftIsListed'
  <2>1. ASSUME NEW q \in unsaid' \ missed'
        PROVE  (\E a \in Bookings : <<a, q>> \in due') \/ (\E t \in Tasks : Unfinished(t) /\ task[t].room = q)
    <3>1. CASE q = r
      BY <1>1, <3>1
    <3>2. CASE q # r
      <4>1. q \in unsaid \ missed
        BY <1>1, <2>1, <3>2
      <4> QED BY <1>1, <4>1 DEF HousekeepingInv, DepartureIsSeen, LeftIsListed
    <3> QED BY <3>1, <3>2
  <2>2. Tasks' = Tasks /\ \A t : Unfinished(t)' <=> Unfinished(t)
    BY <1>1 DEF Tasks, Rows, Unfinished
  <2> QED BY <1>1, <2>1, <2>2 DEF LeftIsListed
<1> QED BY <1>6, <1>7, <1>8, <1>9 DEF HousekeepingInv, DepartureIsSeen

\* A booking made, moved or put back; rooms and tasks do not feel it.
LEMMA BookingsKeep ==
  ASSUME HousekeepingInv, NEW b \in Bookings,
         PutBack(b) \/ ((\E r \in RoomIds : Book(b, r) \/ MoveBooking(b, r)) /\ UNCHANGED taskVars)
  PROVE  HousekeepingInv'
<1>1. UNCHANGED <<category, room, job, overlapped, task, due, left, unsaid, missed, undone>>
  BY DEF PutBack, Revive, Book, MoveBooking, taskVars
<1>2. PICK row \in [room : RoomIds, status : {"live"}] : booking' = [booking EXCEPT ![b] = row]
  <2>1. CASE PutBack(b)
    <3>1. booking' = [booking EXCEPT ![b].status = "live"] /\ booking[b].room \in RoomIds
      BY <2>1 DEF PutBack, Revive, HousekeepingInv
    <3>2. [booking[b] EXCEPT !.status = "live"] \in [room : RoomIds, status : {"live"}]
      BY <3>1 DEF HousekeepingInv, HousekeepingTypeOK
    <3> QED BY <3>1, <3>2
  <2>2. ASSUME NEW r \in RoomIds, Book(b, r) PROVE booking' = [booking EXCEPT ![b] = [room |-> r, status |-> "live"]]
    BY <2>2 DEF Book
  <2>3. ASSUME NEW r \in RoomIds, MoveBooking(b, r)
        PROVE  \E row \in [room : RoomIds, status : {"live"}] : booking' = [booking EXCEPT ![b] = row]
    <3>1. booking' = [booking EXCEPT ![b].room = r] /\ booking[b].status = "live"
      BY <2>3 DEF MoveBooking
    <3>2. [booking[b] EXCEPT !.room = r] \in [room : RoomIds, status : {"live"}]
      BY <3>1 DEF HousekeepingInv, HousekeepingTypeOK
    <3> QED BY <3>1, <3>2
  <2> QED BY <2>1, <2>2, <2>3
<1>3. booking'[b] = row /\ \A a \in Bookings \ {b} : booking'[a] = booking[a]
  BY <1>2 DEF HousekeepingInv, HousekeepingTypeOK
<1>4. HousekeepingTypeOK'
  BY <1>1, <1>2 DEF HousekeepingInv, HousekeepingTypeOK
<1>5. \A a \in Bookings : booking'[a].status # "none" => booking'[a].room \in RoomIds
  BY <1>3 DEF HousekeepingInv
<1>6. LeftIsDirty' /\ LeftIsListed'
  BY <1>1 DEF HousekeepingInv, DepartureIsSeen, LeftIsDirty, LeftIsListed, Tasks, Rows, Unfinished
<1> QED BY <1>4, <1>5, <1>6 DEF HousekeepingInv, DepartureIsSeen

\* Somebody says of a room what it is; what is done on the board is done for that room.
LEMMA WordKeeps ==
  ASSUME HousekeepingInv, NEW r \in RoomIds, NEW s \in StatusSet,
         room' = [room EXCEPT ![r].status = s], job' = Outdates, Spoken(r),
         UNCHANGED <<category, booking, overlapped, due, left>>,
         task' \in [TaskIds -> TaskRow \cup {NoRow}],
         \A t \in TaskIds : Unfinished(t) /\ task[t].room # r => task'[t] = task[t]
  PROVE  HousekeepingInv'
<1>1. /\ room'[r] = [room[r] EXCEPT !.status = s] /\ room[r] \in RoomRow
      /\ \A q \in RoomIds \ {r} : room'[q] = room[q]
  BY DEF HousekeepingInv, HousekeepingTypeOK
<1>2. room'[r] \in RoomRow
  BY <1>1 DEF RoomRow
<1>3. job' \in [Desks -> RoomForm \cup {NoRow}]
  BY OutdatedForms DEF HousekeepingInv, HousekeepingTypeOK
<1>4. unsaid' = unsaid \ {r} /\ missed' = missed \ {r} /\ undone' = undone \ {r} /\ unsaid \subseteq RoomIds
  BY DEF Spoken, HousekeepingInv, HousekeepingTypeOK
<1>5. HousekeepingTypeOK'
  BY <1>2, <1>3, <1>4 DEF HousekeepingInv, HousekeepingTypeOK
<1>6. LeftIsDirty'
  BY <1>1, <1>4 DEF HousekeepingInv, DepartureIsSeen, LeftIsDirty
<1>7. LeftIsListed'
  <2>1. unsaid' \ missed' \subseteq unsaid \ missed
    BY <1>4
  <2>2. ASSUME NEW t \in TaskIds, Unfinished(t), task[t].room \in unsaid'
        PROVE  Unfinished(t)' /\ task'[t].room = task[t].room
    <3>1. task'[t] = task[t]
      BY <1>4, <2>2
    <3> QED BY <2>2, <3>1 DEF Unfinished, Tasks, Rows, HousekeepingInv, HousekeepingTypeOK
  <2>3. DOMAIN task = TaskIds
    BY DEF HousekeepingInv, HousekeepingTypeOK
  <2> QED BY <2>1, <2>2, <2>3, ListKeeps DEF HousekeepingInv, DepartureIsSeen
<1>8. \A a \in Bookings : booking'[a].status # "none" => booking'[a].room \in RoomIds
  BY DEF HousekeepingInv
<1> QED BY <1>5, <1>6, <1>7, <1>8 DEF HousekeepingInv, DepartureIsSeen

LEMMA SayKeeps ==
  ASSUME HousekeepingInv, NEW r \in RoomIds, NEW s \in StatusSet, Say(r, s) PROVE HousekeepingInv'
<1>1. /\ room' = [room EXCEPT ![r].status = s] /\ job' = Outdates /\ Spoken(r)
      /\ UNCHANGED <<category, booking, overlapped, task, due, left>>
  BY DEF Say, SetStatus
<1>2. task' \in [TaskIds -> TaskRow \cup {NoRow}]
  BY <1>1 DEF HousekeepingInv, HousekeepingTypeOK
<1> QED BY <1>1, <1>2, WordKeeps

\* A task is begun: it stays open if it was.
LEMMA AssignKeeps ==
  ASSUME HousekeepingInv, NEW t \in TaskIds, AssignTask(t) PROVE HousekeepingInv'
<1> DEFINE s == IF task[t].status = "PENDING" THEN "IN_PROGRESS" ELSE task[t].status
<1>1. /\ task' = [task EXCEPT ![t].status = s]
      /\ UNCHANGED <<category, room, booking, job, overlapped, due, left, unsaid, missed, undone>>
  BY DEF AssignTask, premisesVars
<1>2. t \in Tasks /\ task \in [TaskIds -> TaskRow \cup {NoRow}] /\ task[t] \in TaskRow
  BY DEF AssignTask, HousekeepingInv, HousekeepingTypeOK, Tasks, Rows
<1>3. task'[t] = [task[t] EXCEPT !.status = s] /\ \A u \in TaskIds \ {t} : task'[u] = task[u]
  BY <1>1, <1>2
<1>4. /\ task'[t] \in TaskRow /\ task'[t].room = task[t].room /\ task'[t].kind = task[t].kind
      /\ task[t].status # "DONE" => task'[t].status # "DONE"
  <2>1. s \in {"PENDING", "IN_PROGRESS", "DONE"}
    BY <1>2 DEF TaskRow
  <2>2. task'[t] \in TaskRow /\ task'[t].room = task[t].room /\ task'[t].kind = task[t].kind /\ task'[t].status = s
    BY <1>2, <1>3, <2>1 DEF TaskRow
  <2> QED BY <2>2
<1>5. task' \in [TaskIds -> TaskRow \cup {NoRow}]
  BY <1>1, <1>2, <1>4
<1>6. ASSUME NEW u \in TaskIds, Unfinished(u) PROVE Unfinished(u)' /\ task'[u].room = task[u].room
  <2>1. CASE u = t
    BY <1>4, <1>5, <1>6, <2>1, HousekeepingAssumption DEF Unfinished, Tasks, Rows
  <2>2. CASE u # t
    <3>1. task'[u] = task[u] /\ u \in DOMAIN task'
      BY <1>3, <1>5, <1>6, <2>2
    <3> QED BY <1>6, <3>1 DEF Unfinished, Tasks, Rows
  <2> QED BY <2>1, <2>2
<1>7. LeftIsListed'
  <2>1. unsaid' \ missed' \subseteq unsaid \ missed /\ due' = due /\ DOMAIN task = TaskIds /\ LeftIsListed
    BY <1>1, <1>2 DEF HousekeepingInv, DepartureIsSeen
  <2> QED BY <1>6, <2>1, ListKeeps
<1>8. LeftIsDirty'
  BY <1>1 DEF HousekeepingInv, DepartureIsSeen, LeftIsDirty
<1> QED BY <1>1, <1>5, <1>7, <1>8 DEF HousekeepingInv, DepartureIsSeen, HousekeepingTypeOK

\* A task is done, and with it its room is said to be clean.
LEMMA CompleteKeeps ==
  ASSUME HousekeepingInv, NEW t \in TaskIds, CompleteTask(t) PROVE HousekeepingInv'
<1>1. /\ task' = [task EXCEPT ![t].status = "DONE"] /\ t \in Tasks
      /\ room' = [room EXCEPT ![task[t].room].status = "CLEAN"] /\ job' = Outdates
      /\ Spoken(task[t].room) /\ UNCHANGED <<category, booking, overlapped, due, left>>
  BY DEF CompleteTask
<1>2. task \in [TaskIds -> TaskRow \cup {NoRow}] /\ task[t] \in TaskRow
  BY <1>1 DEF HousekeepingInv, HousekeepingTypeOK, Tasks, Rows
<1>3. task[t].room \in RoomIds /\ "CLEAN" \in StatusSet
  BY <1>2, HousekeepingAssumption DEF TaskRow, StatusSet
<1>4. task'[t] = [task[t] EXCEPT !.status = "DONE"] /\ \A u \in TaskIds \ {t} : task'[u] = task[u]
  BY <1>1, <1>2
<1>5. task'[t] \in TaskRow
  BY <1>2, <1>4 DEF TaskRow
<1>6. task' \in [TaskIds -> TaskRow \cup {NoRow}]
  BY <1>1, <1>2, <1>5
<1>7. \A u \in TaskIds : Unfinished(u) /\ task[u].room # task[t].room => task'[u] = task[u]
  BY <1>4
<1> QED BY <1>1, <1>3, <1>6, <1>7, WordKeeps

LEMMA NewTaskIsTask ==
  ASSUME HousekeepingInv, NEW r \in RoomIds, NEW kind \in Kinds \cup {"CLEANING"},
         NEW b \in Bookings \cup {NoRow}, AddTask(NewTask(r, kind, b))
  PROVE  \E t \in TaskIds \ Tasks :
           /\ task' \in [TaskIds -> TaskRow \cup {NoRow}] /\ Tasks' = Tasks \cup {t}
           /\ task'[t] = NewTask(r, kind, b) /\ \A u \in Tasks : task'[u] = task[u]
<1>1. PICK t \in TaskIds \ Tasks : task' = [task EXCEPT ![t] = NewTask(r, kind, b)]
  BY DEF AddTask
<1>2. task \in [TaskIds -> TaskRow \cup {NoRow}]
  BY DEF HousekeepingInv, HousekeepingTypeOK
<1>3. NewTask(r, kind, b) \in TaskRow
  BY DEF NewTask, TaskRow
<1>4. task' \in [TaskIds -> TaskRow \cup {NoRow}]
  BY <1>1, <1>2, <1>3
<1>5. task'[t] = NewTask(r, kind, b) /\ task'[t] # NoRow /\ \A u \in TaskIds \ {t} : task'[u] = task[u]
  BY <1>1, <1>2, <1>3, HousekeepingAssumption
<1>6. Tasks' = Tasks \cup {t}
  BY <1>2, <1>4, <1>5 DEF Tasks, Rows
<1> QED BY <1>1, <1>2, <1>4, <1>5, <1>6 DEF Tasks, Rows

\* A task made by hand takes nothing off the board.
LEMMA CreateTaskKeeps ==
  ASSUME HousekeepingInv, NEW r \in RoomIds, NEW kind \in Kinds \cup {"CLEANING"}, NEW b \in Bookings \cup {NoRow},
         CreateTask(r, kind, b)
  PROVE  HousekeepingInv'
<1>1. UNCHANGED <<category, room, booking, job, overlapped, due, left, unsaid, missed, undone>>
  BY DEF CreateTask, premisesVars
<1>2. PICK t \in TaskIds \ Tasks :
        /\ task' \in [TaskIds -> TaskRow \cup {NoRow}] /\ Tasks' = Tasks \cup {t}
        /\ task'[t] = NewTask(r, kind, b) /\ \A u \in Tasks : task'[u] = task[u]
  BY NewTaskIsTask DEF CreateTask
<1>3. \A u \in TaskIds : Unfinished(u) => Unfinished(u)' /\ task'[u].room = task[u].room
  BY <1>2 DEF Unfinished
<1>4. LeftIsListed'
  <2>1. unsaid' \ missed' \subseteq unsaid \ missed /\ due' = due /\ DOMAIN task = TaskIds /\ LeftIsListed
    BY <1>1 DEF HousekeepingInv, DepartureIsSeen, HousekeepingTypeOK
  <2> QED BY <1>3, <2>1, ListKeeps
<1>5. LeftIsDirty'
  BY <1>1 DEF HousekeepingInv, DepartureIsSeen, LeftIsDirty
<1> QED BY <1>1, <1>2, <1>4, <1>5 DEF HousekeepingInv, DepartureIsSeen, HousekeepingTypeOK

\* The announcement of a departure is answered: with a new task in the room left, or
\* with an open one of the booking, which stands there or is the reason for a miss.
LEMMA AnswerKeeps ==
  ASSUME HousekeepingInv, NEW b \in Bookings, NEW r \in RoomIds, AutoCreateOnCheckout(b, r)
  PROVE  HousekeepingInv'
<1>1. /\ <<b, r>> \in due /\ due' = due \ {<<b, r>>}
      /\ UNCHANGED <<category, room, booking, job, overlapped, left, unsaid, undone>>
  BY DEF AutoCreateOnCheckout, premisesVars
<1>2. LeftIsDirty'
  BY <1>1 DEF HousekeepingInv, DepartureIsSeen, LeftIsDirty
<1>3. missed' = missed \/ missed' = missed \cup (unsaid \cap {r})
  BY DEF AutoCreateOnCheckout, Misses
<1>4. CASE OpenCleaning(b) # {}
  <2>1. task' = task /\ Tasks' = Tasks /\ \A t : Unfinished(t)' <=> Unfinished(t)
    BY <1>4 DEF AutoCreateOnCheckout, Tasks, Rows, Unfinished
  <2>2. PICK t \in Tasks : task[t].of = b /\ Unfinished(t)
    BY <1>4 DEF OpenCleaning
  <2>3. r \in unsaid' \ missed' => task[t].room = r
    <3>1. CASE Elsewhere(b, r)
      <4>1. missed' = missed \cup (unsaid \cap {r})
        BY <3>1 DEF AutoCreateOnCheckout, Misses
      <4> QED BY <1>1, <4>1
    <3>2. CASE ~Elsewhere(b, r)
      BY <2>2, <3>2 DEF Elsewhere
    <3> QED BY <3>1, <3>2
  <2>4. ASSUME NEW q \in unsaid' \ missed'
        PROVE  (\E a \in Bookings : <<a, q>> \in due') \/ (\E u \in Tasks : Unfinished(u) /\ task[u].room = q)
    <3>1. CASE q = r
      BY <2>2, <2>3, <2>4, <3>1
    <3>2. CASE q # r
      <4>1. q \in unsaid \ missed
        BY <1>1, <1>3, <2>4
      <4>2. \A a \in Bookings : <<a, q>> \in due => <<a, q>> \in due'
        BY <1>1, <3>2
      <4> QED BY <4>1, <4>2 DEF HousekeepingInv, DepartureIsSeen, LeftIsListed
    <3> QED BY <3>1, <3>2
  <2>5. LeftIsListed'
    BY <2>1, <2>4 DEF LeftIsListed
  <2> QED BY <1>1, <1>2, <2>1, <2>5 DEF HousekeepingInv, HousekeepingTypeOK, DepartureIsSeen
<1>5. CASE OpenCleaning(b) = {}
  <2>1. PICK t \in TaskIds \ Tasks :
          /\ task' \in [TaskIds -> TaskRow \cup {NoRow}] /\ Tasks' = Tasks \cup {t}
          /\ task'[t] = NewTask(r, "CLEANING", b) /\ \A u \in Tasks : task'[u] = task[u]
    BY <1>5, NewTaskIsTask DEF AutoCreateOnCheckout
  <2>2. Unfinished(t)' /\ task'[t].room = r
    BY <2>1 DEF NewTask, Unfinished
  <2>3. \A u \in Tasks : Unfinished(u) => Unfinished(u)' /\ task'[u].room = task[u].room
    BY <2>1 DEF Unfinished
  <2>4. ASSUME NEW q \in unsaid' \ missed'
        PROVE  (\E a \in Bookings : <<a, q>> \in due') \/ (\E u \in Tasks' : Unfinished(u)' /\ task'[u].room = q)
    <3>1. CASE q = r
      BY <2>1, <2>2, <3>1
    <3>2. CASE q # r
      <4>1. q \in unsaid \ missed
        BY <1>1, <1>3, <2>4
      <4>2. \A a \in Bookings : <<a, q>> \in due => <<a, q>> \in due'
        BY <1>1, <3>2
      <4>3. CASE \E a \in Bookings : <<a, q>> \in due
        BY <4>2, <4>3
      <4>4. CASE \E u \in Tasks : Unfinished(u) /\ task[u].room = q
        BY <2>1, <2>3, <4>4
      <4> QED BY <4>1, <4>3, <4>4 DEF HousekeepingInv, DepartureIsSeen, LeftIsListed
    <3> QED BY <3>1, <3>2
  <2>5. LeftIsListed'
    BY <2>4 DEF LeftIsListed
  <2> QED BY <1>1, <1>2, <2>1, <2>5 DEF HousekeepingInv, HousekeepingTypeOK, DepartureIsSeen
<1> QED BY <1>4, <1>5

LEMMA LossKeeps ==
  ASSUME HousekeepingInv, NEW b \in Bookings, NEW r \in RoomIds, AnnouncementLost(b, r)
  PROVE  HousekeepingInv'
<1>1. /\ due' = due \ {<<b, r>>} /\ missed' = missed \cup (unsaid \cap {r})
      /\ UNCHANGED <<category, room, booking, job, overlapped, task, left, unsaid, undone>>
  BY DEF AnnouncementLost, premisesVars, Misses
<1>2. LeftIsListed'
  <2>1. \A q \in unsaid' \ missed', a \in Bookings : <<a, q>> \in due => <<a, q>> \in due'
    BY <1>1
  <2>2. \A t \in TaskIds : Unfinished(t) => Unfinished(t)' /\ task'[t].room = task[t].room
    BY <1>1 DEF Unfinished, Tasks, Rows
  <2>3. unsaid' \ missed' \subseteq unsaid \ missed /\ DOMAIN task = TaskIds /\ LeftIsListed
    BY <1>1 DEF HousekeepingInv, DepartureIsSeen, HousekeepingTypeOK
  <2> QED BY <2>1, <2>2, <2>3, ListKeeps
<1> QED BY <1>1, <1>2 DEF HousekeepingInv, HousekeepingTypeOK, DepartureIsSeen, LeftIsDirty

\* A form is opened, checked or given up.
LEMMA FormsKeep ==
  ASSUME HousekeepingInv, NEW d \in Desks, OpenRoomForm(d) \/ CheckRoom(d) \/ Cancel(d), UNCHANGED taskVars
  PROVE  HousekeepingInv'
<1>1. UNCHANGED <<category, room, booking, overlapped, task, due, left, unsaid, missed, undone>>
  BY DEF OpenRoomForm, CheckRoom, Cancel, Quits, taskVars
<1>2. /\ room \in [RoomIds -> RoomRow] /\ DOMAIN category = TypeIds
      /\ job \in [Desks -> RoomForm \cup {NoRow}]
  BY DEF HousekeepingInv, HousekeepingTypeOK
<1>3. job' \in [Desks -> RoomForm \cup {NoRow}]
  <2>1. CASE OpenRoomForm(d)
    <3>1. PICK r \in LiveRooms : \E x \in Edits(room[r]) : job' = [job EXCEPT ![d] = Job("editRoom", "form", r, x)]
      BY <2>1 DEF OpenRoomForm, Goes
    <3>2. PICK x \in Edits(room[r]) : job' = [job EXCEPT ![d] = Job("editRoom", "form", r, x)]
      BY <3>1
    <3>3. r \in RoomIds /\ room[r] \in RoomRow /\ LiveTypes \subseteq TypeIds
      BY <1>2 DEF LiveRooms, LiveTypes, Rows
    <3>4. x \in RoomRow
      BY <3>2, <3>3 DEF Edits, RoomRow
    <3>5. Job("editRoom", "form", r, x) \in RoomForm
      BY <3>3, <3>4 DEF Job, RoomForm
    <3> QED BY <1>2, <3>2, <3>5
  <2>2. CASE CheckRoom(d)
    <3>1. job[d] \in RoomForm
      BY <1>2, <2>2 DEF CheckRoom, At
    <3>2. [job[d] EXCEPT !.step = "write"] \in RoomForm
      BY <3>1 DEF RoomForm
    <3> QED BY <1>2, <2>2, <3>2 DEF CheckRoom, Quits, Goes
  <2>3. CASE Cancel(d)
    BY <1>2, <2>3 DEF Cancel, Quits, Goes
  <2> QED BY <2>1, <2>2, <2>3
<1>4. LeftIsDirty' /\ LeftIsListed'
  BY <1>1 DEF HousekeepingInv, DepartureIsSeen, LeftIsDirty, LeftIsListed, Tasks, Rows, Unfinished
<1> QED BY <1>1, <1>3, <1>4 DEF HousekeepingInv, HousekeepingTypeOK, DepartureIsSeen

\* The form of a room is saved: it says something of a room only if it has seen the
\* room as it is; otherwise it may undo what it has not seen.
LEMMA SaveRoomKeeps == ASSUME HousekeepingInv, NEW d \in Desks, SaveRoom(d) PROVE HousekeepingInv'
<1> DEFINE r == job[d].of
           draft == job[d].draft
<1>1. /\ room \in [RoomIds -> RoomRow] /\ job \in [Desks -> RoomForm \cup {NoRow}] /\ overlapped \in BOOLEAN
      /\ unsaid \subseteq RoomIds
  BY DEF HousekeepingInv, HousekeepingTypeOK
<1>2. job[d] \in RoomForm /\ r \in RoomIds /\ draft \in RoomRow /\ job[d].fresh \in BOOLEAN
  BY <1>1 DEF SaveRoom, Update, At, RoomForm
<1>3. UNCHANGED <<category, booking, task, due, left>>
  BY DEF SaveRoom, Update, Quits
<1>4. /\ room'[r].status = room[r].status => UNCHANGED <<unsaid, missed, undone>>
      /\ room'[r].status # room[r].status /\ job[d].fresh => Spoken(r)
      /\ room'[r].status # room[r].status /\ ~job[d].fresh =>
           undone' = undone \cup (unsaid \cap {r}) /\ UNCHANGED <<unsaid, missed>>
  BY <1>2 DEF SaveRoom
<1>5. /\ unsaid' \ missed' \subseteq unsaid \ missed
      /\ unsaid' \ undone' \subseteq unsaid \ undone
      /\ unsaid' \subseteq RoomIds
      /\ room'[r].status # room[r].status => r \notin unsaid' \ undone'
  <2>1. CASE room'[r].status = room[r].status
    BY <1>1, <1>4, <2>1
  <2>2. CASE room'[r].status # room[r].status /\ job[d].fresh
    BY <1>1, <1>4, <2>2 DEF Spoken
  <2>3. CASE room'[r].status # room[r].status /\ ~job[d].fresh
    BY <1>1, <1>4, <2>3
  <2> QED BY <1>2, <2>1, <2>2, <2>3
<1>6. LeftIsListed'
  <2>1. \A t \in TaskIds : Unfinished(t) => Unfinished(t)' /\ task'[t].room = task[t].room
    BY <1>3 DEF Unfinished, Tasks, Rows
  <2>2. due' = due /\ DOMAIN task = TaskIds /\ LeftIsListed
    BY <1>3 DEF HousekeepingInv, DepartureIsSeen, HousekeepingTypeOK
  <2> QED BY <1>5, <2>1, <2>2, ListKeeps
<1>7. /\ room' \in [RoomIds -> RoomRow] /\ \A q \in RoomIds \ {r} : room'[q] = room[q]
      /\ job' \in [Desks -> RoomForm \cup {NoRow}] /\ overlapped' \in BOOLEAN
  <2>1. CASE Quits(d)
    <3>1. job' = [job EXCEPT ![d] = NoRow] /\ UNCHANGED <<room, overlapped>>
      BY <2>1 DEF Quits, Goes
    <3> QED BY <1>1, <3>1
  <2>2. CASE room' = [room EXCEPT ![r] = Edited(@, draft)] /\ Wrote(d)
    <3>1. Edited(room[r], draft) \in RoomRow
      BY <1>1, <1>2 DEF Edited, RoomRow
    <3>2. room' \in [RoomIds -> RoomRow] /\ \A q \in RoomIds \ {r} : room'[q] = room[q]
      BY <1>1, <1>2, <2>2, <3>1
    <3>3. job' \in [Desks -> RoomForm \cup {NoRow}] /\ overlapped' \in BOOLEAN
      BY <1>1, <1>2, <2>2, OutdatedForms DEF Wrote
    <3> QED BY <3>2, <3>3
  <2> QED BY <2>1, <2>2 DEF SaveRoom, Update
<1>8. ASSUME NEW q \in unsaid' \ undone' PROVE room'[q].status = "DIRTY"
  <2>1. q \in unsaid \ undone /\ q \in RoomIds
    BY <1>1, <1>5, <1>8
  <2>2. room[q].status = "DIRTY"
    BY <2>1 DEF HousekeepingInv, DepartureIsSeen, LeftIsDirty
  <2> QED BY <1>5, <1>7, <1>8, <2>1, <2>2
<1>9. LeftIsDirty'
  BY <1>8 DEF LeftIsDirty
<1>10. HousekeepingTypeOK' /\ \A b \in Bookings : booking'[b].status # "none" => booking'[b].room \in RoomIds
  BY <1>3, <1>5, <1>7 DEF HousekeepingInv, HousekeepingTypeOK
<1> QED BY <1>6, <1>9, <1>10 DEF HousekeepingInv, DepartureIsSeen

LEMMA CleaningStep == HousekeepingInv /\ [HousekeepingStep]_<<premisesVars, taskVars>> => HousekeepingInv'
<1> SUFFICES ASSUME HousekeepingInv, [HousekeepingStep]_<<premisesVars, taskVars>> PROVE HousekeepingInv'
  OBVIOUS
<1>1. CASE UNCHANGED <<premisesVars, taskVars>>
  <2>1. UNCHANGED <<category, room, booking, job, overlapped, task, due, left, unsaid, missed, undone>>
    BY <1>1 DEF premisesVars, taskVars
  <2>2. LeftIsDirty' /\ LeftIsListed'
    BY <2>1 DEF HousekeepingInv, DepartureIsSeen, LeftIsDirty, LeftIsListed, Tasks, Rows, Unfinished
  <2> QED BY <2>1, <2>2 DEF HousekeepingInv, HousekeepingTypeOK, DepartureIsSeen
<1>2. CASE Others
  BY <1>2, FormsKeep, BookingsKeep DEF Others
<1>3. CASE HousekeepingStep
  BY <1>2, <1>3, LeaveKeeps, BookingsKeep, AnswerKeeps, LossKeeps, CreateTaskKeeps, SayKeeps, AssignKeeps,
     CompleteKeeps, SaveRoomKeeps DEF HousekeepingStep
<1> QED BY <1>1, <1>3

\* Whatever stands on the board, by hand or not, and whoever edits the rooms: a room that
\* was left is dirty and has its departure announced or an open task, until somebody says
\* what it is - or a form opened before wrote over the dirt, the announcement was lost,
\* or it was answered with an open task of the booking in another room
\* (autoCreateOnCheckout asks for the booking's tasks, not the room's).
THEOREM DeparturesAreSeen == HousekeepingSpec => []DepartureIsSeen
<1>1. HousekeepingSpec => []HousekeepingInv
  BY CleaningStart, CleaningStep, PTL DEF HousekeepingSpec
<1>2. HousekeepingInv => DepartureIsSeen
  BY DEF HousekeepingInv
<1> QED BY <1>1, <1>2, PTL

-----------------------------------------------------------------------------
(* Leaving *)

LEMMA HotelStarts == ASSUME TenantsAssumption PROVE TenantsInit => TenantsInv
<1> SUFFICES ASSUME TenantsInit PROVE TenantsInv
  OBVIOUS
<1>1. hotel \in HotelRow /\ ~hotel.archived /\ There
  BY DEF TenantsInit, HotelRow, There, TenantsAssumption
<1>2. TenantsTypeOK
  BY <1>1 DEF TenantsInit, TenantsTypeOK
<1>3. ReadHolds /\ HotelLeavesInOrder
  BY <1>1 DEF TenantsInit, ReadHolds, HotelLeavesInOrder
<1> QED BY <1>2, <1>3 DEF TenantsInv

\* What the rest of the invariant looks at is left alone.
LEMMA HotelStays ==
  ASSUME TenantsInv, UNCHANGED <<hotel, stay, order, late, crossed, wiped>>
  PROVE  TenantsInv'
BY DEF TenantsInv, TenantsTypeOK, ReadHolds, StillSo, HotelLeavesInOrder, There, Live

\* A request goes on without writing into the hotel.
LEMMA RequestMoves ==
  ASSUME TenantsInv, NEW a \in Admins, NEW row \in OrderRow \cup {Absent},
         order' = [order EXCEPT ![a] = row], UNCHANGED <<hotel, stay, late, crossed, wiped>>,
         row # Absent /\ row.step = "write" /\ row.fresh => StillSo(row)
  PROVE  TenantsInv'
<1>1. order'[a] = row /\ \A b \in Admins \ {a} : order'[b] = order[b]
  BY DEF TenantsInv, TenantsTypeOK
<1>2. TenantsTypeOK'
  BY DEF TenantsInv, TenantsTypeOK
<1>3. \A r : StillSo(r)' <=> StillSo(r)
  BY DEF StillSo, There, Live
<1>4. ReadHolds'
  <2> SUFFICES ASSUME NEW b \in Admins, order'[b] # Absent, order'[b].step = "write", order'[b].fresh
               PROVE  StillSo(order'[b])
    BY <1>3 DEF ReadHolds
  <2> QED BY <1>1 DEF TenantsInv, ReadHolds
<1>5. HotelLeavesInOrder'
  BY DEF TenantsInv, HotelLeavesInOrder, There, Live
<1> QED BY <1>2, <1>4, <1>5 DEF TenantsInv

\* Somebody wrote: no request is fresh any more.
LEMMA NobodyIsFresh ==
  ASSUME TenantsAssumption, TenantsInv
  PROVE  /\ Outdated \in [Admins -> OrderRow \cup {Absent}]
         /\ \A a \in Admins : Outdated[a] # Absent => ~Outdated[a].fresh
<1> SUFFICES ASSUME NEW a \in Admins
             PROVE  /\ Outdated[a] \in OrderRow \cup {Absent}
                    /\ Outdated[a] # Absent => ~Outdated[a].fresh
  BY DEF Outdated
<1>1. CASE order[a] = Absent
  BY <1>1 DEF Outdated
<1>2. CASE order[a] # Absent
  <2> DEFINE row == [order[a] EXCEPT !.fresh = FALSE]
  <2>1. order[a] \in OrderRow
    BY <1>2 DEF TenantsInv, TenantsTypeOK
  <2>2. row \in OrderRow /\ ~row.fresh
    BY <2>1 DEF OrderRow
  <2>3. Outdated[a] = row
    BY <1>2 DEF Outdated
  <2> QED BY <2>2, <2>3
<1> QED BY <1>1, <1>2

LEMMA WriteKeeps ==
  ASSUME TenantsAssumption, TenantsInv,
         order' = Outdated \/ \E a \in Admins : order' = [Outdated EXCEPT ![a] = Absent],
         hotel' \in HotelRow \cup {Gone}, stay' \in [Stays -> {"none", "live", "past"}],
         HotelLeavesInOrder'
  PROVE  TenantsInv'
<1>1. /\ order' \in [Admins -> OrderRow \cup {Absent}]
      /\ \A a \in Admins : order'[a] # Absent => ~order'[a].fresh
  BY NobodyIsFresh
<1> QED BY <1>1 DEF TenantsInv, TenantsTypeOK, ReadHolds

\* The card of a hotel is no matter of its leaving.
LEMMA CardKeeps ==
  ASSUME TenantsInv, There, hotel' \in HotelRow \cup {Gone}, There', hotel'.active = hotel.active,
         hotel'.archived = hotel.archived,
         order' = order \/ \E a \in Admins : order' = [order EXCEPT ![a] = Absent],
         UNCHANGED <<stay, late, wiped>>, ~crossed' => ~crossed
  PROVE  TenantsInv'
<1>1. order' \in [Admins -> OrderRow \cup {Absent}] /\ \A a \in Admins : order'[a] = order[a] \/ order'[a] = Absent
  BY DEF TenantsInv, TenantsTypeOK
<1>2. \A r : StillSo(r) => StillSo(r)'
  BY DEF StillSo, Live
<1>3. TenantsTypeOK'
  BY <1>1 DEF TenantsInv, TenantsTypeOK
<1>4. ReadHolds'
  <2> SUFFICES ASSUME NEW a \in Admins, order'[a] # Absent, order'[a].step = "write", order'[a].fresh
               PROVE  StillSo(order[a])'
    BY DEF ReadHolds
  <2>1. order'[a] = order[a] /\ StillSo(order[a])
    BY <1>1 DEF TenantsInv, ReadHolds
  <2> QED BY <2>1 DEF StillSo, Live
<1>5. HotelLeavesInOrder'
  BY DEF TenantsInv, HotelLeavesInOrder, Live
<1> QED BY <1>3, <1>4, <1>5 DEF TenantsInv

-----------------------------------------------------------------------------
LEMMA PanelKeeps ==
  ASSUME TenantsInv, NEW a \in Admins,
         Refresh(a) \/ LoadSummary(a) \/ CloseDialog(a) \/ \E kind \in {"switch", "archive", "destroy", "edit"} : OpenDialog(a, kind)
  PROVE  TenantsInv'
BY HotelStays DEF Refresh, LoadSummary, CloseDialog, OpenDialog, OnlyScreen

LEMMA PressKeeps ==
  ASSUME TenantsInv, NEW a \in Admins,
         \/ PressToggle(a) \/ PressArchive(a) \/ PressRestore(a) \/ PressExport(a) \/ PressDestroy(a)
         \/ \E c \in Currencies : SaveCard(a, c)
         \/ \E on \in BOOLEAN : ApplyFeature(a, on)
  PROVE  TenantsInv'
<1>1. ASSUME NEW row \in OrderRow, row.step = "read", order' = [order EXCEPT ![a] = row], OnlyRequest PROVE TenantsInv'
  <2>1. UNCHANGED <<hotel, stay, late, crossed, wiped>>
    BY <1>1 DEF OnlyRequest
  <2> QED BY <1>1, <2>1, RequestMoves
<1>2. ASSUME NEW op, NEW want, Request(op, want) \in OrderRow, Sent(a, op, want), OnlyRequest PROVE TenantsInv'
  <2>1. Request(op, want).step = "read"
    BY DEF Request
  <2> QED BY <1>1, <1>2, <2>1 DEF Sent
<1>3. /\ \A op \in {"toggleActive", "archiveTenant", "restoreTenant", "export", "destroy"} : Request(op, Absent) \in OrderRow
      /\ \A c \in Currencies : Request("updateTenant", c) \in OrderRow
      /\ \A on \in BOOLEAN : Request("applyFeature", on) \in OrderRow
  BY DEF Request, OrderRow
<1> QED BY <1>2, <1>3 DEF PressToggle, PressArchive, PressRestore, PressExport, PressDestroy, SaveCard, ApplyFeature

LEMMA QuitKeeps == ASSUME TenantsInv, NEW a \in Admins, Stops(a) PROVE TenantsInv'
BY RequestMoves DEF Stops

LEMMA ReadKeeps == ASSUME TenantsAssumption, TenantsInv, NEW a \in Admins, Read(a) PROVE TenantsInv'
<1> DEFINE r == order[a]
           row == [r EXCEPT !.step = IF r.op \in {"archiveTenant", "updateTenant"} THEN "count" ELSE "write",
                            !.seen = IF r.op = "toggleActive" THEN hotel.active
                                     ELSE IF r.op = "export" THEN Booked ELSE Absent,
                            !.fresh = TRUE]
<1>1. r \in OrderRow
  BY DEF Read, TenantsInv, TenantsTypeOK
<1>2. CASE RefusedAtOnce(r)
  BY <1>2, QuitKeeps DEF Read
<1>3. CASE ~RefusedAtOnce(r)
  <2>1. order' = [order EXCEPT ![a] = row] /\ UNCHANGED <<hotel, stay, late, crossed, wiped>>
    BY <1>3 DEF Read, Proceeds
  <2>2. There /\ hotel \in HotelRow /\ hotel.active \in BOOLEAN /\ Booked \in SUBSET Stays
    BY <1>3 DEF RefusedAtOnce, There, TenantsInv, TenantsTypeOK, HotelRow, Booked
  <2>3. row \in OrderRow
    BY <1>1, <2>2 DEF OrderRow
  <2>4. row.op = r.op /\ row.seen = IF r.op = "toggleActive" THEN hotel.active ELSE IF r.op = "export" THEN Booked ELSE Absent
    BY <1>1 DEF OrderRow
  <2>5. row.step = "write" => r.op # "archiveTenant"
    BY <1>1 DEF OrderRow
  <2>6. row.step = "write" => StillSo(row)
    BY <1>3, <2>2, <2>4, <2>5 DEF StillSo, RefusedAtOnce
  <2> HIDE DEF row
  <2> QED BY <2>1, <2>3, <2>6, RequestMoves
<1> QED BY <1>2, <1>3

LEMMA CountKeeps == ASSUME TenantsAssumption, TenantsInv, NEW a \in Admins, Count(a) PROVE TenantsInv'
<1> DEFINE r == order[a]
           row == [r EXCEPT !.step = "write"]
<1>1. r \in OrderRow /\ r.op \in {"archiveTenant", "updateTenant"}
  BY DEF Count, Reached, TenantsInv, TenantsTypeOK
<1>2. CASE (IF r.op = "archiveTenant" THEN Live ELSE Booked) # {}
  BY <1>2, QuitKeeps DEF Count
<1>3. CASE (IF r.op = "archiveTenant" THEN Live ELSE Booked) = {}
  <2>1. order' = [order EXCEPT ![a] = row] /\ UNCHANGED <<hotel, stay, late, crossed, wiped>>
    BY <1>3 DEF Count, Proceeds
  <2>2. row \in OrderRow /\ row.op = r.op
    BY <1>1 DEF OrderRow
  <2>3. StillSo(row)
    BY <1>1, <1>3, <2>2 DEF StillSo
  <2> HIDE DEF row
  <2> QED BY <2>1, <2>2, <2>3, RequestMoves
<1> QED BY <1>2, <1>3

LEMMA WritesKeep ==
  ASSUME TenantsAssumption, TenantsInv, NEW a \in Admins,
         WriteActive(a) \/ WriteArchive(a) \/ WriteRestore(a) \/ Wipe(a)
  PROVE  TenantsInv'
<1>1. There /\ hotel \in HotelRow /\ order[a] # Absent /\ order[a].step = "write"
  BY DEF WriteActive, WriteArchive, WriteRestore, Wipe, Reached, TenantsInv, TenantsTypeOK, There
<1>2. ~crossed' => ~crossed /\ order[a].fresh /\ StillSo(order[a])
  BY <1>1 DEF WriteActive, WriteArchive, WriteRestore, Wipe, Stored, TenantsInv, ReadHolds
<1>3. order' = [Outdated EXCEPT ![a] = Absent]
  BY DEF WriteActive, WriteArchive, WriteRestore, Wipe, Ended
<1>4. CASE WriteActive(a)
  <2>1. hotel' = [hotel EXCEPT !.active = ~order[a].seen] /\ UNCHANGED <<stay, late, wiped>> /\ order[a].op = "toggleActive"
    BY <1>4 DEF WriteActive, Reached
  <2>2. hotel' \in HotelRow /\ hotel'.archived = hotel.archived
    BY <1>1, <2>1 DEF HotelRow
  <2>3. HotelLeavesInOrder'
    BY <1>2, <2>1, <2>2 DEF HotelLeavesInOrder, StillSo, TenantsInv
  <2> QED BY <1>3, <2>1, <2>2, <2>3, WriteKeeps DEF TenantsInv, TenantsTypeOK
<1>5. CASE WriteArchive(a)
  <2>1. /\ hotel' = [hotel EXCEPT !.active = FALSE, !.archived = TRUE] /\ UNCHANGED <<stay, late, wiped>>
        /\ order[a].op = "archiveTenant"
    BY <1>5 DEF WriteArchive, Reached
  <2>2. hotel' \in HotelRow /\ ~hotel'.active
    BY <1>1, <2>1 DEF HotelRow
  <2>3. HotelLeavesInOrder'
    BY <1>2, <2>1, <2>2 DEF HotelLeavesInOrder, StillSo, TenantsInv, Live
  <2> QED BY <1>3, <2>1, <2>2, <2>3, WriteKeeps DEF TenantsInv, TenantsTypeOK
<1>6. CASE WriteRestore(a)
  <2>1. hotel' = [hotel EXCEPT !.active = TRUE, !.archived = FALSE] /\ UNCHANGED <<stay, wiped>>
    BY <1>6 DEF WriteRestore
  <2>2. hotel' \in HotelRow /\ ~hotel'.archived
    BY <1>1, <2>1 DEF HotelRow
  <2>3. HotelLeavesInOrder'
    BY <1>2, <2>1, <2>2 DEF HotelLeavesInOrder, TenantsInv
  <2> QED BY <1>3, <2>1, <2>2, <2>3, WriteKeeps DEF TenantsInv, TenantsTypeOK
<1>7. CASE Wipe(a)
  <2>1. /\ hotel' = Gone /\ stay' = [b \in Stays |-> "none"] /\ wiped' = (IF hotel.active THEN "on" ELSE "off")
        /\ order[a].op = "destroy"
    BY <1>7 DEF Wipe, Reached
  <2>2. HotelLeavesInOrder'
    BY <1>2, <2>1 DEF HotelLeavesInOrder, StillSo, There
  <2> QED BY <1>3, <2>1, <2>2, WriteKeeps
<1> QED BY <1>4, <1>5, <1>6, <1>7

LEMMA CardsKeep ==
  ASSUME TenantsAssumption, TenantsInv,
         \/ \E a \in Admins : WriteCard(a) \/ WriteFeature(a)
         \/ \E c \in Currencies, f \in BOOLEAN : SaveSettings(c, f)
  PROVE  TenantsInv'
<1>1. There /\ hotel \in HotelRow
  BY DEF WriteCard, WriteFeature, SaveSettings, There, TenantsInv, TenantsTypeOK
<1>2. PICK c \in Currencies, f \in BOOLEAN : hotel' = [hotel EXCEPT !.currency = c, !.feature = f]
  <2>1. ASSUME NEW a \in Admins, WriteCard(a)
        PROVE  order[a].want \in Currencies /\ hotel' = [hotel EXCEPT !.currency = order[a].want, !.feature = hotel.feature]
    <3>1. order[a].want \in Currencies
      BY <2>1 DEF WriteCard, Reached, TenantsInv, TenantsTypeOK, OrderRow
    <3> QED BY <1>1, <2>1, <3>1 DEF WriteCard, HotelRow
  <2>2. ASSUME NEW a \in Admins, WriteFeature(a)
        PROVE  order[a].want \in BOOLEAN /\ hotel' = [hotel EXCEPT !.currency = hotel.currency, !.feature = order[a].want]
    <3>1. order[a].want \in BOOLEAN
      BY <2>2 DEF WriteFeature, Reached, TenantsInv, TenantsTypeOK, OrderRow
    <3> QED BY <1>1, <2>2, <3>1 DEF WriteFeature, HotelRow
  <2>3. hotel.currency \in Currencies /\ hotel.feature \in BOOLEAN
    BY <1>1 DEF HotelRow
  <2> QED BY <2>1, <2>2, <2>3 DEF SaveSettings
<1>3. hotel' \in HotelRow /\ hotel'.active = hotel.active /\ hotel'.archived = hotel.archived
  BY <1>1, <1>2 DEF HotelRow
<1>4. There'
  BY <1>3 DEF There, TenantsAssumption
<1>5. /\ order' = order \/ \E a \in Admins : order' = [order EXCEPT ![a] = Absent]
      /\ UNCHANGED <<stay, late, wiped>>
      /\ ~crossed' => ~crossed
  <2>1. ASSUME NEW a \in Admins, WriteCard(a) \/ WriteFeature(a)
        PROVE  /\ order' = [order EXCEPT ![a] = Absent] /\ UNCHANGED <<stay, late, wiped>>
               /\ ~crossed' => ~crossed
    BY <2>1 DEF WriteCard, WriteFeature, Stored
  <2>2. ASSUME NEW chosen \in Currencies, NEW on \in BOOLEAN, SaveSettings(chosen, on)
        PROVE  UNCHANGED <<order, stay, late, wiped, crossed>>
    BY <2>2 DEF SaveSettings
  <2> QED BY <2>1, <2>2
<1> QED BY <1>1, <1>3, <1>4, <1>5, CardKeeps

LEMMA StaffKeeps ==
  ASSUME TenantsAssumption, TenantsInv, StaffStep
  PROVE  TenantsInv'
<1>1. CASE SignIn \/ TokenExpires
  BY <1>1, HotelStays DEF SignIn, TokenExpires
<1>2. ASSUME NEW b \in Stays, Revives(b) PROVE TenantsInv'
  <2>1. /\ stay' = [stay EXCEPT ![b] = "live"] /\ late' = (IF hotel.archived THEN late \cup {b} ELSE late)
        /\ order' = Outdated /\ UNCHANGED <<hotel, crossed, wiped>>
    BY <1>2 DEF Revives
  <2>2. stay' \in [Stays -> {"none", "live", "past"}] /\ Live' \subseteq Live \cup {b}
    BY <2>1 DEF TenantsInv, TenantsTypeOK, Live
  <2>3. HotelLeavesInOrder'
    BY <2>1, <2>2 DEF TenantsInv, HotelLeavesInOrder, There
  <2> QED BY <2>1, <2>2, <2>3, WriteKeeps DEF TenantsInv, TenantsTypeOK
<1>3. ASSUME NEW b \in Stays, Finishes(b) PROVE TenantsInv'
  <2>1. stay' = [stay EXCEPT ![b] = "past"] /\ late' = late \ {b} /\ UNCHANGED <<hotel, order, crossed, wiped>>
    BY <1>3 DEF Finishes
  <2>2. stay' \in [Stays -> {"none", "live", "past"}] /\ Live' \subseteq Live \ {b}
    BY <2>1 DEF TenantsInv, TenantsTypeOK, Live
  <2>3. HotelLeavesInOrder'
    BY <2>1, <2>2 DEF TenantsInv, HotelLeavesInOrder, There
  <2>4. \A r : StillSo(r) => StillSo(r)'
    BY <2>1, <2>2 DEF StillSo, There
  <2>5. ReadHolds'
    BY <2>1, <2>4 DEF TenantsInv, ReadHolds
  <2> QED BY <2>1, <2>2, <2>3, <2>5 DEF TenantsInv, TenantsTypeOK
<1> QED BY <1>1, <1>2, <1>3 DEF StaffStep

LEMMA TenantsNextKeeps == ASSUME TenantsAssumption PROVE TenantsInv /\ [TenantsNext]_tenantVars => TenantsInv'
<1> SUFFICES ASSUME TenantsInv, [TenantsNext]_tenantVars PROVE TenantsInv'
  OBVIOUS
<1>1. CASE ActAges \/ OpenSettings \/ UNCHANGED tenantVars
  BY <1>1, HotelStays DEF ActAges, OpenSettings, tenantVars
<1>2. ASSUME NEW a \in Admins, Handle(a) PROVE TenantsInv'
  <2>1. CASE WriteAct(a)
    <3>1. order' = [order EXCEPT ![a] = Absent] /\ UNCHANGED <<hotel, stay, late, crossed, wiped>>
      BY <2>1 DEF WriteAct
    <3>2. Absent \in OrderRow \cup {Absent}
      OBVIOUS
    <3> QED BY <3>1, <3>2, RequestMoves
  <2>2. CASE RowIsGone(a)
    BY <2>2, QuitKeeps DEF RowIsGone
  <2>3. CASE Read(a) \/ Count(a)
    BY <2>3, ReadKeeps, CountKeeps
  <2>4. CASE WriteActive(a) \/ WriteArchive(a) \/ WriteRestore(a) \/ Wipe(a)
    BY <2>4, WritesKeep
  <2>5. CASE WriteCard(a) \/ WriteFeature(a)
    BY <2>5, CardsKeep
  <2> QED BY <1>2, <2>1, <2>2, <2>3, <2>4, <2>5 DEF Handle
<1>3. ASSUME NEW a \in Admins, PanelStep(a) PROVE TenantsInv'
  BY <1>2, <1>3, PanelKeeps DEF PanelStep
<1>4. CASE LeavingStep
  BY <1>1, <1>3, <1>4, StaffKeeps, PanelKeeps, PressKeeps DEF LeavingStep
<1>5. CASE CardStep
  BY <1>1, <1>3, <1>5, StaffKeeps, PanelKeeps, PressKeeps, CardsKeep DEF CardStep
<1> QED BY <1>1, <1>4, <1>5 DEF TenantsNext

\* Whatever any number of administrators press on screens of any age, and
\* whatever the hotel's people do on tokens that outlive its switching off: as
\* long as no request wrote across another, a hotel in the archive is off and
\* expects only whom its people booked since, and a hotel wiped was off
\* (toggleActive, archiveTenant, restoreTenant, exportAndDestroy).
THEOREM HotelsLeaveInOrder == ASSUME TenantsAssumption PROVE TenantsSpec => []HotelLeavesInOrder
<1>1. TenantsInv => HotelLeavesInOrder
  BY DEF TenantsInv
<1> QED BY <1>1, HotelStarts, TenantsNextKeeps, PTL DEF TenantsSpec

-----------------------------------------------------------------------------
(***************************************************************************)
(* Pictures                                                                *)
(***************************************************************************)
FromScreen == Drawn \cup {"updateSettings"}
PhotoOps == Brings \cup Removes \cup {"updateSettings"}

PhotoRequest == [op : PhotoOps, owner : Keepers, photo : Photos \cup {Nil}, sent : Seq(Photos),
                 seen : Seq(Photos), at : Nat, fresh : BOOLEAN]

StepOf(q) == Steps(q.op)[q.at]
Unwritten(q) == StepOf(q) # "drop"
HasRead(q) ==
  \/ StepOf(q) = "persist" /\ q.op # "updateSettings"
  \/ StepOf(q) = "put" /\ q.op # "addGalleryPhoto"
HasPut(q) ==
  /\ q.op \in Brings
  /\ StepOf(q) = "persist" \/ (StepOf(q) = "read" /\ q.op = "addGalleryPhoto")

RequestsOK ==
  \A r \in Requests : req[r] # Nil =>
    req[r] \in PhotoRequest /\ req[r].at \in 1..Len(Steps(req[r].op))

Saving == [category : Categories \cup {Nil}, left : SUBSET Files, file : Files \cup {Nil}, by : Requests \cup {Nil}]
FormOK ==
  form \in [open : BOOLEAN, created : Categories \cup {Nil}, staged : SUBSET Files, saving : Saving \cup {Nil},
            first : BOOLEAN, mine : SUBSET Categories, unheard : BOOLEAN, rebuilt : BOOLEAN]

PhotosTypeOK ==
  /\ made \subseteq Categories
  /\ listed \in [Keepers -> Seq(Photos)]
  /\ DOMAIN req = Requests /\ RequestsOK
  /\ FormOK

\* Whom a picture belongs to: the list it is in, or of a request that names it.
Mentions(q) == {q.photo} \cup Range(q.sent) \cup Range(q.seen)
Belongs(p, o) ==
  \/ p \in Range(listed[o])
  \/ \E r \in Requests : req[r] # Nil /\ req[r].owner = o /\ p \in Mentions(req[r])
NamesAreOwn ==
  \A p \in Photos : \A o \in Keepers : Belongs(p, o) =>
    p \in taken /\ \A k \in Keepers : Belongs(p, k) => k = o

\* A picture on its way into a list is named by nobody else.
Private(r) ==
  LET p == req[r].photo
  IN /\ \A o \in Keepers : p \notin Range(listed[o])
     /\ \A s \in Requests : req[s] # Nil =>
          p \notin Range(req[s].seen) /\ p \notin Range(req[s].sent) /\ (s # r => p # req[s].photo)
OnItsWay(r) == req[r] # Nil /\ req[r].op \in Brings /\ Unwritten(req[r])
PicturesOnTheirWay ==
  \A r \in Requests : OnItsWay(r) => req[r].photo \in Photos /\ Private(r)
PutIsKept ==
  \A r \in Requests : req[r] # Nil /\ HasPut(req[r]) => req[r].photo \in stored

\* Who has seen the last write of a list writes it from what it holds.
Sees(r) ==
  /\ HasRead(req[r]) => req[r].seen = listed[req[r].owner]
  /\ req[r].op \in FromScreen => Range(req[r].sent) \subseteq Range(listed[req[r].owner])
FreshIsUpToDate ==
  \A r \in Requests : req[r] # Nil /\ req[r].fresh /\ Unwritten(req[r]) => Sees(r)

DropsUnlisted ==
  \A r \in Requests : req[r] # Nil /\ ~Unwritten(req[r]) /\ req[r].owner \notin raced =>
    Dropped(req[r]) \cap Range(listed[req[r].owner]) = {}

PhotosInv ==
  /\ PhotosTypeOK
  /\ NamesAreOwn
  /\ PicturesOnTheirWay
  /\ PutIsKept
  /\ FreshIsUpToDate
  /\ DropsUnlisted
  /\ PhotosExist

-----------------------------------------------------------------------------
(* Lists and the steps of handlers *)

LEMMA AppendedNames ==
  ASSUME NEW S, NEW l \in Seq(S), NEW p \in S
  PROVE  Append(l, p) \in Seq(S) /\ Range(Append(l, p)) \subseteq Range(l) \cup {p}
<1>1. /\ Append(l, p) \in Seq(S) /\ Len(Append(l, p)) = Len(l) + 1
      /\ \A i \in 1..Len(l) : Append(l, p)[i] = l[i]
      /\ Append(l, p)[Len(l) + 1] = p
  BY AppendProperties
<1>2. DOMAIN l = 1..Len(l) /\ DOMAIN Append(l, p) = 1..(Len(l) + 1) /\ Len(l) \in Nat
  BY <1>1, LenProperties
<1>3. \A i \in 1..(Len(l) + 1) : i \in 1..Len(l) \/ i = Len(l) + 1
  BY <1>2
<1> QED BY <1>1, <1>2, <1>3, Zenon DEF Range

LEMMA LessNames ==
  ASSUME NEW S, NEW l \in Seq(S), NEW p
  PROVE  Less(l, p) \in Seq(S) /\ Range(Less(l, p)) \subseteq Range(l)
<1>1. CASE p \notin Range(l)
  BY <1>1 DEF Less
<1>2. CASE p \in Range(l)
  <2> DEFINE i == CHOOSE i \in DOMAIN l : l[i] = p
             front == SubSeq(l, 1, i - 1)
             back == SubSeq(l, i + 1, Len(l))
  <2>1. DOMAIN l = 1..Len(l) /\ Len(l) \in Nat
    BY LenProperties
  <2>2. i \in 1..Len(l)
    BY <1>2, <2>1, Zenon DEF Range
  <2>3. Less(l, p) = front \o back
    BY <1>2, Zenon DEF Less, RemoveAt
  <2> HIDE DEF i
  <2>4. \A j \in 1..Len(l) : l[j] \in S
    BY ElementOfSeq
  <2>5. /\ front \in Seq(S) /\ Len(front) = i - 1
        /\ \A j \in 1..(i - 1) : front[j] = l[j]
    <3>1. 1 \in Int /\ i - 1 \in Int /\ \A j \in 1..(i - 1) : l[j] \in S
      BY <2>1, <2>2, <2>4
    <3>2. /\ SubSeq(l, 1, i - 1) \in Seq(S)
          /\ Len(SubSeq(l, 1, i - 1)) = IF 1 <= i - 1 THEN i - 1 - 1 + 1 ELSE 0
          /\ \A j \in 1..(i - 1 - 1 + 1) : SubSeq(l, 1, i - 1)[j] = l[1 + j - 1]
      BY <3>1, SubSeqProperties
    <3>3. /\ front \in Seq(S)
          /\ Len(front) = IF 1 <= i - 1 THEN i - 1 - 1 + 1 ELSE 0
          /\ \A j \in 1..(i - 1 - 1 + 1) : front[j] = l[1 + j - 1]
      BY <3>2
    <3> HIDE DEF front
    <3> QED BY <2>1, <2>2, <3>3
  <2>6. /\ back \in Seq(S) /\ Len(back) = Len(l) - i
        /\ \A j \in 1..(Len(l) - i) : back[j] = l[i + j]
    <3>1. i + 1 \in Int /\ Len(l) \in Int /\ \A j \in (i + 1)..Len(l) : l[j] \in S
      BY <2>1, <2>2, <2>4
    <3>2. /\ SubSeq(l, i + 1, Len(l)) \in Seq(S)
          /\ Len(SubSeq(l, i + 1, Len(l))) = IF i + 1 <= Len(l) THEN Len(l) - (i + 1) + 1 ELSE 0
          /\ \A j \in 1..(Len(l) - (i + 1) + 1) : SubSeq(l, i + 1, Len(l))[j] = l[i + 1 + j - 1]
      BY <3>1, SubSeqProperties
    <3>3. /\ back \in Seq(S)
          /\ Len(back) = IF i + 1 <= Len(l) THEN Len(l) - (i + 1) + 1 ELSE 0
          /\ \A j \in 1..(Len(l) - (i + 1) + 1) : back[j] = l[i + 1 + j - 1]
      BY <3>2
    <3> HIDE DEF back
    <3>4. ASSUME NEW j \in 1..(Len(l) - i)
          PROVE  back[j] = l[i + j]
      <4>1. j \in 1..(Len(l) - (i + 1) + 1) /\ i + 1 + j - 1 = i + j
        BY <2>1, <2>2
      <4> QED BY <3>3, <4>1
    <3>5. Len(back) = Len(l) - i
      <4>1. i \in Int /\ Len(l) \in Int /\ i <= Len(l)
        BY <2>1, <2>2
      <4>2. Len(back) = IF i + 1 <= Len(l) THEN Len(l) - (i + 1) + 1 ELSE 0
        BY <3>3
      <4> QED BY <4>1, <4>2
    <3> QED BY <3>3, <3>4, <3>5
  <2> HIDE DEF front, back
  <2>7. /\ front \o back \in Seq(S)
        /\ Len(front \o back) = Len(front) + Len(back)
        /\ \A j \in 1..(Len(front) + Len(back)) :
             (front \o back)[j] = IF j <= Len(front) THEN front[j] ELSE back[j - Len(front)]
    BY <2>5, <2>6, ConcatProperties
  <2>8. DOMAIN (front \o back) = 1..(Len(front) + Len(back))
    BY <2>7, LenProperties
  <2>9. ASSUME NEW j \in 1..(Len(front) + Len(back))
        PROVE  \E k \in DOMAIN l : (front \o back)[j] = l[k]
    <3>1. CASE j <= Len(front)
      <4>1. j \in 1..(i - 1) /\ (front \o back)[j] = front[j] /\ j \in 1..Len(l)
        BY <2>1, <2>2, <2>5, <2>6, <2>7, <3>1
      <4> QED BY <2>1, <2>5, <4>1
    <3>2. CASE ~ (j <= Len(front))
      <4>1. j - Len(front) \in 1..(Len(l) - i) /\ i + (j - Len(front)) \in 1..Len(l)
        BY <2>1, <2>2, <2>5, <2>6, <3>2
      <4>2. (front \o back)[j] = back[j - Len(front)]
        BY <2>7, <3>2
      <4>3. back[j - Len(front)] = l[i + (j - Len(front))]
        BY <2>6, <4>1
      <4> QED BY <2>1, <4>1, <4>2, <4>3
    <3> QED BY <3>1, <3>2
  <2>10. Range(front \o back) \subseteq Range(l)
    BY <2>8, <2>9, Zenon DEF Range
  <2> QED BY <2>3, <2>7, <2>10
<1> QED BY <1>1, <1>2

LEMMA ArrangedNames ==
  ASSUME NEW S, NEW l \in Seq(S), NEW a \in Arrangements(l)
  PROVE  a \in Seq(S) /\ Range(a) \subseteq Range(l)
<1>1. CASE \E p \in Range(l) : a = Less(l, p)
  BY <1>1, LessNames
<1>2. CASE \E p \in Range(l) : a = <<p>> \o Less(l, p)
  <2>1. PICK p \in Range(l) : a = <<p>> \o Less(l, p)
    BY <1>2
  <2> DEFINE m == Less(l, p)
  <2>2. DOMAIN l = 1..Len(l) /\ p \in S
    BY LenProperties DEF Range
  <2>3. m \in Seq(S) /\ Range(m) \subseteq Range(l)
    BY LessNames
  <2> HIDE DEF m
  <2>4. <<p>> \in Seq(S) /\ Len(<<p>>) = 1 /\ <<p>>[1] = p
    BY <2>2
  <2>5. /\ <<p>> \o m \in Seq(S)
        /\ Len(<<p>> \o m) = 1 + Len(m)
        /\ \A i \in 1..(1 + Len(m)) : (<<p>> \o m)[i] = IF i <= 1 THEN <<p>>[i] ELSE m[i - 1]
    BY <2>3, <2>4, ConcatProperties
  <2>6. Len(m) \in Nat /\ DOMAIN m = 1..Len(m) /\ DOMAIN (<<p>> \o m) = 1..(1 + Len(m))
    BY <2>3, <2>5, LenProperties
  <2>7. ASSUME NEW i \in 1..(1 + Len(m))
        PROVE  (<<p>> \o m)[i] \in {p} \cup Range(m)
    <3>1. CASE i = 1
      BY <2>4, <2>5, <3>1
    <3>2. CASE i # 1
      <4>1. i - 1 \in DOMAIN m
        BY <2>6, <3>2
      <4>2. (<<p>> \o m)[i] = m[i - 1]
        BY <2>5, <2>6, <3>2
      <4> QED BY <4>1, <4>2 DEF Range
    <3> QED BY <3>1, <3>2
  <2>8. Range(<<p>> \o m) \subseteq {p} \cup Range(m)
    BY <2>6, <2>7, Zenon DEF Range
  <2> QED BY <2>1, <2>3, <2>5, <2>8 DEF m
<1> QED BY <1>1, <1>2, Zenon DEF Arrangements

\* The steps of a handler in their order: a list is read before it is written, an
\* object put before it is listed, and nothing follows the clearing up.
Typed(q) == q \in PhotoRequest /\ q.at \in 1..Len(Steps(q.op))
Forward(q) == [q EXCEPT !.at = @ + 1]

LEMMA StepsInOrder ==
  ASSUME NEW q, Typed(q)
  PROVE  /\ StepOf(q) \in {"read", "put"} =>
              q.at # Len(Steps(q.op)) /\ Typed(Forward(q)) /\ Unwritten(Forward(q)) /\ Unwritten(q)
         /\ StepOf(q) = "read" =>
              (HasPut(Forward(q)) => HasPut(q)) /\ q.op # "updateSettings"
         /\ StepOf(q) = "put" => (HasRead(Forward(q)) => HasRead(q)) /\ q.op \in Brings
         /\ StepOf(q) = "persist" =>
              /\ Unwritten(q)
              /\ q.at # Len(Steps(q.op)) => Typed(Forward(q)) /\ ~Unwritten(Forward(q))
              /\ q.op # "updateSettings" => HasRead(q)
              /\ q.op \in Brings => HasPut(q)
         /\ StepOf(q) = "drop" => q.at = Len(Steps(q.op))
<1>1. /\ Forward(q) \in PhotoRequest /\ Forward(q).op = q.op /\ Forward(q).at = q.at + 1
  BY DEF Typed, Forward, PhotoRequest
<1>2. q.op \in PhotoOps /\ q.at \in 1..Len(Steps(q.op))
  BY DEF Typed, PhotoRequest
<1>8. q.at + 1 \in 1..Len(Steps(q.op)) => Typed(Forward(q))
  BY <1>1 DEF Typed
<1> USE DEF Unwritten, HasRead, HasPut, Brings, Removes, Drawn
<1>3. CASE q.op = "addPhoto"
  <2>1. Steps(q.op) = <<"read", "put", "persist">> /\ Len(Steps(q.op)) = 3
    BY <1>3 DEF Steps
  <2>2. q.at \in {1, 2, 3}
    BY <1>2, <2>1
  <2>3. /\ q.at = 1 => StepOf(q) = "read" /\ StepOf(Forward(q)) = "put"
        /\ q.at = 2 => StepOf(q) = "put" /\ StepOf(Forward(q)) = "persist"
        /\ q.at = 3 => StepOf(q) = "persist"
    BY <1>1, <1>8, <2>1 DEF StepOf
  <2>0. Len(Steps(q.op)) = 3
    BY <2>1
  <2>9. q.at # Len(Steps(q.op)) => Typed(Forward(q))
    BY <1>8, <2>0, <2>2
  <2>4. CASE q.at = 1
    BY <1>1, <1>3, <2>0, <2>9, <2>3, <2>4
  <2>5. CASE q.at = 2
    BY <1>1, <1>3, <2>0, <2>9, <2>3, <2>5
  <2>6. CASE q.at = 3
    BY <1>1, <1>3, <2>0, <2>9, <2>3, <2>6
  <2> QED BY <2>2, <2>4, <2>5, <2>6
<1>4. CASE q.op = "addGalleryPhoto"
  <2>1. Steps(q.op) = <<"put", "read", "persist">> /\ Len(Steps(q.op)) = 3
    BY <1>4 DEF Steps
  <2>2. q.at \in {1, 2, 3}
    BY <1>2, <2>1
  <2>3. /\ q.at = 1 => StepOf(q) = "put" /\ StepOf(Forward(q)) = "read"
        /\ q.at = 2 => StepOf(q) = "read" /\ StepOf(Forward(q)) = "persist"
        /\ q.at = 3 => StepOf(q) = "persist"
    BY <1>1, <1>8, <2>1 DEF StepOf
  <2>0. Len(Steps(q.op)) = 3
    BY <2>1
  <2>9. q.at # Len(Steps(q.op)) => Typed(Forward(q))
    BY <1>8, <2>0, <2>2
  <2>4. CASE q.at = 1
    BY <1>1, <1>4, <2>0, <2>9, <2>3, <2>4
  <2>5. CASE q.at = 2
    BY <1>1, <1>4, <2>0, <2>9, <2>3, <2>5
  <2>6. CASE q.at = 3
    BY <1>1, <1>4, <2>0, <2>9, <2>3, <2>6
  <2> QED BY <2>2, <2>4, <2>5, <2>6
<1>5. CASE q.op = "uploadLogo"
  <2>1. Steps(q.op) = <<"read", "put", "persist", "drop">> /\ Len(Steps(q.op)) = 4
    BY <1>5 DEF Steps
  <2>2. q.at \in {1, 2, 3, 4}
    BY <1>2, <2>1
  <2>3. /\ q.at = 1 => StepOf(q) = "read" /\ StepOf(Forward(q)) = "put"
        /\ q.at = 2 => StepOf(q) = "put" /\ StepOf(Forward(q)) = "persist"
        /\ q.at = 3 => StepOf(q) = "persist" /\ StepOf(Forward(q)) = "drop"
        /\ q.at = 4 => StepOf(q) = "drop"
    BY <1>1, <1>8, <2>1 DEF StepOf
  <2>0. Len(Steps(q.op)) = 4
    BY <2>1
  <2>9. q.at # Len(Steps(q.op)) => Typed(Forward(q))
    BY <1>8, <2>0, <2>2
  <2>4. CASE q.at = 1
    BY <1>1, <1>5, <2>0, <2>9, <2>3, <2>4
  <2>5. CASE q.at = 2
    BY <1>1, <1>5, <2>0, <2>9, <2>3, <2>5
  <2>6. CASE q.at = 3
    BY <1>1, <1>5, <2>0, <2>9, <2>3, <2>6
  <2>7. CASE q.at = 4
    BY <1>1, <1>5, <2>0, <2>9, <2>3, <2>7
  <2> QED BY <2>2, <2>4, <2>5, <2>6, <2>7
<1>6. CASE q.op = "updateSettings"
  <2>1. Steps(q.op) = <<"persist">> /\ Len(Steps(q.op)) = 1
    BY <1>6 DEF Steps
  <2>2. q.at = 1
    BY <1>2, <2>1
  <2> QED BY <1>1, <1>8, <1>6, <2>1, <2>2 DEF StepOf
<1>7. CASE q.op \in Removes
  <2>1. Steps(q.op) = <<"read", "persist", "drop">> /\ Len(Steps(q.op)) = 3
    BY <1>7 DEF Steps
  <2>2. q.at \in {1, 2, 3}
    BY <1>2, <2>1
  <2>3. q.op # "updateSettings" /\ q.op \notin Brings
    BY <1>7
  <2> QED BY <1>1, <1>8, <1>7, <2>1, <2>2, <2>3 DEF StepOf
<1> QED BY <1>2, <1>3, <1>4, <1>5, <1>6, <1>7 DEF PhotoOps

Brought(q) == IF q.op \in Brings THEN {q.photo} ELSE {}
LEMMA WrittenNames ==
  ASSUME NEW q \in PhotoRequest, q.op \in Brings => q.photo \in Photos
  PROVE  /\ NextList(q) \in Seq(Photos)
         /\ q.op \notin FromScreen => Range(NextList(q)) \subseteq Range(q.seen) \cup Brought(q)
         /\ q.op \in FromScreen => Range(NextList(q)) \subseteq Range(q.sent)
<1>1. q.op \in PhotoOps /\ q.sent \in Seq(Photos) /\ q.seen \in Seq(Photos)
  BY DEF PhotoRequest
<1>2. CASE q.op \in {"addPhoto", "addGalleryPhoto"}
  <2>1. NextList(q) = Append(q.seen, q.photo) /\ q.op \in Brings /\ q.op \notin FromScreen
    BY <1>2 DEF NextList, Brings, FromScreen, Drawn
  <2> QED BY <1>1, <2>1, AppendedNames DEF Brought
<1>3. CASE q.op = "removePhoto"
  <2>1. NextList(q) = Less(q.seen, q.photo) /\ q.op \notin FromScreen
    BY <1>3 DEF NextList, FromScreen, Drawn
  <2> QED BY <1>1, <2>1, LessNames
<1>4. CASE q.op = "uploadLogo"
  <2>1. NextList(q) = <<q.photo>> /\ q.op \in Brings /\ q.op \notin FromScreen
    BY <1>4 DEF NextList, Brings, FromScreen, Drawn
  <2>2. Range(<<q.photo>>) = {q.photo} /\ <<q.photo>> \in Seq(Photos)
    BY <2>1 DEF Range
  <2> QED BY <2>1, <2>2 DEF Brought
<1>5. CASE q.op = "removeLogo"
  <2>1. NextList(q) = <<>> /\ q.op \notin FromScreen
    BY <1>5 DEF NextList, FromScreen, Drawn
  <2>2. Range(<<>>) = {} /\ <<>> \in Seq(Photos)
    BY DEF Range
  <2> QED BY <2>1, <2>2
<1>6. CASE q.op \in FromScreen
  <2>1. NextList(q) = q.sent
    BY <1>6 DEF NextList, FromScreen, Drawn
  <2> QED BY <1>1, <1>6, <2>1
<1> QED BY <1>1, <1>2, <1>3, <1>4, <1>5, <1>6 DEF PhotoOps, Brings, Removes, Drawn, FromScreen

-----------------------------------------------------------------------------
(* What a request adds to the names that are about *)

LEMMA NamesStay ==
  ASSUME NamesAreOwn, taken \subseteq taken',
         \A p \in Photos : \A o \in Keepers : Belongs(p, o)' => Belongs(p, o)
  PROVE  NamesAreOwn'
BY Zenon DEF NamesAreOwn

\* A request that has just been sent.
LEMMA PhotoRequestMade ==
  ASSUME PhotosInv, NEW r \in Requests, req[r] = Nil, NEW q,
         Typed(q), ~HasRead(q), ~HasPut(q), Unwritten(q), Range(q.seen) = {},
         Range(q.sent) \subseteq Range(listed[q.owner]),
         q.op \in Brings => q.photo \in Photos \ taken,
         q.op \notin Brings => q.photo = Nil \/ q.photo \in Range(listed[q.owner]),
         req' = [req EXCEPT ![r] = q], taken' = taken \cup Brought(q),
         UNCHANGED <<made, listed, stored, raced>>, FormOK'
  PROVE  PhotosInv'
<1>1. DOMAIN req' = Requests /\ req'[r] = q /\ \A s \in Requests : s # r => req'[s] = req[s]
  BY DEF PhotosInv, PhotosTypeOK
<1>2. q \in PhotoRequest /\ q.owner \in Keepers
  BY DEF Typed, PhotoRequest
<1>3. listed' = listed /\ stored' = stored /\ raced' = raced /\ made' = made
  OBVIOUS
<1>4. \A o \in Keepers : Range(listed[o]) \subseteq Photos
  BY LenProperties DEF PhotosInv, PhotosTypeOK, Range
<1>5. \A p \in Photos : \A o \in Keepers : Belongs(p, o) => p \in taken
  BY DEF PhotosInv, NamesAreOwn
<1>6. ASSUME NEW s \in Requests, req[s] # Nil
      PROVE  /\ req[s].owner \in Keepers
             /\ \A p \in Photos : p \in Mentions(req[s]) => p \in taken
  <2>1. req[s].owner \in Keepers
    BY <1>6 DEF PhotosInv, PhotosTypeOK, RequestsOK, PhotoRequest
  <2>2. \A p \in Photos : p \in Mentions(req[s]) => Belongs(p, req[s].owner)
    BY <1>6, <2>1 DEF Belongs
  <2> QED BY <1>5, <2>1, <2>2
<1>7. PhotosTypeOK'
  <2>1. RequestsOK'
    BY <1>1 DEF PhotosInv, PhotosTypeOK, RequestsOK, Typed
  <2> QED BY <1>1, <1>3, <2>1 DEF PhotosInv, PhotosTypeOK
<1>8. NamesAreOwn'
  <2>1. ASSUME NEW p \in Photos, NEW o \in Keepers, Belongs(p, o)'
        PROVE  Belongs(p, o) \/ (p \in Brought(q) /\ o = q.owner)
    <3>1. CASE p \in Range(listed'[o])
      BY <1>3, <3>1 DEF Belongs
    <3>2. CASE \E s \in Requests : req'[s] # Nil /\ req'[s].owner = o /\ p \in Mentions(req'[s])
      <4>1. PICK s \in Requests : req'[s] # Nil /\ req'[s].owner = o /\ p \in Mentions(req'[s])
        BY <3>2
      <4>2. CASE s # r
        BY <1>1, <4>1, <4>2 DEF Belongs
      <4>3. CASE s = r
        <5>1. q.owner = o /\ p \in {q.photo} \cup Range(q.sent) \cup Range(q.seen)
          BY <1>1, <4>1, <4>3 DEF Mentions
        <5>2. p \in Range(listed[o]) \/ (q.op \in Brings /\ p = q.photo)
          BY <5>1, PhotosAssumption
        <5> QED BY <5>1, <5>2 DEF Belongs, Brought
      <4> QED BY <4>2, <4>3
    <3> QED BY <2>1, <3>1, <3>2 DEF Belongs, Mentions
  <2>2. ASSUME NEW p \in Photos, p \in Brought(q)
        PROVE  \A o \in Keepers : ~Belongs(p, o)
    BY <1>5, <2>2 DEF Brought
  <2>3. ASSUME NEW p \in Photos, NEW o \in Keepers, Belongs(p, o)', NEW k \in Keepers
        PROVE  p \in taken' /\ (Belongs(p, k)' => k = o)
    BY <1>5, <2>1, <2>2, <2>3 DEF PhotosInv, NamesAreOwn
  <2> QED BY <2>3, Zenon DEF NamesAreOwn
<1>9. PicturesOnTheirWay'
  <2>1. ASSUME NEW s \in Requests, OnItsWay(s)'
        PROVE  req'[s].photo \in Photos /\ Private(s)'
    <3>1. CASE s = r
      <4> DEFINE p == q.photo
      <4>1. q.op \in Brings
        BY <1>1, <2>1, <3>1 DEF OnItsWay
      <4>2. p \in Photos /\ p \notin taken
        BY <4>1
      <4>3. \A o \in Keepers : p \notin Range(listed[o])
        BY <1>5, <4>2 DEF Belongs
      <4>4. \A t \in Requests : req[t] # Nil => p \notin Mentions(req[t])
        BY <1>6, <4>2
      <4>5. p \notin Range(q.seen) /\ p \notin Range(q.sent)
        BY <1>2, <4>3
      <4>6. ASSUME NEW t \in Requests, req'[t] # Nil
            PROVE  p \notin Range(req'[t].seen) /\ p \notin Range(req'[t].sent) /\ (t # r => p # req'[t].photo)
        <5>1. CASE t = r
          BY <1>1, <4>5, <5>1
        <5>2. CASE t # r
          BY <1>1, <4>4, <4>6, <5>2 DEF Mentions
        <5> QED BY <5>1, <5>2
      <4> QED BY <1>1, <1>3, <3>1, <4>2, <4>3, <4>6 DEF Private
    <3>2. CASE s # r
      <4> DEFINE p == req[s].photo
      <4>1. req'[s] = req[s] /\ OnItsWay(s)
        BY <1>1, <2>1, <3>2 DEF OnItsWay
      <4>2. p \in Photos /\ Private(s) /\ req[s] # Nil
        BY <4>1 DEF PhotosInv, PicturesOnTheirWay, OnItsWay
      <4>3. p \in taken
        BY <1>6, <4>2 DEF Mentions
      <4>4. p \notin Range(listed[q.owner])
        BY <1>2, <4>2 DEF Private
      <4>5. p \notin Range(q.seen) /\ p \notin Range(q.sent) /\ p # q.photo
        BY <4>2, <4>3, <4>4, PhotosAssumption
      <4>6. ASSUME NEW t \in Requests, req'[t] # Nil
            PROVE  p \notin Range(req'[t].seen) /\ p \notin Range(req'[t].sent) /\ (t # s => p # req'[t].photo)
        <5>1. CASE t = r
          BY <1>1, <4>5, <5>1
        <5>2. CASE t # r
          BY <1>1, <4>2, <4>6, <5>2 DEF Private
        <5> QED BY <5>1, <5>2
      <4>7. \A o \in Keepers : p \notin Range(listed[o])
        BY <4>2 DEF Private
      <4> QED BY <1>3, <4>1, <4>2, <4>6, <4>7 DEF Private
    <3> QED BY <3>1, <3>2
  <2> QED BY <2>1, Zenon DEF PicturesOnTheirWay
<1>10. PutIsKept'
  BY <1>1, <1>3 DEF PhotosInv, PutIsKept
<1>11. FreshIsUpToDate'
  BY <1>1, <1>3 DEF PhotosInv, FreshIsUpToDate, Sees
<1>12. DropsUnlisted'
  BY <1>1, <1>3 DEF PhotosInv, DropsUnlisted
<1>13. PhotosExist'
  BY <1>3 DEF PhotosInv, PhotosExist
<1> QED BY <1>7, <1>8, <1>9, <1>10, <1>11, <1>12, <1>13 DEF PhotosInv

\* A request that has read its list or put its object.
LEMMA PhotoRequestMoves ==
  ASSUME PhotosInv, NEW r \in Requests, req[r] # Nil, NEW n, Typed(n), Unwritten(n),
         n.op = req[r].op, n.owner = req[r].owner, n.photo = req[r].photo, n.sent = req[r].sent,
         Range(n.seen) \subseteq Range(req[r].seen) \cup Range(listed[req[r].owner]),
         Unwritten(req[r]), HasPut(n) => n.photo \in stored', stored \subseteq stored',
         n.fresh /\ HasRead(n) => n.seen = listed[n.owner],
         n.fresh /\ n.op \in FromScreen => req[r].fresh,
         req' = [req EXCEPT ![r] = n],
         UNCHANGED <<made, listed, taken, raced>>, FormOK'
  PROVE  PhotosInv'
<1> DEFINE q == req[r]
<1>1. DOMAIN req' = Requests /\ req'[r] = n /\ \A s \in Requests : s # r => req'[s] = req[s]
  BY DEF PhotosInv, PhotosTypeOK
<1>2. q.owner \in Keepers
  BY DEF PhotosInv, PhotosTypeOK, RequestsOK, PhotoRequest
<1>3. listed' = listed /\ taken' = taken /\ raced' = raced /\ made' = made
  OBVIOUS
<1>4. PhotosTypeOK'
  <2>1. RequestsOK'
    BY <1>1 DEF PhotosInv, PhotosTypeOK, RequestsOK, Typed
  <2> QED BY <1>1, <1>3, <2>1 DEF PhotosInv, PhotosTypeOK
<1>5. NamesAreOwn'
  <2>1. ASSUME NEW p \in Photos, NEW o \in Keepers, Belongs(p, o)'
        PROVE  Belongs(p, o)
    <3>1. CASE p \in Range(listed'[o])
      BY <1>3, <3>1 DEF Belongs
    <3>2. CASE \E s \in Requests : req'[s] # Nil /\ req'[s].owner = o /\ p \in Mentions(req'[s])
      <4>1. PICK s \in Requests : req'[s] # Nil /\ req'[s].owner = o /\ p \in Mentions(req'[s])
        BY <3>2
      <4>2. CASE s # r
        BY <1>1, <4>1, <4>2 DEF Belongs
      <4>3. CASE s = r
        <5>1. n.owner = o /\ p \in {n.photo} \cup Range(n.sent) \cup Range(n.seen)
          BY <1>1, <4>1, <4>3 DEF Mentions
        <5>2. p \in Range(listed[o]) \/ p \in Mentions(q)
          BY <5>1 DEF Mentions
        <5> QED BY <5>1, <5>2 DEF Belongs
      <4> QED BY <4>2, <4>3
    <3> QED BY <2>1, <3>1, <3>2 DEF Belongs, Mentions
  <2>2. NamesAreOwn
    BY DEF PhotosInv
  <2> QED BY <1>3, <2>1, <2>2, NamesStay
<1>6. PicturesOnTheirWay'
  <2>1. ASSUME NEW s \in Requests, OnItsWay(s)'
        PROVE  req'[s].photo \in Photos /\ Private(s)'
    <3> DEFINE p == req[s].photo
    <3>1. req'[s].photo = p /\ OnItsWay(s)
      BY <1>1, <2>1 DEF OnItsWay
    <3>2. p \in Photos /\ Private(s) /\ req[s] # Nil
      BY <3>1 DEF PhotosInv, PicturesOnTheirWay, OnItsWay
    <3>3. /\ p \notin Range(n.seen) /\ p \notin Range(n.sent) /\ (s # r => p # n.photo)
      BY <1>2, <3>2 DEF Private
    <3>4. ASSUME NEW t \in Requests, req'[t] # Nil
          PROVE  p \notin Range(req'[t].seen) /\ p \notin Range(req'[t].sent) /\ (t # s => p # req'[t].photo)
      <4>1. CASE t = r
        BY <1>1, <3>3, <4>1
      <4>2. CASE t # r
        BY <1>1, <3>2, <3>4, <4>2 DEF Private
      <4> QED BY <4>1, <4>2
    <3>5. \A o \in Keepers : p \notin Range(listed[o])
      BY <3>2 DEF Private
    <3> QED BY <1>3, <3>1, <3>2, <3>4, <3>5 DEF Private
  <2> QED BY <2>1, Zenon DEF PicturesOnTheirWay
<1>7. PutIsKept'
  BY <1>1 DEF PhotosInv, PutIsKept
<1>8. FreshIsUpToDate'
  <2>1. ASSUME NEW s \in Requests, req'[s] # Nil, req'[s].fresh, Unwritten(req'[s])
        PROVE  Sees(s)'
    <3>1. CASE s # r
      BY <1>1, <1>3, <2>1, <3>1 DEF PhotosInv, FreshIsUpToDate, Sees
    <3>2. CASE s = r
      <4>1. HasRead(n) => n.seen = listed[n.owner]
        BY <1>1, <2>1, <3>2
      <4>2. n.op \in FromScreen => Range(n.sent) \subseteq Range(listed[n.owner])
        BY <1>1, <2>1, <3>2 DEF PhotosInv, FreshIsUpToDate, Sees
      <4> QED BY <1>1, <1>3, <3>2, <4>1, <4>2 DEF Sees
    <3> QED BY <3>1, <3>2
  <2> QED BY <2>1, Zenon DEF FreshIsUpToDate
<1>9. DropsUnlisted'
  BY <1>1, <1>3 DEF PhotosInv, DropsUnlisted
<1>10. PhotosExist'
  BY <1>3 DEF PhotosInv, PhotosExist
<1> QED BY <1>4, <1>5, <1>6, <1>7, <1>8, <1>9, <1>10 DEF PhotosInv

\* A request that is answered or given up, whatever it deleted of what no list names.
LEMMA PhotoRequestGone ==
  ASSUME PhotosInv, NEW r \in Requests, req' = [req EXCEPT ![r] = Nil],
         \A s \in Requests : s # r /\ req[s] # Nil /\ HasPut(req[s]) => req[s].photo \in stored',
         PhotosExist', UNCHANGED <<made, listed, taken, raced>>, FormOK'
  PROVE  PhotosInv'
<1>1. DOMAIN req' = Requests /\ req'[r] = Nil /\ \A s \in Requests : s # r => req'[s] = req[s]
  BY DEF PhotosInv, PhotosTypeOK
<1>2. \A s \in Requests : req'[s] # Nil => s # r /\ req'[s] = req[s]
  BY <1>1
<1>3. listed' = listed /\ taken' = taken /\ raced' = raced /\ made' = made
  OBVIOUS
<1>4. PhotosTypeOK'
  BY <1>1, <1>2, <1>3 DEF PhotosInv, PhotosTypeOK, RequestsOK
<1>5. NamesAreOwn'
  <2>1. \A p \in Photos : \A o \in Keepers : Belongs(p, o)' => Belongs(p, o)
    BY <1>2, <1>3 DEF Belongs, Mentions
  <2> QED BY <1>3, <2>1, NamesStay DEF PhotosInv
<1>6. PicturesOnTheirWay'
  BY <1>2, <1>3 DEF PhotosInv, PicturesOnTheirWay, OnItsWay, Private
<1>7. PutIsKept'
  BY <1>2 DEF PhotosInv, PutIsKept
<1>8. FreshIsUpToDate'
  BY <1>2, <1>3 DEF PhotosInv, FreshIsUpToDate, Sees
<1>9. DropsUnlisted'
  BY <1>2, <1>3 DEF PhotosInv, DropsUnlisted
<1> QED BY <1>4, <1>5, <1>6, <1>7, <1>8, <1>9 DEF PhotosInv

\* Only the form.
LEMMA FormAlone ==
  ASSUME PhotosInv, UNCHANGED <<listed, stored, taken, req, raced>>, made' \subseteq Categories, FormOK'
  PROVE  PhotosInv'
<1>1. listed' = listed /\ stored' = stored /\ taken' = taken /\ req' = req /\ raced' = raced
  OBVIOUS
<1>2. PhotosTypeOK'
  BY <1>1 DEF PhotosInv, PhotosTypeOK, RequestsOK
<1>3. \A p, o : Belongs(p, o)' <=> Belongs(p, o)
  BY <1>1 DEF Belongs, Mentions
<1>4. NamesAreOwn' /\ PicturesOnTheirWay' /\ PutIsKept'
  BY <1>1, <1>3 DEF PhotosInv, NamesAreOwn, PicturesOnTheirWay, OnItsWay, Private, PutIsKept
<1>5. FreshIsUpToDate' /\ DropsUnlisted' /\ PhotosExist'
  BY <1>1 DEF PhotosInv, FreshIsUpToDate, Sees, DropsUnlisted, PhotosExist
<1> QED BY <1>2, <1>4, <1>5 DEF PhotosInv

-----------------------------------------------------------------------------
(* The steps of a request *)

\* A request at some step, as the invariant has it.
LEMMA AtWork ==
  ASSUME PhotosInv, NEW r \in Requests, req[r] # Nil
  PROVE  /\ Typed(req[r]) /\ req[r].owner \in Keepers
         /\ req[r].op \in Brings /\ Unwritten(req[r]) => req[r].photo \in Photos
BY DEF PhotosInv, PhotosTypeOK, RequestsOK, Typed, PhotoRequest, PicturesOnTheirWay, OnItsWay

LEMMA FormHears ==
  ASSUME FormOK, NEW r \in Requests,
         form' \in {form, IF SentByForm(r) THEN Uploaded ELSE form, IF SentByForm(r) THEN GaveUp ELSE form}
  PROVE  FormOK'
<1>1. CASE form' = form
  BY <1>1 DEF FormOK
<1>2. CASE SentByForm(r) /\ form' = Uploaded
  <2>1. form.saving \in Saving
    BY <1>2 DEF FormOK, SentByForm
  <2>2. form.saving.left \ {form.saving.file} \in SUBSET Files
    BY <2>1 DEF Saving
  <2> QED BY <1>2, <2>1, <2>2 DEF FormOK, Uploaded, Saving
<1>3. CASE form' = GaveUp
  BY <1>3 DEF FormOK, GaveUp
<1> QED BY <1>1, <1>2, <1>3

\* What is sent stands at its first step.
LEMMA NewAtStart ==
  ASSUME PhotosInv, NEW r \in Requests, req[r] = Nil, NEW op \in PhotoOps, NEW o \in Keepers,
         NEW p \in Photos \cup {Nil}, NEW l \in Seq(Photos),
         req' = [req EXCEPT ![r] = NewRequest(op, o, p, l)],
         Range(l) \subseteq Range(listed[o]),
         op \in Brings => p \in Photos \ taken,
         op \notin Brings => p = Nil \/ p \in Range(listed[o]),
         taken' = taken \cup (IF op \in Brings THEN {p} ELSE {}),
         UNCHANGED <<made, listed, stored, raced>>, FormOK'
  PROVE  PhotosInv'
<1> DEFINE q == NewRequest(op, o, p, l)
<1>1. /\ q.op = op /\ q.owner = o /\ q.photo = p /\ q.sent = l /\ q.seen = <<>> /\ q.at = 1
      /\ q \in PhotoRequest
  BY DEF NewRequest, PhotoRequest
<1>2. Range(q.seen) = {}
  BY <1>1 DEF Range
<1>3. Typed(q) /\ ~HasRead(q) /\ ~HasPut(q) /\ Unwritten(q)
  <2> HIDE DEF q
  <2> USE DEF Brings, Removes, Drawn
  <2>1. CASE op \in {"addPhoto", "uploadLogo"} \cup Removes
    <3>1. Steps(q.op)[1] = "read" /\ 1 \in 1..Len(Steps(q.op))
      BY <1>1, <2>1 DEF Steps
    <3>2. StepOf(q) = "read" /\ q.op # "addGalleryPhoto"
      BY <1>1, <2>1, <3>1 DEF StepOf
    <3> QED BY <1>1, <3>1, <3>2 DEF Typed, HasRead, HasPut, Unwritten
  <2>2. CASE op = "addGalleryPhoto"
    <3>1. Steps(q.op)[1] = "put" /\ 1 \in 1..Len(Steps(q.op))
      BY <1>1, <2>2 DEF Steps
    <3>2. StepOf(q) = "put"
      BY <1>1, <3>1 DEF StepOf
    <3> QED BY <1>1, <2>2, <3>1, <3>2 DEF Typed, HasRead, HasPut, Unwritten
  <2>3. CASE op = "updateSettings"
    <3>1. Steps(q.op)[1] = "persist" /\ 1 \in 1..Len(Steps(q.op))
      BY <1>1, <2>3 DEF Steps
    <3>2. StepOf(q) = "persist"
      BY <1>1, <3>1 DEF StepOf
    <3> QED BY <1>1, <2>3, <3>1, <3>2 DEF Typed, HasRead, HasPut, Unwritten
  <2> QED BY <2>1, <2>2, <2>3 DEF PhotoOps
<1>4. taken' = taken \cup Brought(q)
  BY <1>1 DEF Brought
<1> HIDE DEF q
<1>5. req' = [req EXCEPT ![r] = q]
  BY DEF q
<1> QED BY <1>1, <1>2, <1>3, <1>4, <1>5, PhotoRequestMade

LEMMA SendPhotoKeeps ==
  ASSUME PhotosInv, NEW r \in Requests, Send(r)
  PROVE  PhotosInv'
<1>1. PICK o \in made \cup {Gallery, Logo} : \E op \in ServedBy(o) :
        /\ Free(r)
        /\ \/ op \in Brings /\ \E p \in Photos \ taken :
                req' = [req EXCEPT ![r] = NewRequest(op, o, p, <<>>)] /\ taken' = taken \cup {p}
           \/ op = "removePhoto" /\ \E p \in Range(listed[o]) :
                req' = [req EXCEPT ![r] = NewRequest(op, o, p, <<>>)] /\ UNCHANGED taken
           \/ op \in Drawn /\ \E l \in Arrangements(listed[o]) :
                req' = [req EXCEPT ![r] = NewRequest(op, o, Nil, l)] /\ UNCHANGED taken
           \/ op = "updateSettings" /\ listed[o] # <<>> /\ UNCHANGED taken
                /\ req' = [req EXCEPT ![r] = NewRequest(op, o, Nil, listed[o])]
           \/ op = "removeLogo" /\ req' = [req EXCEPT ![r] = NewRequest(op, o, Nil, <<>>)] /\ UNCHANGED taken
  BY DEF Send
<1>2. UNCHANGED <<made, listed, stored, form, raced>>
  BY DEF Send
<1>3. o \in Keepers /\ listed[o] \in Seq(Photos) /\ FormOK'
  BY <1>2 DEF Keepers, PhotosInv, PhotosTypeOK, FormOK
<1>4. Range(listed[o]) \subseteq Photos
  BY <1>3, LenProperties DEF Range
<1>5. PICK op \in ServedBy(o) :
        /\ req[r] = Nil
        /\ \E p \in Photos \cup {Nil}, l \in Seq(Photos) :
             /\ req' = [req EXCEPT ![r] = NewRequest(op, o, p, l)]
             /\ Range(l) \subseteq Range(listed[o])
             /\ op \in PhotoOps
             /\ op \in Brings => p \in Photos \ taken
             /\ op \notin Brings => p = Nil \/ p \in Range(listed[o])
             /\ taken' = taken \cup (IF op \in Brings THEN {p} ELSE {})
  <2>1. PICK op \in ServedBy(o) :
        /\ Free(r)
        /\ \/ op \in Brings /\ \E p \in Photos \ taken :
                req' = [req EXCEPT ![r] = NewRequest(op, o, p, <<>>)] /\ taken' = taken \cup {p}
           \/ op = "removePhoto" /\ \E p \in Range(listed[o]) :
                req' = [req EXCEPT ![r] = NewRequest(op, o, p, <<>>)] /\ UNCHANGED taken
           \/ op \in Drawn /\ \E l \in Arrangements(listed[o]) :
                req' = [req EXCEPT ![r] = NewRequest(op, o, Nil, l)] /\ UNCHANGED taken
           \/ op = "updateSettings" /\ listed[o] # <<>> /\ UNCHANGED taken
                /\ req' = [req EXCEPT ![r] = NewRequest(op, o, Nil, listed[o])]
           \/ op = "removeLogo" /\ req' = [req EXCEPT ![r] = NewRequest(op, o, Nil, <<>>)] /\ UNCHANGED taken
    BY <1>1
  <2>2. <<>> \in Seq(Photos) /\ Range(<<>>) = {}
    BY DEF Range
  <2>3. req[r] = Nil
    BY <2>1 DEF Free
  <2>4. op \in PhotoOps /\ (op \notin Brings <=> op \in Removes \cup {"updateSettings"})
    BY <2>1 DEF ServedBy, PhotoOps, Brings, Removes, Drawn
  <2> DEFINE BeingSent(p, l) ==
        /\ req' = [req EXCEPT ![r] = NewRequest(op, o, p, l)]
        /\ Range(l) \subseteq Range(listed[o])
        /\ op \in PhotoOps
        /\ op \in Brings => p \in Photos \ taken
        /\ op \notin Brings => p = Nil \/ p \in Range(listed[o])
        /\ taken' = taken \cup (IF op \in Brings THEN {p} ELSE {})
  <2>5. CASE op \in Brings
    <3>1. PICK p \in Photos \ taken : req' = [req EXCEPT ![r] = NewRequest(op, o, p, <<>>)] /\ taken' = taken \cup {p}
      BY <2>1, <2>5 DEF Brings, Drawn
    <3>2. BeingSent(p, <<>>)
      BY <2>2, <2>4, <2>5, <3>1
    <3> QED BY <2>2, <2>3, <3>1, <3>2
  <2>6. CASE op = "removePhoto"
    <3>1. PICK p \in Range(listed[o]) : req' = [req EXCEPT ![r] = NewRequest(op, o, p, <<>>)] /\ taken' = taken
      BY <2>1, <2>6 DEF Brings, Drawn
    <3>2. BeingSent(p, <<>>)
      BY <2>2, <2>4, <2>6, <3>1 DEF Removes
    <3> QED BY <1>4, <2>2, <2>3, <3>1, <3>2
  <2>7. CASE op \in Drawn
    <3>1. PICK l \in Arrangements(listed[o]) : req' = [req EXCEPT ![r] = NewRequest(op, o, Nil, l)] /\ taken' = taken
      BY <2>1, <2>7 DEF Brings, Drawn
    <3>2. l \in Seq(Photos) /\ Range(l) \subseteq Range(listed[o])
      BY <1>3, ArrangedNames
    <3>3. BeingSent(Nil, l)
      BY <2>4, <2>7, <3>1, <3>2 DEF Removes
    <3> QED BY <2>3, <3>2, <3>3
  <2>8. CASE op = "updateSettings"
    <3>1. req' = [req EXCEPT ![r] = NewRequest(op, o, Nil, listed[o])] /\ taken' = taken
      BY <2>1, <2>8 DEF Brings, Drawn
    <3>2. BeingSent(Nil, listed[o])
      BY <2>4, <2>8, <3>1
    <3> QED BY <1>3, <2>3, <3>2
  <2>9. CASE op = "removeLogo"
    <3>1. req' = [req EXCEPT ![r] = NewRequest(op, o, Nil, <<>>)] /\ taken' = taken
      BY <2>1, <2>9 DEF Brings, Drawn
    <3>2. BeingSent(Nil, <<>>)
      BY <2>2, <2>4, <2>9, <3>1 DEF Removes
    <3> QED BY <2>2, <2>3, <3>2
  <2> QED BY <2>4, <2>5, <2>6, <2>7, <2>8, <2>9 DEF Removes
<1>6. PICK p \in Photos \cup {Nil}, l \in Seq(Photos) :
        /\ req' = [req EXCEPT ![r] = NewRequest(op, o, p, l)]
        /\ Range(l) \subseteq Range(listed[o])
        /\ op \in PhotoOps
        /\ op \in Brings => p \in Photos \ taken
        /\ op \notin Brings => p = Nil \/ p \in Range(listed[o])
        /\ taken' = taken \cup (IF op \in Brings THEN {p} ELSE {})
  BY <1>5
<1> QED BY <1>2, <1>3, <1>5, <1>6, NewAtStart

LEMMA ReadListKeeps ==
  ASSUME PhotosInv, NEW r \in Requests, ReadList(r)
  PROVE  PhotosInv'
<1> DEFINE q == req[r]
           seen == listed[q.owner]
           n == [Forward(q) EXCEPT !.seen = seen, !.fresh = IF q.op \in Drawn THEN @ ELSE TRUE]
<1>1. /\ q # Nil /\ StepOf(q) = "read"
      /\ UNCHANGED <<made, listed, stored, taken, form, raced>>
  BY DEF ReadList, Does, StepOf
<1>2. Typed(q) /\ q.owner \in Keepers
  BY <1>1, AtWork
<1>3. /\ q.at # Len(Steps(q.op)) /\ Typed(Forward(q)) /\ Unwritten(Forward(q)) /\ Unwritten(q)
      /\ HasPut(Forward(q)) => HasPut(q)
      /\ q.op # "updateSettings"
  BY <1>1, <1>2, StepsInOrder
<1>4. req' = [req EXCEPT ![r] = Nil] \/ req' = [req EXCEPT ![r] = n]
  <2>1. Advanced(q) = Forward(q)
    BY <1>3 DEF Advanced, Forward
  <2>2. req' = IF q.op = "removePhoto" /\ q.photo \notin Range(seen)
               THEN [req EXCEPT ![r] = Nil]
               ELSE [req EXCEPT ![r] = [Advanced(q) EXCEPT !.seen = seen, !.fresh = IF q.op \in Drawn THEN @ ELSE TRUE]]
    BY Zenon DEF ReadList
  <2> QED BY <2>1, <2>2
<1>5. FormOK'
  BY <1>1 DEF PhotosInv, PhotosTypeOK, FormOK
<1>6. CASE req' = [req EXCEPT ![r] = Nil]
  <2>1. \A s \in Requests : s # r /\ req[s] # Nil /\ HasPut(req[s]) => req[s].photo \in stored'
    BY <1>1 DEF PhotosInv, PutIsKept
  <2>2. PhotosExist'
    BY <1>1 DEF PhotosInv, PhotosExist
  <2> QED BY <1>1, <1>5, <1>6, <2>1, <2>2, PhotoRequestGone
<1>7. CASE req' = [req EXCEPT ![r] = n]
  <2>1. seen \in Seq(Photos)
    BY <1>2 DEF PhotosInv, PhotosTypeOK
  <2>2. /\ n.op = q.op /\ n.owner = q.owner /\ n.photo = q.photo /\ n.sent = q.sent
        /\ n.seen = seen /\ n.at = Forward(q).at /\ n \in PhotoRequest
        /\ n.fresh = IF q.op \in Drawn THEN q.fresh ELSE TRUE
        /\ Forward(q).op = q.op /\ Forward(q).photo = q.photo
    BY <1>2, <1>3, <2>1 DEF Typed, Forward, PhotoRequest
  <2> HIDE DEF n
  <2>3. Typed(n) /\ StepOf(n) = StepOf(Forward(q))
    BY <1>3, <2>2 DEF Typed, StepOf
  <2>4. Unwritten(n) /\ (HasPut(n) => HasPut(q))
    BY <1>3, <2>2, <2>3 DEF Unwritten, HasPut
  <2>5. HasPut(n) => n.photo \in stored'
    BY <1>1, <2>2, <2>4 DEF PhotosInv, PutIsKept
  <2>6. n.fresh /\ n.op \in FromScreen => q.fresh
    BY <1>3, <2>2 DEF FromScreen
  <2>7. Range(n.seen) \subseteq Range(q.seen) \cup Range(listed[q.owner])
    BY <2>2
  <2>8. n.fresh /\ HasRead(n) => n.seen = listed[n.owner]
    BY <2>2
  <2> HIDE DEF q
  <2> QED BY <1>1, <1>3, <1>5, <1>7, <2>2, <2>3, <2>4, <2>5, <2>6, <2>7, <2>8, PhotoRequestMoves DEF q
<1> QED BY <1>4, <1>6, <1>7

LEMMA PutImageKeeps ==
  ASSUME PhotosInv, NEW r \in Requests, PutImage(r)
  PROVE  PhotosInv'
<1> DEFINE q == req[r]
           n == Forward(q)
<1>1. /\ q # Nil /\ StepOf(q) = "put"
      /\ UNCHANGED <<made, listed, taken, form, raced>>
      /\ stored' = stored \cup {q.photo}
  BY DEF PutImage, Does, StepOf
<1>2. Typed(q) /\ q.owner \in Keepers
  BY <1>1, AtWork
<1>3. /\ q.at # Len(Steps(q.op)) /\ Typed(n) /\ Unwritten(n) /\ Unwritten(q)
      /\ HasRead(n) => HasRead(q)
      /\ q.op \in Brings
  BY <1>1, <1>2, StepsInOrder
<1>4. req' = [req EXCEPT ![r] = n]
  <2>1. Advanced(q) = n
    BY <1>3 DEF Advanced, Forward
  <2> QED BY <2>1 DEF PutImage
<1>5. FormOK'
  BY <1>1 DEF PhotosInv, PhotosTypeOK, FormOK
<1>6. /\ n.op = q.op /\ n.owner = q.owner /\ n.photo = q.photo /\ n.sent = q.sent /\ n.seen = q.seen
      /\ n.fresh = q.fresh
  BY <1>2 DEF Typed, Forward, PhotoRequest
<1> HIDE DEF n
<1>7. n.fresh /\ HasRead(n) => n.seen = listed[n.owner]
  BY <1>1, <1>3, <1>6 DEF PhotosInv, FreshIsUpToDate, Sees
<1>8. HasPut(n) => n.photo \in stored'
  BY <1>1, <1>6
<1> QED BY <1>1, <1>3, <1>4, <1>5, <1>6, <1>7, <1>8, PhotoRequestMoves

LEMMA DropObjectsKeeps ==
  ASSUME PhotosInv, NEW r \in Requests, DropObjects(r)
  PROVE  PhotosInv'
<1> DEFINE q == req[r]
<1>1. /\ q # Nil /\ StepOf(q) = "drop"
      /\ UNCHANGED <<made, listed, taken, form, raced>>
  BY DEF DropObjects, Does, StepOf
<1>2. PICK gone \in SUBSET Dropped(q) : stored' = stored \ gone
  BY DEF DropObjects
<1>3. Typed(q) /\ q.owner \in Keepers /\ q.seen \in Seq(Photos)
  BY <1>1, AtWork DEF Typed, PhotoRequest
<1>4. req' = [req EXCEPT ![r] = Nil]
  <2>1. Advanced(q) = Nil
    BY <1>1, <1>3, StepsInOrder DEF Advanced
  <2> QED BY <2>1 DEF DropObjects
<1>5. gone \subseteq Range(q.seen) /\ gone \subseteq Photos
  <2>1. Range(q.seen) \subseteq Photos
    BY <1>3, LenProperties DEF Range
  <2> QED BY <2>1 DEF Dropped
<1>6. \A s \in Requests : s # r /\ req[s] # Nil /\ HasPut(req[s]) => req[s].photo \in stored'
  <2>1. ASSUME NEW s \in Requests, req[s] # Nil, HasPut(req[s])
        PROVE  req[s].photo \in stored'
    <3>1. req[s].photo \in stored
      BY <2>1 DEF PhotosInv, PutIsKept
    <3>2. OnItsWay(s)
      BY <2>1 DEF OnItsWay, HasPut, Unwritten
    <3>3. req[s].photo \notin Range(q.seen)
      BY <1>1, <3>2 DEF PhotosInv, PicturesOnTheirWay, Private
    <3> QED BY <1>2, <1>5, <3>1, <3>3
  <2> QED BY <2>1
<1>7. PhotosExist'
  <2>1. ASSUME NEW o \in Keepers \ raced, NEW p \in Range(listed[o])
        PROVE  p \in stored'
    <3>1. p \in stored
      BY <2>1 DEF PhotosInv, PhotosExist
    <3>2. ASSUME p \in gone
          PROVE  FALSE
      <4>1. p \in Photos /\ Belongs(p, o) /\ Belongs(p, q.owner)
        BY <1>1, <1>5, <3>2 DEF Belongs, Mentions
      <4>2. o = q.owner
        BY <1>3, <4>1 DEF PhotosInv, NamesAreOwn
      <4>3. p \notin Range(listed[q.owner])
        BY <1>1, <3>2, <4>2 DEF PhotosInv, DropsUnlisted, Unwritten
      <4> QED BY <4>2, <4>3
    <3> QED BY <1>2, <3>1, <3>2
  <2> QED BY <1>1, <2>1 DEF PhotosExist
<1>8. FormOK'
  BY <1>1 DEF PhotosInv, PhotosTypeOK, FormOK
<1> QED BY <1>1, <1>4, <1>6, <1>7, <1>8, PhotoRequestGone

LEMMA PhotosFailKeeps ==
  ASSUME PhotosInv, NEW r \in Requests, Fail(r)
  PROVE  PhotosInv'
<1>1. /\ req' = [req EXCEPT ![r] = Nil]
      /\ UNCHANGED <<made, listed, stored, taken, raced>>
      /\ form' = IF SentByForm(r) THEN GaveUp ELSE form
  BY DEF Fail
<1>2. FormOK'
  BY <1>1, FormHears DEF PhotosInv, PhotosTypeOK
<1>3. \A s \in Requests : s # r /\ req[s] # Nil /\ HasPut(req[s]) => req[s].photo \in stored'
  BY <1>1 DEF PhotosInv, PutIsKept
<1>4. PhotosExist'
  BY <1>1 DEF PhotosInv, PhotosExist
<1> QED BY <1>1, <1>2, <1>3, <1>4, PhotoRequestGone

LEMMA PersistPhotosKeeps ==
  ASSUME PhotosInv, NEW r \in Requests, PersistPhotos(r)
  PROVE  PhotosInv'
<1> DEFINE q == req[r]
           o == q.owner
           l == NextList(q)
           n == Advanced(q)
<1>1. /\ q # Nil /\ StepOf(q) = "persist"
      /\ UNCHANGED <<made, stored, taken>>
      /\ listed' = [listed EXCEPT ![o] = l]
      /\ raced' = IF q.fresh THEN raced ELSE raced \cup {o}
      /\ form' = IF SentByForm(r) THEN Uploaded ELSE form
      /\ req' = [s \in Requests |->
           IF s = r THEN Advanced(req[s])
           ELSE IF req[s] # Nil /\ req[s].owner = o THEN [req[s] EXCEPT !.fresh = FALSE]
           ELSE req[s]]
  BY DEF PersistPhotos, Does, StepOf
<1>2. Typed(q) /\ o \in Keepers /\ Unwritten(q)
      /\ (q.op \in Brings => q.photo \in Photos)
  BY <1>1, AtWork, StepsInOrder
<1>3. /\ q.op # "updateSettings" => HasRead(q)
      /\ q.op \in Brings => HasPut(q)
      /\ q.at # Len(Steps(q.op)) => Typed(Forward(q)) /\ ~Unwritten(Forward(q))
  BY <1>1, <1>2, StepsInOrder
<1>4. q \in PhotoRequest
  BY <1>2 DEF Typed
\* What is written, and what of it the request alone knew.
<1>5. /\ l \in Seq(Photos)
      /\ q.op \notin FromScreen => Range(l) \subseteq Range(q.seen) \cup Brought(q)
      /\ q.op \in FromScreen => Range(l) \subseteq Range(q.sent)
  BY <1>2, <1>4, WrittenNames
<1>6. Range(l) \subseteq Mentions(q)
  BY <1>5 DEF Mentions, Brought
<1>7. q.fresh => Range(l) \subseteq Range(listed[o]) \cup Brought(q)
  BY <1>1, <1>2, <1>3, <1>5 DEF PhotosInv, FreshIsUpToDate, Sees, FromScreen
<1>8. ASSUME NEW s \in Requests, OnItsWay(s), s # r
      PROVE  req[s].photo \notin Mentions(q)
  BY <1>1, <1>8 DEF PhotosInv, PicturesOnTheirWay, Private, Mentions
<1>9. n = Nil \/ (/\ Typed(n) /\ ~Unwritten(n) /\ n.op = q.op /\ n.owner = o /\ n.photo = q.photo
                  /\ n.sent = q.sent /\ n.seen = q.seen)
  <2>1. CASE q.at = Len(Steps(q.op))
    BY <2>1 DEF Advanced
  <2>2. CASE q.at # Len(Steps(q.op))
    <3>1. n = Forward(q)
      BY <2>2 DEF Advanced, Forward
    <3>2. /\ Forward(q).op = q.op /\ Forward(q).owner = o /\ Forward(q).photo = q.photo
          /\ Forward(q).sent = q.sent /\ Forward(q).seen = q.seen
      BY <1>4 DEF Forward, PhotoRequest
    <3> QED BY <1>3, <2>2, <3>1, <3>2
  <2> QED BY <2>1, <2>2
<1> HIDE DEF n, l
\* The other requests are as they were, but for what they have not seen.
<1>10. req'[r] = n /\ DOMAIN req' = Requests
  BY <1>1 DEF n
<1>11. ASSUME NEW s \in Requests, s # r, req'[s] # Nil
       PROVE  /\ req[s] # Nil /\ Typed(req'[s])
              /\ req'[s].op = req[s].op /\ req'[s].owner = req[s].owner /\ req'[s].photo = req[s].photo
              /\ req'[s].sent = req[s].sent /\ req'[s].seen = req[s].seen /\ req'[s].at = req[s].at
              /\ req'[s].fresh => req[s].fresh /\ req[s].owner # o
  <2>1. req'[s] = IF req[s] # Nil /\ req[s].owner = o THEN [req[s] EXCEPT !.fresh = FALSE] ELSE req[s]
    BY <1>1, <1>11
  <2>2. req[s] # Nil
    BY <1>11, <2>1
  <2>3. Typed(req[s])
    BY <2>2, AtWork
  <2>4. CASE req[s].owner = o
    <3> DEFINE m == [req[s] EXCEPT !.fresh = FALSE]
    <3>1. /\ m \in PhotoRequest /\ m.op = req[s].op /\ m.owner = req[s].owner /\ m.photo = req[s].photo
          /\ m.sent = req[s].sent /\ m.seen = req[s].seen /\ m.at = req[s].at /\ m.fresh = FALSE
      BY <2>3 DEF Typed, PhotoRequest
    <3>2. req'[s] = m
      BY <2>1, <2>2, <2>4
    <3> HIDE DEF m
    <3> QED BY <2>2, <2>3, <3>1, <3>2 DEF Typed
  <2>5. CASE req[s].owner # o
    BY <2>1, <2>2, <2>3, <2>5
  <2> QED BY <2>4, <2>5
<1>12. ASSUME NEW s \in Requests, s # r, req'[s] # Nil
       PROVE  /\ StepOf(req'[s]) = StepOf(req[s])
              /\ Unwritten(req'[s]) = Unwritten(req[s])
              /\ HasRead(req'[s]) <=> HasRead(req[s])
              /\ HasPut(req'[s]) <=> HasPut(req[s])
              /\ Mentions(req'[s]) = Mentions(req[s])
              /\ Dropped(req'[s]) = Dropped(req[s])
  <2>1. StepOf(req'[s]) = StepOf(req[s])
    BY <1>11, <1>12 DEF StepOf
  <2>2. NextList(req'[s]) = NextList(req[s])
    BY <1>11, <1>12 DEF NextList
  <2> QED BY <1>11, <1>12, <2>1, <2>2 DEF Unwritten, HasRead, HasPut, Mentions, Dropped
<1>13. \A k \in Keepers : listed'[k] = IF k = o THEN l ELSE listed[k]
  BY <1>1 DEF PhotosInv, PhotosTypeOK
<1>14. stored' = stored /\ taken' = taken /\ made' = made
  BY <1>1
<1>15. PhotosTypeOK'
  <2>1. RequestsOK'
    <3>1. ASSUME NEW s \in Requests, req'[s] # Nil
          PROVE  Typed(req'[s])
      BY <1>9, <1>10, <1>11, <3>1
    <3> QED BY <3>1 DEF RequestsOK, Typed
  <2>2. FormOK'
    BY <1>1, FormHears DEF PhotosInv, PhotosTypeOK
  <2>3. listed' \in [Keepers -> Seq(Photos)]
    BY <1>1, <1>5 DEF PhotosInv, PhotosTypeOK
  <2> QED BY <1>10, <1>14, <2>1, <2>2, <2>3 DEF PhotosInv, PhotosTypeOK
<1>16. NamesAreOwn'
  <2>1. ASSUME NEW p \in Photos, NEW k \in Keepers, Belongs(p, k)'
        PROVE  Belongs(p, k)
    <3>1. CASE p \in Range(listed'[k])
      <4>1. CASE k = o
        BY <1>1, <1>6, <1>13, <3>1, <4>1 DEF Belongs
      <4>2. CASE k # o
        BY <1>13, <3>1, <4>2 DEF Belongs
      <4> QED BY <4>1, <4>2
    <3>2. CASE \E s \in Requests : req'[s] # Nil /\ req'[s].owner = k /\ p \in Mentions(req'[s])
      <4>1. PICK s \in Requests : req'[s] # Nil /\ req'[s].owner = k /\ p \in Mentions(req'[s])
        BY <3>2
      <4>2. req[s] # Nil /\ req[s].owner = k /\ p \in Mentions(req[s])
        <5>1. CASE s = r
          BY <1>1, <1>9, <1>10, <4>1, <5>1 DEF Mentions
        <5>2. CASE s # r
          BY <1>11, <1>12, <4>1, <5>2
        <5> QED BY <5>1, <5>2
      <4> QED BY <4>2 DEF Belongs
    <3> QED BY <2>1, <3>1, <3>2 DEF Belongs, Mentions
  <2> QED BY <1>14, <2>1, NamesStay DEF PhotosInv
<1>17. PicturesOnTheirWay'
  <2>1. ASSUME NEW s \in Requests, OnItsWay(s)'
        PROVE  req'[s].photo \in Photos /\ Private(s)'
    <3> DEFINE p == req[s].photo
    <3>1. s # r
      BY <1>9, <1>10, <2>1 DEF OnItsWay
    <3>2. req'[s].photo = p /\ OnItsWay(s)
      BY <1>11, <1>12, <2>1, <3>1 DEF OnItsWay
    <3>3. p \in Photos /\ Private(s) /\ req[s] # Nil
      BY <3>2 DEF PhotosInv, PicturesOnTheirWay, OnItsWay
    <3>4. p \notin Mentions(q)
      BY <1>8, <3>1, <3>2
    <3>5. \A k \in Keepers : p \notin Range(listed'[k])
      BY <1>6, <1>13, <3>3, <3>4 DEF Private
    <3>6. ASSUME NEW t \in Requests, req'[t] # Nil
          PROVE  p \notin Range(req'[t].seen) /\ p \notin Range(req'[t].sent) /\ (t # s => p # req'[t].photo)
      <4>1. CASE t = r
        BY <1>9, <1>10, <3>4, <3>6, <4>1 DEF Mentions
      <4>2. CASE t # r
        BY <1>11, <3>3, <3>6, <4>2 DEF Private
      <4> QED BY <4>1, <4>2
    <3> QED BY <3>2, <3>3, <3>5, <3>6 DEF Private
  <2> QED BY <2>1, Zenon DEF PicturesOnTheirWay
<1>18. PutIsKept'
  <2>1. ASSUME NEW s \in Requests, req'[s] # Nil, HasPut(req'[s])
        PROVE  req'[s].photo \in stored'
    <3>1. s # r
      BY <1>9, <1>10, <2>1 DEF HasPut, Unwritten
    <3> QED BY <1>11, <1>12, <1>14, <2>1, <3>1 DEF PhotosInv, PutIsKept
  <2> QED BY <2>1, Zenon DEF PutIsKept
<1>19. FreshIsUpToDate'
  <2>1. ASSUME NEW s \in Requests, req'[s] # Nil, req'[s].fresh, Unwritten(req'[s])
        PROVE  Sees(s)'
    <3>1. s # r
      BY <1>9, <1>10, <2>1
    <3>2. req[s] # Nil /\ req[s].fresh /\ Unwritten(req[s]) /\ req[s].owner # o /\ req[s].owner \in Keepers
      BY <1>11, <1>12, <2>1, <3>1, AtWork
    <3>3. Sees(s)
      BY <3>2 DEF PhotosInv, FreshIsUpToDate
    <3> QED BY <1>11, <1>12, <1>13, <2>1, <3>1, <3>2, <3>3 DEF Sees
  <2> QED BY <2>1, Zenon DEF FreshIsUpToDate
<1>20. DropsUnlisted'
  <2>1. ASSUME NEW s \in Requests, req'[s] # Nil, ~Unwritten(req'[s]), req'[s].owner \notin raced'
        PROVE  Dropped(req'[s]) \cap Range(listed'[req'[s].owner]) = {}
    <3>1. CASE s = r
      <4>1. NextList(n) = l
        BY <1>9, <1>10, <2>1, <3>1 DEF NextList, l
      <4>2. listed'[o] = l
        BY <1>2, <1>13
      <4> QED BY <1>9, <1>10, <2>1, <3>1, <4>1, <4>2 DEF Dropped
    <3>2. CASE s # r
      <4>1. /\ req[s] # Nil /\ ~Unwritten(req[s]) /\ req[s].owner \notin raced' /\ req[s].owner \in Keepers
            /\ req'[s].owner = req[s].owner /\ Dropped(req'[s]) = Dropped(req[s])
        BY <1>11, <1>12, <2>1, <3>2, AtWork
      <4>2. Dropped(req[s]) \cap Range(listed[req[s].owner]) = {}
        BY <1>1, <4>1 DEF PhotosInv, DropsUnlisted
      <4>3. CASE req[s].owner # o
        BY <1>13, <4>1, <4>2, <4>3
      <4>4. CASE req[s].owner = o
        <5>1. Range(l) \subseteq Range(listed[o]) \cup Brought(q)
          BY <1>1, <1>7, <4>1, <4>4
        <5>2. Brought(q) \cap Range(req[s].seen) = {}
          BY <1>1, <1>2, <4>1 DEF PhotosInv, PicturesOnTheirWay, OnItsWay, Private, Brought
        <5>3. Dropped(req[s]) \subseteq Range(req[s].seen)
          BY DEF Dropped
        <5> QED BY <1>13, <4>1, <4>2, <4>4, <5>1, <5>2, <5>3
      <4> QED BY <4>3, <4>4
    <3> QED BY <3>1, <3>2
  <2> QED BY <2>1, Zenon DEF DropsUnlisted
<1>21. PhotosExist'
  <2>1. ASSUME NEW k \in Keepers \ raced'
        PROVE  Range(listed'[k]) \subseteq stored'
    <3>1. k \notin raced /\ Range(listed[k]) \subseteq stored
      BY <1>1 DEF PhotosInv, PhotosExist
    <3>2. CASE k # o
      BY <1>13, <1>14, <3>1, <3>2
    <3>3. CASE k = o
      <4>1. Range(l) \subseteq Range(listed[o]) \cup Brought(q)
        BY <1>1, <1>7, <3>3
      <4>2. Brought(q) \subseteq stored
        BY <1>1, <1>3 DEF PhotosInv, PutIsKept, Brought
      <4> QED BY <1>13, <1>14, <3>1, <3>3, <4>1, <4>2
    <3> QED BY <3>2, <3>3
  <2> QED BY <2>1, Zenon DEF PhotosExist
<1> QED BY <1>15, <1>16, <1>17, <1>18, <1>19, <1>20, <1>21 DEF PhotosInv

-----------------------------------------------------------------------------
(* The steps of the form *)

LEMMA UploadStagedKeeps ==
  ASSUME PhotosInv, NEW r \in Requests, UploadStaged(r)
  PROVE  PhotosInv'
<1> DEFINE c == form.saving.category
<1>1. /\ form.saving # Nil /\ c # Nil /\ req[r] = Nil
      /\ UNCHANGED <<made, listed, stored, raced>>
  BY DEF UploadStaged, Free
<1>2. PICK f \in form.saving.left, p \in Photos \ taken :
        /\ req' = [req EXCEPT ![r] = NewRequest("addPhoto", c, p, <<>>)]
        /\ form' = [form EXCEPT !.saving.file = f, !.saving.by = r]
        /\ taken' = taken \cup {p}
  BY DEF UploadStaged
<1>3. form.saving \in Saving
  BY <1>1 DEF PhotosInv, PhotosTypeOK, FormOK
<1>4. c \in Keepers /\ f \in Files
  BY <1>1, <1>3 DEF Saving, Keepers
<1>5. FormOK'
  <2>1. [form.saving EXCEPT !.file = f, !.by = r] \in Saving
    BY <1>3, <1>4 DEF Saving
  <2> QED BY <1>2, <1>3, <2>1 DEF PhotosInv, PhotosTypeOK, FormOK, Saving
<1>6. "addPhoto" \in Brings /\ "addPhoto" \in PhotoOps /\ <<>> \in Seq(Photos) /\ Range(<<>>) = {}
  BY DEF Brings, PhotoOps, Range
<1>7. taken' = taken \cup (IF "addPhoto" \in Brings THEN {p} ELSE {})
  BY <1>2, <1>6
<1> HIDE DEF c
<1> QED BY <1>1, <1>2, <1>4, <1>5, <1>6, <1>7, NewAtStart

LEMMA FormStepKeeps ==
  ASSUME PhotosInv,
         \/ \E f \in Files : Stage(f)
         \/ OpenForm \/ Submit \/ CreateCategory \/ RebuildForm \/ UploadUnheard \/ Refused \/ SavedAll \/ CloseForm
  PROVE  PhotosInv'
<1>1. UNCHANGED <<listed, stored, taken, req, raced>>
  BY DEF Stage, OpenForm, Submit, CreateCategory, RebuildForm, UploadUnheard, Refused, SavedAll, CloseForm
<1>2. made \subseteq Categories /\ FormOK
  BY DEF PhotosInv, PhotosTypeOK
<1>3. Blank \in [open : BOOLEAN, created : Categories \cup {Nil}, staged : SUBSET Files, saving : Saving \cup {Nil},
                 first : BOOLEAN, mine : SUBSET Categories, unheard : BOOLEAN, rebuilt : BOOLEAN]
  BY DEF Blank
<1>4. made' \subseteq Categories /\ FormOK'
  <2>1. CASE \E f \in Files : Stage(f)
    BY <1>2, <2>1 DEF Stage, FormOK
  <2>2. CASE OpenForm
    BY <1>2, <1>3, <2>2 DEF OpenForm, FormOK
  <2>3. CASE Submit
    <3>1. [category |-> form.created, left |-> form.staged, file |-> Nil, by |-> Nil] \in Saving
      BY <1>2 DEF FormOK, Saving
    <3> QED BY <1>2, <2>3, <3>1 DEF Submit, FormOK
  <2>4. CASE CreateCategory
    <3>1. PICK c \in Categories \ made :
            /\ made' = made \cup {c}
            /\ \/ form' = IF form.open THEN Remembered(c) ELSE [form EXCEPT !.saving.category = c]
               \/ form' = [form EXCEPT !.saving = Nil, !.mine = @ \cup {c}, !.unheard = TRUE]
      BY <2>4 DEF CreateCategory
    <3>2. form.saving \in Saving
      BY <1>2, <2>4 DEF CreateCategory, FormOK
    <3>3. [form.saving EXCEPT !.category = c] \in Saving
      BY <3>2 DEF Saving
    <3>4. made' \subseteq Categories
      BY <1>2, <3>1
    <3> DEFINE sv == [form.saving EXCEPT !.category = c]
               more == form.mine \cup {c}
    <3>5. sv \in Saving /\ more \in SUBSET Categories /\ c \in Categories
      BY <1>2, <3>3 DEF FormOK
    <3> HIDE DEF sv, more
    <3>6. \/ form' = [form EXCEPT !.saving = sv, !.created = c, !.mine = more]
          \/ form' = [form EXCEPT !.saving = sv]
          \/ form' = [form EXCEPT !.saving = Nil, !.mine = more, !.unheard = TRUE]
      BY <1>2, <3>1, <3>2 DEF Remembered, FormOK, sv, more
    <3>7. FormOK'
      BY <1>2, <3>5, <3>6 DEF FormOK
    <3> QED BY <3>4, <3>7
  <2>5. CASE RebuildForm
    BY <1>2, <1>3, <2>5 DEF RebuildForm, FormOK, Blank
  <2>6. CASE UploadUnheard \/ Refused
    BY <1>2, <2>6 DEF UploadUnheard, Refused, GaveUp, FormOK
  <2>7. CASE SavedAll \/ CloseForm
    BY <1>2, <1>3, <2>7 DEF SavedAll, CloseForm, FormOK
  <2> QED BY <2>1, <2>2, <2>3, <2>4, <2>5, <2>6, <2>7
<1> QED BY <1>1, <1>4, FormAlone

LEMMA PhotosInvHolds == PhotosSpec => []PhotosInv
<1>1. PhotosInit => PhotosInv
  <2> SUFFICES ASSUME PhotosInit PROVE PhotosInv
    OBVIOUS
  <2>1. /\ made \in {{}} \cup {{c} : c \in Categories}
        /\ listed = [o \in Keepers |-> <<>>]
        /\ stored = {} /\ taken = {} /\ raced = {}
        /\ req = [r \in Requests |-> Nil]
        /\ form = Blank
    BY DEF PhotosInit
  <2>2. <<>> \in Seq(Photos) /\ Range(<<>>) = {}
    BY DEF Range
  <2>3. PhotosTypeOK
    <3>1. FormOK
      BY <2>1 DEF FormOK, Blank
    <3> QED BY <2>1, <2>2, <3>1 DEF PhotosTypeOK, RequestsOK
  <2>4. \A r \in Requests : req[r] = Nil
    BY <2>1
  <2>5. \A o \in Keepers : Range(listed[o]) = {}
    BY <2>1, <2>2
  <2>6. NamesAreOwn
    BY <2>4, <2>5 DEF NamesAreOwn, Belongs
  <2>7. PicturesOnTheirWay /\ PutIsKept /\ FreshIsUpToDate /\ DropsUnlisted
    BY <2>4 DEF PicturesOnTheirWay, OnItsWay, PutIsKept, FreshIsUpToDate, DropsUnlisted
  <2>8. PhotosExist
    BY <2>5 DEF PhotosExist
  <2> QED BY <2>3, <2>6, <2>7, <2>8 DEF PhotosInv
<1>2. PhotosInv /\ [PhotosNext]_photoVars => PhotosInv'
  <2> SUFFICES ASSUME PhotosInv, [PhotosNext]_photoVars PROVE PhotosInv'
    OBVIOUS
  <2>1. CASE UNCHANGED photoVars
    <3>1. UNCHANGED <<listed, stored, taken, req, raced>> /\ made' = made /\ form' = form
      BY <2>1 DEF photoVars
    <3>2. made' \subseteq Categories /\ FormOK'
      BY <3>1 DEF PhotosInv, PhotosTypeOK, FormOK
    <3> QED BY <3>1, <3>2, FormAlone
  <2>2. ASSUME NEW r \in Requests, RequestStep(r)
        PROVE  PhotosInv'
    BY <2>2, ReadListKeeps, PutImageKeeps, PersistPhotosKeeps, DropObjectsKeeps, PhotosFailKeeps DEF RequestStep
  <2>3. ASSUME NEW r \in Requests, Send(r)
        PROVE  PhotosInv'
    BY <2>3, SendPhotoKeeps
  <2>4. ASSUME NEW r \in Requests, UploadStaged(r)
        PROVE  PhotosInv'
    BY <2>4, UploadStagedKeeps
  <2>5. CASE PhotosNext
    BY <2>2, <2>3, <2>4, <2>5, FormStepKeeps, Zenon DEF PhotosNext, ListStep, FormStep
  <2> QED BY <2>1, <2>5
<1> QED BY <1>1, <1>2, PTL DEF PhotosSpec

(***************************************************************************)
(* Wherever a handler stops, and however many categories, requests and     *)
(* pictures there are: a list that no outdated request has overwritten     *)
(* names only pictures the storage has.                                    *)
(***************************************************************************)
THEOREM ListedPicturesExist == PhotosSpec => []PhotosExist
<1>1. PhotosInv => PhotosExist
  BY DEF PhotosInv
<1> QED BY <1>1, PhotosInvHolds, PTL
=============================================================================
