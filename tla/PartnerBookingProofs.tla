------------------------ MODULE PartnerBookingProofs ------------------------
(***************************************************************************)
(* Theorems about the partner's bookings: their creation with a key, for   *)
(* every number of keys, bodies and concurrent calls, and a dispatcher's   *)
(* work with them, for every number of rooms, guests, bookings and calls.  *)
(***************************************************************************)
EXTENDS PartnerBooking, PartnerDesk, RoomPlacesProofs

USE ConstantsAssumption

-----------------------------------------------------------------------------
(* Typing *)

LEMMA TypeInit == Init => TypeOK
BY DEF Init, TypeOK

\* The step of a POST leaves it well-formed and keeps the types of the tables.
LEMMA TypeOfSteps ==
  ASSUME TypeOK, NEW a \in Attempts, Step(a)
  PROVE  TypeOK'
<1>1. att[a] \in Attempt /\ att[a].key \in Keys /\ att[a].body \in Bodies
  BY DEF TypeOK, Attempt, Idle, Step, Early, Preflight, Lock, LockFails, Replay, Allocate,
         Insert, RollBack, BreaksInCommit, After, Recheck, At
<1>2. \A pc \in Pcs : Goes(a, pc) => att' \in [Attempts -> Attempt \cup {Idle}]
  BY <1>1 DEF TypeOK, Attempt, Goes
<1>3. \A err \in Errors : Throws(a, err) => att' \in [Attempts -> Attempt \cup {Idle}]
  <2> SUFFICES ASSUME NEW err \in Errors, Throws(a, err)
               PROVE  att' \in [Attempts -> Attempt \cup {Idle}]
    OBVIOUS
  <2>1. [att[a] EXCEPT !.pc = "recheck", !.err = err] \in Attempt
    BY <1>1 DEF Attempt, Pcs
  <2>2. att' = [att EXCEPT ![a] = [att[a] EXCEPT !.pc = "recheck", !.err = err]]
    BY DEF Throws, TypeOK
  <2> QED BY <2>1, <2>2 DEF TypeOK
<1>4. \A kind \in Kinds : Answers(a, kind) =>
        /\ att' \in [Attempts -> Attempt \cup {Idle}]
        /\ answers' \subseteq [key : Keys, body : Bodies, kind : Kinds]
        /\ unsettled' \in [Keys -> BOOLEAN]
  <2> SUFFICES ASSUME NEW kind \in Kinds, Answers(a, kind)
               PROVE  /\ att' \in [Attempts -> Attempt \cup {Idle}]
                      /\ answers' \subseteq [key : Keys, body : Bodies, kind : Kinds]
                      /\ unsettled' \in [Keys -> BOOLEAN]
    OBVIOUS
  <2>1. att' \in [Attempts -> Attempt \cup {Idle}]
    BY DEF TypeOK, Answers
  <2>2. answers' \subseteq [key : Keys, body : Bodies, kind : Kinds]
    BY <1>1 DEF TypeOK, Answers
  <2>3. (unsettled[att[a].key] \/ kind # "rejected") \in BOOLEAN
    OBVIOUS
  <2>4. PICK u \in BOOLEAN : unsettled' = [unsettled EXCEPT ![att[a].key] = u]
    BY <2>3 DEF Answers
  <2>5. unsettled' \in [Keys -> BOOLEAN]
    BY <2>4 DEF TypeOK
  <2> QED BY <2>1, <2>2, <2>5
<1>5. Unlocks(a) => holder' \in [Keys -> Attempts \cup {None, Limbo}]
  BY DEF TypeOK, Unlocks
<1>6. CASE Early(a)
  BY <1>2, <1>3, <1>4, <1>6 DEF Early, TypeOK, Pcs, Errors, Kinds
<1>7. CASE Preflight(a)
  BY <1>2, <1>3, <1>7 DEF Preflight, TypeOK, Pcs, Errors
<1>8. CASE Lock(a)
  BY <1>1, <1>2, <1>8 DEF Lock, TypeOK, Pcs
<1>9. CASE LockFails(a)
  BY <1>3, <1>9 DEF LockFails, TypeOK, Errors
<1>10. CASE Replay(a)
  BY <1>2, <1>3, <1>4, <1>5, <1>10 DEF Replay, TypeOK, Pcs, Errors, Kinds
<1>11. CASE Allocate(a)
  BY <1>2, <1>3, <1>5, <1>11 DEF Allocate, TypeOK, Pcs, Errors
<1>12. CASE Insert(a)
  BY <1>1, <1>2, <1>3, <1>5, <1>12 DEF Insert, TypeOK, Pcs, Errors
<1>13. CASE RollBack(a)
  BY <1>3, <1>5, <1>13 DEF RollBack, TypeOK, Errors
<1>14. CASE BreaksInCommit(a)
  BY <1>1, <1>3, <1>14 DEF BreaksInCommit, TypeOK, Errors
<1>15. CASE After(a)
  BY <1>3, <1>4, <1>15 DEF After, TypeOK, Errors, Kinds
<1>16. CASE Recheck(a)
  <2>1. PICK kind \in Kinds : Answers(a, kind)
    BY <1>16 DEF Recheck, Kinds
  <2> QED BY <1>4, <1>16, <2>1 DEF Recheck, TypeOK
<1> QED BY <1>6, <1>7, <1>8, <1>9, <1>10, <1>11, <1>12, <1>13, <1>14, <1>15, <1>16 DEF Step

LEMMA TypeStep == TypeOK /\ [Next]_vars => TypeOK'
<1> SUFFICES ASSUME TypeOK, [Next]_vars PROVE TypeOK'
  OBVIOUS
<1>1. CASE UNCHANGED vars
  BY <1>1 DEF vars, TypeOK
<1>2. ASSUME NEW a \in Attempts, Post(a) PROVE TypeOK'
  BY <1>2 DEF Post, TypeOK, Attempt, Pcs, Errors
<1>3. ASSUME NEW k \in Keys, Decide(k) PROVE TypeOK'
  BY <1>3 DEF Decide, TypeOK
<1>4. CASE Crash
  BY <1>4 DEF Crash, TypeOK, InService
<1> QED BY <1>1, <1>2, <1>3, <1>4, TypeOfSteps DEF Next

\* Every call, answer and lock keeps its type, crashes and broken commits included.
THEOREM TypeCorrect == Spec => []TypeOK
BY TypeInit, TypeStep, PTL DEF Spec

-----------------------------------------------------------------------------
(* How the calls move *)

\* The other calls are where they were.
Others(a) == \A c \in Attempts \ {a} : att'[c] = att[c]

\* Call a is still the call it was, and now at pc.
Now(a, pc) == att'[a].pc = pc /\ att'[a].key = att[a].key /\ att'[a].body = att[a].body

\* The three things a step does with its call.
LEMMA Moves ==
  ASSUME TypeOK, NEW a \in Attempts, att[a] \in Attempt
  PROVE  /\ \A pc \in Pcs : Goes(a, pc) =>
              Others(a) /\ Now(a, pc) /\ att'[a].err = att[a].err
         /\ \A err \in Errors : Throws(a, err) =>
              Others(a) /\ Now(a, "recheck") /\ att'[a].err = err
         /\ \A kind \in Kinds : Answers(a, kind) => Others(a) /\ att'[a] = Idle
<1>1. ASSUME NEW pc \in Pcs, Goes(a, pc)
      PROVE  Others(a) /\ Now(a, pc) /\ att'[a].err = att[a].err
  BY <1>1 DEF TypeOK, Attempt, Goes, Others, Now
<1>2. ASSUME NEW err \in Errors, Throws(a, err)
      PROVE  Others(a) /\ Now(a, "recheck") /\ att'[a].err = err
  <2>1. att' = [att EXCEPT ![a] = [att[a] EXCEPT !.pc = "recheck", !.err = err]]
    BY <1>2 DEF Throws, TypeOK
  <2> QED BY <2>1 DEF TypeOK, Attempt, Others, Now
<1>3. ASSUME NEW kind \in Kinds, Answers(a, kind)
      PROVE  Others(a) /\ att'[a] = Idle
  BY <1>3 DEF TypeOK, Answers, Others
<1> QED BY <1>1, <1>2, <1>3

\* A call that is at a place of the code is being served.
LEMMA Serving ==
  ASSUME TypeOK, NEW a \in Attempts, att[a].pc # "idle"
  PROVE  att[a] \in Attempt /\ att[a].key \in Keys /\ att[a].body \in Bodies
BY DEF TypeOK, Attempt, Idle

LEMMA StepServes ==
  ASSUME NEW a \in Attempts, Step(a)
  PROVE  att[a].pc # "idle"
BY DEF Step, Early, Preflight, Lock, LockFails, Replay, Allocate, Insert, RollBack,
       BreaksInCommit, After, Recheck, At

-----------------------------------------------------------------------------
(* The lock *)

LEMMA LockStep ==
  ASSUME TypeOK, LockInv, NEW a \in Attempts, Step(a)
  PROVE  LockInv'
<1> DEFINE k == att[a].key
<1>1. att[a] \in Attempt /\ k \in Keys /\ att[a].body \in Bodies
  BY Serving, StepServes
<1>2. ASSUME NEW pc \in {"preflight", "lock"}, Goes(a, pc), UNCHANGED <<booked, holder, limbo>>
      PROVE  LockInv'
  BY <1>1, <1>2, Moves DEF LockInv, NoRow, Pcs, InTransaction, Others, Now
\* The call leaves the transaction, or was not in it.
<1>3. ASSUME Others(a), att'[a].pc \notin InTransaction, UNCHANGED <<booked, limbo>>,
             UNCHANGED holder \/ (Unlocks(a) /\ holder[k] = a)
      PROVE  LockInv'
  <2>1. ASSUME NEW c \in Attempts, att'[c].pc \in InTransaction
        PROVE  c # a /\ att'[c] = att[c] /\ holder[att[c].key] = c
    BY <1>3, <2>1 DEF LockInv, Others
  <2>2. \A q \in Keys : holder'[q] = IF Unlocks(a) /\ q = k THEN None ELSE holder[q]
    BY <1>3 DEF Unlocks, TypeOK
  <2>3. ASSUME NEW c \in Attempts, att'[c].pc \in InTransaction
        PROVE  holder'[att'[c].key] = c
    <3>1. att[c].key \in Keys
      BY <2>1, <2>3, Serving DEF InTransaction
    <3> QED BY <1>3, <2>1, <2>2, <2>3, <3>1
  <2>4. ASSUME NEW c \in Attempts, att'[c].pc \in {"alloc", "insert"}
        PROVE  NoRow(c)'
    BY <1>3, <2>1, <2>4 DEF LockInv, NoRow, InTransaction
  <2>5. ASSUME NEW q \in Keys, limbo[q] # None
        PROVE  holder'[q] = Limbo /\ booked[q] = None
    BY <1>3, <2>2, <2>5 DEF LockInv
  <2> QED BY <1>3, <2>3, <2>4, <2>5 DEF LockInv
<1>4. /\ \A err \in Errors : Throws(a, err) => Others(a) /\ att'[a].pc \notin InTransaction
      /\ \A kind \in Kinds : Answers(a, kind) => Others(a) /\ att'[a].pc \notin InTransaction
  BY <1>1, Moves DEF Now, Idle, InTransaction
<1>5. att[a].pc \in InTransaction => holder[k] = a
  BY DEF LockInv
<1>6. CASE Early(a)
  BY <1>2, <1>3, <1>4, <1>6 DEF Early, Errors, Kinds
<1>7. CASE Preflight(a)
  BY <1>2, <1>3, <1>4, <1>7 DEF Preflight, Errors
<1>8. CASE Lock(a)
  <2>1. Others(a) /\ Now(a, "replay")
    BY <1>1, <1>8, Moves DEF Lock, Pcs
  <2>2. \A q \in Keys : holder'[q] = IF q = k THEN a ELSE holder[q]
    BY <1>8 DEF Lock, TypeOK
  <2>3. holder[k] = None /\ UNCHANGED <<booked, limbo>>
    BY <1>8 DEF Lock
  <2>4. ASSUME NEW c \in Attempts, att[c].pc # "idle" PROVE att[c].key \in Keys
    BY <2>4, Serving
  <2> QED BY <1>1, <2>1, <2>2, <2>3, <2>4 DEF LockInv, NoRow, InTransaction, Others, Now
<1>9. CASE LockFails(a)
  BY <1>3, <1>4, <1>9 DEF LockFails, Errors
<1>10. CASE Replay(a)
  <2>1. holder[k] = a
    BY <1>5, <1>10 DEF Replay, At, InTransaction
  <2>2. CASE NoRow(a) /\ Goes(a, "alloc") /\ UNCHANGED holder
    BY <1>1, <1>10, <2>1, <2>2, Moves DEF Replay, LockInv, NoRow, Pcs, InTransaction, Others, Now
  <2> QED BY <1>3, <1>4, <1>10, <2>1, <2>2 DEF Replay, Errors, Kinds
<1>11. CASE Allocate(a)
  <2>1. holder[k] = a /\ NoRow(a)
    BY <1>5, <1>11 DEF Allocate, At, InTransaction, LockInv
  <2>2. CASE Goes(a, "insert") /\ UNCHANGED holder
    BY <1>1, <1>11, <2>1, <2>2, Moves DEF Allocate, LockInv, NoRow, Pcs, InTransaction, Others, Now
  <2> QED BY <1>3, <1>4, <1>11, <2>1, <2>2 DEF Allocate, Errors
<1>12. CASE Insert(a)
  <2>1. holder[k] = a /\ NoRow(a)
    BY <1>5, <1>12 DEF Insert, At, InTransaction, LockInv
  <2>2. /\ booked' = [booked EXCEPT ![k] = att[a].body] /\ UNCHANGED limbo
        /\ Others(a) /\ Now(a, "after")
    BY <1>1, <1>12, <2>1, Moves DEF Insert, Pcs
  <2>3. \A q \in Keys : holder'[q] = IF q = k THEN None ELSE holder[q]
    BY <1>12 DEF Insert, Unlocks, TypeOK
  <2>4. ASSUME NEW c \in Attempts, att'[c].pc \in InTransaction
        PROVE  /\ c # a /\ att'[c] = att[c] /\ att[c].key \in Keys \ {k}
               /\ holder[att[c].key] = c
    <3>1. c # a /\ att'[c] = att[c]
      BY <2>2, <2>4 DEF Others, Now, InTransaction
    <3>2. att[c].key \in Keys
      BY <2>4, <3>1, Serving DEF InTransaction
    <3> QED BY <2>1, <2>4, <3>1, <3>2 DEF LockInv
  <2>5. ASSUME NEW c \in Attempts, att'[c].pc \in {"alloc", "insert"}
        PROVE  NoRow(c)'
    BY <2>2, <2>4, <2>5 DEF LockInv, NoRow, InTransaction, TypeOK
  <2>6. ASSUME NEW q \in Keys, limbo[q] # None
        PROVE  holder'[q] = Limbo /\ booked'[q] = None
    BY <1>1, <2>1, <2>2, <2>3, <2>6 DEF LockInv, TypeOK
  <2> QED BY <2>2, <2>3, <2>4, <2>5, <2>6 DEF LockInv
<1>13. CASE RollBack(a)
  BY <1>3, <1>4, <1>5, <1>13 DEF RollBack, Errors, InTransaction
<1>14. CASE BreaksInCommit(a)
  <2>1. holder[k] = a /\ NoRow(a)
    BY <1>5, <1>14 DEF BreaksInCommit, At, InTransaction, LockInv
  <2>2. UNCHANGED booked /\ Others(a) /\ Now(a, "recheck")
    BY <1>1, <1>14, Moves DEF BreaksInCommit, Errors
  <2>3. \A q \in Keys : /\ holder'[q] = IF q = k THEN Limbo ELSE holder[q]
                        /\ limbo'[q] = IF q = k THEN att[a].body ELSE limbo[q]
    BY <1>14 DEF BreaksInCommit, TypeOK
  <2>4. ASSUME NEW c \in Attempts, att'[c].pc \in InTransaction
        PROVE  /\ c # a /\ att'[c] = att[c] /\ att[c].key \in Keys \ {k}
               /\ holder[att[c].key] = c
    <3>1. c # a /\ att'[c] = att[c]
      BY <2>2, <2>4 DEF Others, Now, InTransaction
    <3>2. att[c].key \in Keys
      BY <2>4, <3>1, Serving DEF InTransaction
    <3> QED BY <2>1, <2>4, <3>1, <3>2 DEF LockInv
  <2>5. ASSUME NEW c \in Attempts, att'[c].pc \in {"alloc", "insert"}
        PROVE  NoRow(c)'
    BY <2>2, <2>4, <2>5 DEF LockInv, NoRow, InTransaction
  <2>6. ASSUME NEW q \in Keys, limbo'[q] # None
        PROVE  holder'[q] = Limbo /\ booked'[q] = None
    BY <2>1, <2>2, <2>3, <2>6 DEF LockInv, NoRow
  <2> QED BY <2>3, <2>4, <2>5, <2>6 DEF LockInv
<1>15. CASE After(a)
  BY <1>3, <1>4, <1>15 DEF After, Errors, Kinds
<1>16. CASE Recheck(a)
  <2>1. PICK kind \in Kinds : Answers(a, kind)
    BY <1>16 DEF Recheck, Kinds
  <2> QED BY <1>3, <1>4, <1>16, <2>1 DEF Recheck
<1> QED BY <1>6, <1>7, <1>8, <1>9, <1>10, <1>11, <1>12, <1>13, <1>14, <1>15, <1>16 DEF Step

LEMMA LockNext == TypeOK /\ LockInv /\ [Next]_vars => LockInv'
<1> SUFFICES ASSUME TypeOK, LockInv, [Next]_vars PROVE LockInv'
  OBVIOUS
<1>1. CASE UNCHANGED vars
  BY <1>1 DEF vars, LockInv, NoRow
<1>2. ASSUME NEW a \in Attempts, Post(a) PROVE LockInv'
  BY <1>2 DEF Post, LockInv, NoRow, TypeOK, InTransaction
<1>3. ASSUME NEW k \in Keys, Decide(k) PROVE LockInv'
  BY <1>3 DEF Decide, LockInv, NoRow, TypeOK, InTransaction, Attempt, Idle
<1>4. CASE Crash
  BY <1>4 DEF Crash, LockInv, NoRow, Idle, InTransaction, TypeOK
<1> QED BY <1>1, <1>2, <1>3, <1>4, LockStep DEF Next

LEMMA LockInit == Init => LockInv
BY DEF Init, LockInv, Idle, InTransaction

\* The unique index never has to refuse: calls with one key are serialised by the
\* lock, and the lookup under the lock sees every booking made before.
THEOREM LockProtectsIndex == Spec => []IndexNeverHit
<1>1. LockInv => IndexNeverHit
  BY DEF LockInv, IndexNeverHit, At
<1> QED BY <1>1, TypeInit, TypeStep, LockInit, LockNext, PTL DEF Spec

-----------------------------------------------------------------------------
(* Bookings stay, and the answers are true of them *)

LEMMA BookedStays ==
  ASSUME TypeOK, LockInv, [Next]_vars
  PROVE  \A k \in Keys : booked[k] # None => booked'[k] = booked[k]
<1>1. CASE UNCHANGED vars
  BY <1>1 DEF vars
<1>2. ASSUME NEW a \in Attempts, Insert(a)
      PROVE  \A k \in Keys : booked[k] # None => booked'[k] = booked[k]
  BY <1>2 DEF Insert, NoRow, TypeOK
<1>3. ASSUME NEW k \in Keys, Decide(k)
      PROVE  \A q \in Keys : booked[q] # None => booked'[q] = booked[q]
  BY <1>3 DEF Decide, LockInv, TypeOK
<1>4. CASE UNCHANGED booked
  BY <1>4
<1> QED BY <1>1, <1>2, <1>3, <1>4 DEF Next, Step, Post, Early, Preflight, Lock, LockFails,
           Replay, Allocate, RollBack, BreaksInCommit, After, Recheck, Crash

LEMMA KnowsStep == TypeOK /\ LockInv /\ KnowsInv /\ [Next]_vars => KnowsInv'
<1> SUFFICES ASSUME TypeOK, LockInv, KnowsInv, [Next]_vars PROVE KnowsInv'
  OBVIOUS
<1>1. \A k \in Keys : booked[k] # None => booked'[k] = booked[k]
  BY BookedStays
\* A call that did not move knows what it knew.
<1>2. ASSUME NEW c \in Attempts, att'[c] = att[c]
      PROVE  /\ att'[c].pc = "after" => SameRow(c)'
             /\ att'[c].pc = "recheck" /\ att'[c].err = "conflict" => OtherRow(c)'
  <2>1. CASE att[c].pc = "idle"
    BY <1>2, <2>1
  <2>2. CASE att[c].pc # "idle"
    <3>1. att[c].key \in Keys /\ att[c].body # None
      BY <2>2, Serving
    <3> QED BY <1>1, <1>2, <3>1 DEF KnowsInv, SameRow, OtherRow, NoRow
  <2> QED BY <2>1, <2>2
<1>3. ASSUME NEW a \in Attempts, Step(a) PROVE KnowsInv'
  <2>1. att[a] \in Attempt /\ att[a].key \in Keys /\ att[a].body # None
    BY <1>3, Serving, StepServes
  <2>2. ASSUME Others(a),
               att'[a].pc = "after" => SameRow(a)',
               att'[a].pc = "recheck" /\ att'[a].err = "conflict" => OtherRow(a)'
        PROVE  KnowsInv'
    BY <1>2, <2>2 DEF KnowsInv, Others
  <2>3. ASSUME NEW pc \in Pcs \ {"after", "recheck"}, Goes(a, pc) PROVE KnowsInv'
    BY <2>1, <2>2, <2>3, Moves DEF Now
  <2>4. ASSUME NEW err \in Errors, Throws(a, err), err = "conflict" => OtherRow(a)
        PROVE  KnowsInv'
    <3>1. Others(a) /\ Now(a, "recheck") /\ att'[a].err = err
      BY <2>1, <2>4, Moves
    <3>2. OtherRow(a) => OtherRow(a)'
      BY <1>1, <2>1, <3>1 DEF OtherRow, SameRow, NoRow, Now
    <3> QED BY <2>2, <2>4, <3>1, <3>2 DEF Now
  <2>5. ASSUME NEW kind \in Kinds, Answers(a, kind) PROVE KnowsInv'
    BY <2>1, <2>2, <2>5, Moves DEF Idle
  <2>6. CASE Insert(a)
    <3>1. CASE Goes(a, "after") /\ booked' = [booked EXCEPT ![att[a].key] = att[a].body]
      BY <2>1, <2>2, <3>1, Moves DEF Now, SameRow, TypeOK, Pcs
    <3> QED BY <2>4, <2>6, <3>1 DEF Insert, Errors
  <2>7. CASE Recheck(a)
    <3>1. PICK kind \in Kinds : Answers(a, kind)
      BY <2>7 DEF Recheck, Kinds
    <3> QED BY <2>5, <3>1
  <2>8. CASE Early(a)
    BY <2>3, <2>4, <2>5, <2>8 DEF Early, Pcs, Errors, Kinds
  <2>9. CASE Preflight(a)
    BY <2>3, <2>4, <2>9 DEF Preflight, Pcs, Errors
  <2>10. CASE Lock(a) \/ LockFails(a)
    BY <2>3, <2>4, <2>10 DEF Lock, LockFails, Pcs, Errors
  <2>11. CASE Replay(a)
    BY <2>3, <2>4, <2>5, <2>11 DEF Replay, Pcs, Errors, Kinds
  <2>12. CASE Allocate(a)
    BY <2>3, <2>4, <2>12 DEF Allocate, Pcs, Errors
  <2>13. CASE RollBack(a) \/ BreaksInCommit(a)
    BY <2>4, <2>13 DEF RollBack, BreaksInCommit, Errors
  <2>14. CASE After(a)
    BY <2>4, <2>5, <2>14 DEF After, Errors, Kinds
  <2> QED BY <1>3, <2>6, <2>7, <2>8, <2>9, <2>10, <2>11, <2>12, <2>13, <2>14 DEF Step
<1>4. ASSUME NEW a \in Attempts, Post(a) PROVE KnowsInv'
  <2>1. Others(a) /\ att'[a].pc = "early"
    BY <1>4 DEF Post, Others, TypeOK
  <2> QED BY <1>2, <2>1 DEF KnowsInv, Others
<1>5. ASSUME NEW k \in Keys, Decide(k) PROVE KnowsInv'
  BY <1>2, <1>5 DEF Decide, KnowsInv
<1>6. CASE Crash
  BY <1>6 DEF Crash, KnowsInv, Idle
<1>7. CASE UNCHANGED vars
  BY <1>2, <1>7 DEF vars, KnowsInv
<1> QED BY <1>3, <1>4, <1>5, <1>6, <1>7 DEF Next

LEMMA KnowsInit == Init => KnowsInv
BY DEF Init, KnowsInv, Idle
-----------------------------------------------------------------------------
(* What the partner can conclude from its answers *)

Traced(k) == unsettled[k] \/ \E a \in Attempts : att[a].key = k /\ Bound(a)

\* An answer other than a rejection that arrived leaves the key unsettled.
LEMMA AnswerSettles ==
  ASSUME TypeOK, NEW a \in Attempts, att[a].key \in Keys, NEW kind \in Kinds, Answers(a, kind)
  PROVE  /\ \A k \in Keys : unsettled[k] => unsettled'[k]
         /\ kind # "rejected" => unsettled'[att[a].key]
<1> DEFINE k == att[a].key
<1>1. (unsettled[k] \/ kind # "rejected") \in BOOLEAN
  OBVIOUS
<1>2. PICK u \in BOOLEAN : /\ unsettled' = [unsettled EXCEPT ![k] = u]
                           /\ unsettled[k] \/ kind # "rejected" => u
  BY <1>1 DEF Answers
<1> QED BY <1>2 DEF TypeOK

LEMMA UnsettledStep ==
  ASSUME TypeOK, LockInv, KnowsInv, UnsettledInv, NEW a \in Attempts, Step(a)
  PROVE  UnsettledInv'
<1> DEFINE k == att[a].key
<1>1. att[a] \in Attempt /\ k \in Keys /\ att[a].body # None
  BY Serving, StepServes
<1>2. UnsettledInv = \A q \in Keys : booked[q] # None \/ limbo[q] # None => Traced(q)
  BY DEF UnsettledInv, Traced
<1>3. UnsettledInv' = \A q \in Keys : booked'[q] # None \/ limbo'[q] # None => Traced(q)'
  BY DEF UnsettledInv, Traced
\* A step that keeps the call bound, or had not bound it, loses no trace.
<1>4. ASSUME Others(a), \A q \in Keys : unsettled[q] => unsettled'[q],
             Bound(a) => unsettled'[k] \/ (att'[a].key = k /\ Bound(a)'),
             NEW q \in Keys, Traced(q)
      PROVE  Traced(q)'
  <2>1. CASE unsettled[q]
    BY <1>4, <2>1 DEF Traced
  <2>2. ASSUME NEW c \in Attempts, att[c].key = q, Bound(c)
        PROVE  Traced(q)'
    <3>1. CASE c = a
      BY <1>4, <2>2, <3>1 DEF Traced
    <3>2. CASE c # a
      <4>1. att'[c].key = q /\ Bound(c)'
        BY <1>4, <2>2, <3>2 DEF Others, Bound
      <4> QED BY <4>1 DEF Traced
    <3> QED BY <3>1, <3>2
  <2> QED BY <1>4, <2>1, <2>2 DEF Traced
<1>5. ASSUME NEW pc \in Pcs, Goes(a, pc), ~Bound(a), UNCHANGED <<booked, limbo, unsettled>>
      PROVE  UnsettledInv'
  <2>1. Others(a)
    BY <1>1, <1>5, Moves
  <2> QED BY <1>2, <1>3, <1>4, <1>5, <2>1
<1>6. ASSUME NEW err \in Errors, Throws(a, err), err = "unknown" \/ ~Bound(a),
             UNCHANGED <<booked, limbo, unsettled>>
      PROVE  UnsettledInv'
  <2>1. Others(a) /\ att'[a].key = k /\ att'[a].pc = "recheck" /\ att'[a].err = err
    BY <1>1, <1>6, Moves DEF Now
  <2>2. Bound(a) => Bound(a)'
    BY <1>6, <2>1 DEF Bound
  <2> QED BY <1>2, <1>3, <1>4, <1>6, <2>1, <2>2
<1>7. ASSUME NEW kind \in Kinds, Answers(a, kind), kind # "rejected" \/ ~Bound(a),
             UNCHANGED <<booked, limbo>>
      PROVE  UnsettledInv'
  <2>1. Others(a)
    BY <1>1, <1>7, Moves
  <2> QED BY <1>1, <1>2, <1>3, <1>4, <1>7, <2>1, AnswerSettles
<1>8. CASE Early(a)
  <2>1. ~Bound(a)
    BY <1>8 DEF Early, At, Bound
  <2> QED BY <1>5, <1>6, <1>7, <1>8, <2>1 DEF Early, Pcs, Errors, Kinds
<1>9. CASE Preflight(a)
  <2>1. ~Bound(a)
    BY <1>9 DEF Preflight, At, Bound
  <2> QED BY <1>5, <1>6, <1>9, <2>1 DEF Preflight, Pcs, Errors
<1>10. CASE Lock(a) \/ LockFails(a)
  <2>1. ~Bound(a)
    BY <1>10 DEF Lock, LockFails, At, Bound
  <2> QED BY <1>5, <1>6, <1>10, <2>1 DEF Lock, LockFails, Pcs, Errors
<1>11. CASE Replay(a)
  <2>1. ~Bound(a)
    BY <1>11 DEF Replay, At, Bound
  <2> QED BY <1>5, <1>6, <1>7, <1>11, <2>1 DEF Replay, Pcs, Errors, Kinds
<1>12. CASE Allocate(a)
  <2>1. ~Bound(a)
    BY <1>12 DEF Allocate, At, Bound
  <2> QED BY <1>5, <1>6, <1>12, <2>1 DEF Allocate, Pcs, Errors
<1>13. CASE RollBack(a)
  <2>1. ~Bound(a)
    BY <1>13 DEF RollBack, Bound
  <2> QED BY <1>6, <1>13, <2>1 DEF RollBack, Errors
\* A step that makes a row, or sends one to limbo, traces it.
<1>18. ASSUME Others(a), ~Bound(a), UNCHANGED unsettled, att'[a].key = k, Bound(a)',
              \A q \in Keys \ {k} : booked'[q] = booked[q] /\ limbo'[q] = limbo[q]
       PROVE  UnsettledInv'
  <2>1. ASSUME NEW q \in Keys \ {k}, booked'[q] # None \/ limbo'[q] # None
        PROVE  Traced(q)'
    <3>1. Traced(q)
      BY <1>2, <1>18, <2>1
    <3> QED BY <1>4, <1>18, <3>1
  <2>2. ASSUME NEW q \in Keys, booked'[q] # None \/ limbo'[q] # None
        PROVE  Traced(q)'
    <3>1. CASE q = k
      BY <1>18, <3>1 DEF Traced
    <3>2. CASE q # k
      BY <2>1, <2>2, <3>2
    <3> QED BY <3>1, <3>2
  <2> QED BY <1>3, <2>2
<1>14. CASE Insert(a)
  <2>1. ~Bound(a)
    BY <1>14 DEF Insert, At, Bound
  <2>2. CASE Goes(a, "after") /\ booked' = [booked EXCEPT ![k] = att[a].body]
    <3>1. Others(a) /\ Now(a, "after")
      BY <1>1, <2>2, Moves DEF Pcs
    <3>2. Bound(a)' /\ att'[a].key = k
      BY <3>1 DEF Bound, Now
    <3>3. \A q \in Keys \ {k} : booked'[q] = booked[q]
      BY <2>2 DEF TypeOK
    <3>4. UNCHANGED <<limbo, unsettled>>
      BY <1>14 DEF Insert
    <3> QED BY <1>18, <2>1, <3>1, <3>2, <3>3, <3>4
  <2> QED BY <1>6, <1>14, <2>1, <2>2 DEF Insert, Errors
<1>15. CASE BreaksInCommit(a)
  <2>1. ~Bound(a) /\ UNCHANGED <<booked, unsettled>>
    BY <1>15 DEF BreaksInCommit, At, Bound
  <2>2. Others(a) /\ Now(a, "recheck") /\ att'[a].err = "unknown"
    BY <1>1, <1>15, Moves DEF BreaksInCommit, Errors
  <2>3. Bound(a)' /\ att'[a].key = k
    BY <2>2 DEF Bound, Now
  <2>4. \A q \in Keys \ {k} : limbo'[q] = limbo[q]
    BY <1>15 DEF BreaksInCommit, TypeOK
  <2> QED BY <1>18, <2>1, <2>2, <2>3, <2>4
<1>16. CASE After(a)
  BY <1>6, <1>7, <1>16 DEF After, Errors, Kinds
<1>17. CASE Recheck(a)
  <2>1. PICK kind \in Kinds : Answers(a, kind) /\ (kind = "rejected" => Rejected(att[a].err))
    BY <1>17 DEF Recheck, Kinds
  <2>2. Bound(a) => ~Rejected(att[a].err)
    BY <1>17 DEF Recheck, At, Bound, Rejected
  <2> QED BY <1>7, <1>17, <2>1, <2>2 DEF Recheck
<1> QED BY <1>8, <1>9, <1>10, <1>11, <1>12, <1>13, <1>14, <1>15, <1>16, <1>17 DEF Step

LEMMA UnsettledNext == TypeOK /\ LockInv /\ KnowsInv /\ UnsettledInv /\ [Next]_vars => UnsettledInv'
<1> SUFFICES ASSUME TypeOK, LockInv, KnowsInv, UnsettledInv, [Next]_vars PROVE UnsettledInv'
  OBVIOUS
<1>1. ASSUME NEW a \in Attempts, Post(a) PROVE UnsettledInv'
  <2>1. Others(a) /\ ~Bound(a) /\ UNCHANGED <<booked, limbo, unsettled>>
    BY <1>1 DEF Post, Others, TypeOK, Bound, Idle
  <2> QED BY <2>1 DEF UnsettledInv, Others, Bound
<1>2. ASSUME NEW k \in Keys, Decide(k) PROVE UnsettledInv'
  <2>1. \A q \in Keys : booked'[q] # None \/ limbo'[q] # None =>
                         booked[q] # None \/ limbo[q] # None
    BY <1>2 DEF Decide, TypeOK
  <2> QED BY <1>2, <2>1 DEF Decide, UnsettledInv, Bound
<1>3. CASE Crash
  <2>1. ASSUME NEW k \in Keys, NEW a \in Attempts, att[a].key = k, Bound(a)
        PROVE  unsettled'[k]
    <3>1. InService(k)
      BY <2>1 DEF InService, Bound
    <3> QED BY <1>3, <3>1 DEF Crash
  <2>2. \A k \in Keys : unsettled[k] => unsettled'[k]
    BY <1>3 DEF Crash
  <2> QED BY <1>3, <2>1, <2>2 DEF Crash, UnsettledInv
<1>4. CASE UNCHANGED vars
  BY <1>4 DEF vars, UnsettledInv, Bound
<1> QED BY <1>1, <1>2, <1>3, <1>4, UnsettledStep DEF Next

LEMMA Inductive == /\ Init => Inv
                   /\ Inv /\ [Next]_vars => Inv'
<1>1. Init => UnsettledInv
  BY DEF Init, UnsettledInv
<1> QED BY <1>1, TypeInit, TypeStep, LockInit, LockNext, KnowsInit, KnowsStep, UnsettledNext DEF Inv

\* A partner all of whose calls with a key were answered with the code
\* RESERVATION_CREATE_REJECTED, and that has none outstanding, has no booking
\* under that key.
THEOREM RejectionsAreFinal == Spec => []RejectionIsFinal
<1>1. Inv => RejectionIsFinal
  <2> SUFFICES ASSUME Inv, NEW k \in Keys, ~unsettled[k], ~InService(k)
               PROVE  booked[k] = None
    BY DEF RejectionIsFinal
  <2>1. ASSUME NEW a \in Attempts, att[a].key = k, Bound(a) PROVE FALSE
    BY <2>1 DEF InService, Bound
  <2> QED BY <2>1 DEF Inv, UnsettledInv
<1> QED BY <1>1, Inductive, PTL DEF Spec
-----------------------------------------------------------------------------
(* The promise of the header *)

Kept == Promise!Next \/ UNCHANGED <<booked, answers>>

\* An answer that is true, received or not, is a step of the promise.
LEMMA TrueAnswerKeeps ==
  ASSUME NEW a \in Attempts, att[a] \in Attempt, NEW kind \in Kinds, Answers(a, kind),
         Promise!True(att[a].key, att[a].body, kind), UNCHANGED booked
  PROVE  Kept
<1> DEFINE k == att[a].key
           b == att[a].body
<1>1. k \in Keys /\ b \in Bodies /\ kind \in Promise!Kinds
  BY DEF Attempt, Kinds, Promise!Kinds
<1>2. CASE answers' = answers
  BY <1>2 DEF Kept
<1>3. CASE answers' = answers \cup {[key |-> k, body |-> b, kind |-> kind]}
  <2>1. Promise!Answer
    BY <1>1, <1>3 DEF Promise!Answer
  <2> QED BY <2>1 DEF Kept, Promise!Next
<1> QED BY <1>2, <1>3 DEF Answers

\* The answers the code gives are true.
LEMMA StepKeeps ==
  ASSUME TypeOK, LockInv, KnowsInv, NEW a \in Attempts, Step(a)
  PROVE  Kept
<1>1. att[a] \in Attempt /\ att[a].key \in Keys /\ att[a].body \in Bodies /\ att[a].body # None
  BY Serving, StepServes DEF Attempt
<1>2. ASSUME SameRow(a), Answers(a, "ok"), UNCHANGED booked PROVE Kept
  <2>1. Promise!True(att[a].key, att[a].body, "ok")
    BY <1>2 DEF Promise!True, SameRow
  <2> QED BY <1>1, <1>2, <2>1, TrueAnswerKeeps DEF Kinds
<1>3. ASSUME OtherRow(a), Answers(a, "conflict"), UNCHANGED booked PROVE Kept
  <2>1. Promise!True(att[a].key, att[a].body, "conflict")
    BY <1>3 DEF Promise!True, OtherRow, SameRow, NoRow
  <2> QED BY <1>1, <1>3, <2>1, TrueAnswerKeeps DEF Kinds
<1>4. ASSUME NoRow(a), Answers(a, "rejected"), UNCHANGED booked PROVE Kept
  <2>1. Promise!True(att[a].key, att[a].body, "rejected")
    BY <1>4 DEF Promise!True, NoRow
  <2> QED BY <1>1, <1>4, <2>1, TrueAnswerKeeps DEF Kinds
<1>5. ASSUME Answers(a, "error"), UNCHANGED booked PROVE Kept
  <2>1. Promise!True(att[a].key, att[a].body, "error")
    BY DEF Promise!True
  <2> QED BY <1>1, <1>5, <2>1, TrueAnswerKeeps DEF Kinds
<1>6. CASE UNCHANGED <<booked, answers>>
  BY <1>6 DEF Kept
<1>7. CASE Early(a)
  BY <1>2, <1>6, <1>7 DEF Early
<1>8. CASE Replay(a)
  BY <1>2, <1>6, <1>8 DEF Replay
<1>9. CASE Insert(a)
  <2>1. CASE NoRow(a) /\ booked' = [booked EXCEPT ![att[a].key] = att[a].body]
    <3>1. Promise!Book
      BY <1>1, <1>9, <2>1 DEF Promise!Book, Insert, NoRow
    <3> QED BY <3>1 DEF Kept, Promise!Next
  <2> QED BY <1>6, <1>9, <2>1 DEF Insert
<1>10. CASE After(a)
  <2>1. SameRow(a)
    BY <1>10 DEF After, At, KnowsInv
  <2> QED BY <1>2, <1>6, <1>10, <2>1 DEF After
<1>11. CASE Recheck(a)
  <2>1. att[a].err = "conflict" => OtherRow(a)
    BY <1>11 DEF Recheck, At, KnowsInv
  <2>2. NoRow(a) => att[a].err # "conflict"
    BY <2>1 DEF OtherRow
  <2> QED BY <1>2, <1>3, <1>4, <1>5, <1>11, <2>2 DEF Recheck
<1> QED BY <1>6, <1>7, <1>8, <1>9, <1>10, <1>11
        DEF Step, Preflight, Lock, LockFails, Allocate, RollBack, BreaksInCommit

LEMMA NextKeeps == Inv /\ [Next]_vars => Kept
<1> SUFFICES ASSUME Inv, [Next]_vars PROVE Kept
  OBVIOUS
<1>1. ASSUME NEW a \in Attempts, Step(a) PROVE Kept
  BY <1>1, StepKeeps DEF Inv
<1>2. ASSUME NEW k \in Keys, Decide(k) PROVE Kept
  <2>1. limbo[k] \in Bodies /\ booked[k] = None
    BY <1>2 DEF Decide, Inv, TypeOK, LockInv
  <2>2. CASE booked' = [booked EXCEPT ![k] = limbo[k]]
    <3>1. Promise!Book
      BY <1>2, <2>1, <2>2 DEF Promise!Book, Decide
    <3> QED BY <3>1 DEF Kept, Promise!Next
  <2> QED BY <1>2, <2>2 DEF Decide, Kept
<1>3. CASE UNCHANGED <<booked, answers>>
  BY <1>3 DEF Kept
<1> QED BY <1>1, <1>2, <1>3 DEF Next, Post, Crash, vars

\* The lookups, the lock, the index and the last look of the error handler together
\* keep the promise of X-Idempotency-Key: a key never stands for two bookings, and
\* each answer is true of the booking when it is given.
THEOREM KeepsPromise == Spec => PromiseKept
<1>1. Init => Promise!Init
  BY DEF Init, Promise!Init
<1>2. Inv /\ [Next]_vars => [Promise!Next]_<<booked, answers>>
  BY NextKeeps DEF Kept
<1> QED BY <1>1, <1>2, Inductive, PTL DEF Spec, PromiseKept, Promise!Spec

-----------------------------------------------------------------------------
(***************************************************************************)
(* The dispatcher of the partner (PartnerDesk).  First the types: a call   *)
(* is of one of four kinds, and what it is about is in the book.           *)
(***************************************************************************)
Finding ==
  [op : {"book"}, step : {"shown", "choose", "create", "refused"}, stay : Visits, guests : PartySizes,
   room : Rooms \cup {Nothing}, rooms : SUBSET Rooms, fresh : BOOLEAN]
Changing ==
  [op : {"change"}, step : {"write", "refused"}, b : Bookings, version : Nat, room : Rooms \cup {Nothing}, stay : Visits]
Reporting ==
  [op : {"fact"}, step : {"write", "refused"}, b : Bookings, fact : DOMAIN FactFrom, owes : BOOLEAN]
Portions == [b : Bookings, day : UNION Orders, order : Orders]
Ordering ==
  [op : {"meals"}, step : {"erase", "insert", "refused"}, b : Bookings, days : Orders, erased : SUBSET Portions]
CallOf == Finding \cup Changing \cup Reporting \cup Ordering \cup {Nothing}

Of(w, ops) == call[w] # Nothing /\ call[w].op \in ops

DeskTypeOK ==
  /\ multiPlace \in BOOLEAN /\ open \subseteq Rooms
  /\ rows \in [Bookings -> BookRow \cup {Nothing}]
  /\ meals \subseteq Portions /\ mixed \subseteq Bookings
  /\ call \in [Calls -> CallOf]
  /\ \A w \in Calls : Of(w, {"change", "fact"}) => rows[call[w].b] \in BookRow

LEMMA DeskTypeInit == ASSUME DeskAssumption PROVE DeskInit => DeskTypeOK
<1> SUFFICES ASSUME DeskInit PROVE DeskTypeOK
  OBVIOUS
<1>1. \A w \in Calls : call[w] = Nothing
  BY DEF DeskInit
<1>2. call \in [Calls -> CallOf]
  BY DEF DeskInit, CallOf
<1>3. rows \in [Bookings -> BookRow \cup {Nothing}]
  BY DEF DeskInit, DeskAssumption
<1> QED BY <1>1, <1>2, <1>3 DEF DeskInit, DeskTypeOK, Of

\* The name of a call tells its kind.
LEMMA KindOfCall ==
  ASSUME NEW c \in CallOf, c # Nothing
  PROVE  /\ c.op = "book" => c \in Finding
         /\ c.op = "change" => c \in Changing
         /\ c.op = "fact" => c \in Reporting
         /\ c.op = "meals" => c \in Ordering
BY DEF CallOf, Finding, Changing, Reporting, Ordering

\* What has changed in the house makes old what a call was shown, and nothing else of any call.
LEMMA OutdatedCalls ==
  ASSUME DeskTypeOK, NEW w \in Calls
  PROVE  /\ Outdated[w] \in CallOf
         /\ Of(w, {"change", "fact", "meals"}) => Outdated[w] = call[w]
         /\ call[w] = Nothing => Outdated[w] = Nothing
         /\ Of(w, {"book"}) => Outdated[w] = [call[w] EXCEPT !.fresh = FALSE]
<1>1. call[w] \in CallOf
  BY DEF DeskTypeOK
<1>2. Outdated[w] = IF Of(w, {"book"}) THEN [call[w] EXCEPT !.fresh = FALSE] ELSE call[w]
  BY DEF Outdated, Of
<1>3. ASSUME Of(w, {"book"}) PROVE [call[w] EXCEPT !.fresh = FALSE] \in CallOf
  <2>1. call[w] \in Finding
    BY <1>1, <1>3, KindOfCall DEF Of
  <2> QED BY <2>1 DEF CallOf, Finding
<1> QED BY <1>1, <1>2, <1>3 DEF Of

\* A place that is looked for in a room is a number.
LEMMA AllocatedInt ==
  ASSUME DeskAssumption, DeskTypeOK, NEW room \in Rooms, NEW s \in Visits, NEW g \in PartySizes, NEW self
  PROVE  Allocated(room, s, g, self) \in Int
<1>1. Capacity[room] \in Nat /\ multiPlace \in BOOLEAN /\ g \in Nat \ {0}
  BY DEF DeskAssumption, DeskTypeOK
<1> QED BY <1>1, AllocateType DEF Allocated

LEMMA FreshTyped ==
  ASSUME DeskAssumption, DeskTypeOK, NEW room \in Rooms, NEW s \in Visits, NEW g \in PartySizes, NEW p \in BOOLEAN
  PROVE  Fresh(room, Allocated(room, s, g, Nothing), s, g, p) \in BookRow
<1>1. Allocated(room, s, g, Nothing) \in Int
  BY AllocatedInt
<1> QED BY <1>1 DEF Fresh, BookRow, Visits, RowStatuses

LEMMA MovedTyped ==
  ASSUME DeskAssumption, DeskTypeOK, NEW b \in Bookings, rows[b] \in BookRow, NEW room \in Rooms, NEW s \in Visits
  PROVE  Moved(b, room, s) \in BookRow
<1>1. rows[b].place \in Int /\ rows[b].guests \in PartySizes /\ rows[b].version + 1 \in Nat
  BY DEF BookRow
<1>2. Allocated(room, s, rows[b].guests, b) \in Int
  BY <1>1, AllocatedInt
<1>3. Resolved(b, room, s) \in Int
  BY <1>1, <1>2, Zenon DEF Resolved
<1> DEFINE place == Resolved(b, room, s)
<1>4. Moved(b, room, s) = [rows[b] EXCEPT !.room = room, !.from = s.from, !.to = s.to,
                                            !.place = place, !.version = rows[b].version + 1]
  BY DEF Moved
<1>5. s.from \in Dates /\ s.to \in Dates /\ place \in Int
  BY <1>3 DEF Visits
<1> HIDE DEF place
<1>6. [rows[b] EXCEPT !.room = room, !.from = s.from, !.to = s.to,
                      !.place = place, !.version = rows[b].version + 1] \in BookRow
  BY <1>1, <1>5 DEF BookRow
<1> QED BY <1>4, <1>6

LEMMA StatusTyped ==
  ASSUME NEW b \in Bookings, rows[b] \in BookRow, NEW status \in RowStatuses
  PROVE  WithStatus(b, status) \in BookRow
<1>1. PICK v \in Nat : v = rows[b].version + 1
  BY DEF BookRow
<1>2. [rows[b] EXCEPT !.status = status, !.version = v] \in BookRow
  BY DEF BookRow
<1> QED BY <1>1, <1>2 DEF WithStatus

\* A row is written: the calls under way are what they were, but old.
LEMMA WroteTyped ==
  ASSUME DeskTypeOK, NEW b \in Bookings, NEW row \in BookRow, Wrote(b, row),
         call' = Outdated \/ \E w \in Calls : EndsCall(w)
  PROVE  DeskTypeOK'
<1>1. rows' \in [Bookings -> BookRow \cup {Nothing}] /\ rows'[b] = row /\ \A x \in Bookings : x # b => rows'[x] = rows[x]
  BY DEF DeskTypeOK, Wrote
<1>2. DOMAIN Outdated = Calls /\ \A v \in Calls : Outdated[v] \in CallOf
  BY OutdatedCalls DEF Outdated
<1>3. call' \in [Calls -> CallOf] /\ \A v \in Calls : call'[v] \in {Outdated[v], Nothing}
  BY <1>2 DEF EndsCall, CallOf, Outdated
<1>4. ASSUME NEW v \in Calls, Of(v, {"change", "fact"})' PROVE rows'[call'[v].b] \in BookRow
  <2>1. call'[v] = Outdated[v] /\ Outdated[v] # Nothing /\ Outdated[v].op \in {"change", "fact"}
    BY <1>3, <1>4 DEF Of
  <2>2. call[v] \in CallOf /\ call[v] # Nothing
    BY <2>1, OutdatedCalls DEF DeskTypeOK
  <2>3. call[v].op # "book"
    <3> SUFFICES ASSUME call[v].op = "book" PROVE FALSE
      OBVIOUS
    <3>1. call[v] \in Finding /\ Outdated[v] = [call[v] EXCEPT !.fresh = FALSE]
      BY <2>2, KindOfCall, OutdatedCalls DEF Of
    <3> QED BY <3>1, <2>1 DEF Finding
  <2>4. Outdated[v] = call[v]
    BY <2>3 DEF Outdated
  <2>5. Of(v, {"change", "fact"})
    BY <2>1, <2>4 DEF Of
  <2>6. call[v].b \in Bookings /\ rows[call[v].b] \in BookRow
    BY <2>2, <2>5, KindOfCall DEF Of, DeskTypeOK, Changing, Reporting
  <2> QED BY <1>1, <2>1, <2>4, <2>6
<1> QED BY <1>1, <1>3, <1>4 DEF DeskTypeOK, Wrote

\* A room closes or opens.
LEMMA RoomsTyped ==
  ASSUME DeskTypeOK, open' \subseteq Rooms, call' = Outdated, UNCHANGED <<multiPlace, shut, rows, meals, mixed>>
  PROVE  DeskTypeOK'
<1>1. DOMAIN Outdated = Calls /\ \A v \in Calls : Outdated[v] \in CallOf
  BY OutdatedCalls DEF Outdated
<1>2. call' \in [Calls -> CallOf]
  BY <1>1 DEF Outdated
<1>3. ASSUME NEW v \in Calls, Of(v, {"change", "fact"})' PROVE rows'[call'[v].b] \in BookRow
  <2>1. call'[v] = Outdated[v] /\ Outdated[v] # Nothing /\ Outdated[v].op \in {"change", "fact"}
    BY <1>3 DEF Of
  <2>2. call[v] \in CallOf /\ call[v] # Nothing
    BY <2>1, OutdatedCalls DEF DeskTypeOK
  <2>3. call[v].op # "book"
    <3> SUFFICES ASSUME call[v].op = "book" PROVE FALSE
      OBVIOUS
    <3>1. call[v] \in Finding /\ Outdated[v] = [call[v] EXCEPT !.fresh = FALSE]
      BY <2>2, KindOfCall, OutdatedCalls DEF Of
    <3> QED BY <3>1, <2>1 DEF Finding
  <2>4. Outdated[v] = call[v]
    BY <2>3 DEF Outdated
  <2> QED BY <2>1, <2>4 DEF Of, DeskTypeOK
<1> QED BY <1>2, <1>3 DEF DeskTypeOK

\* A call goes on to c; of the house only the meals change.
LEMMA CallTyped ==
  ASSUME DeskTypeOK, NEW w \in Calls, NEW c \in CallOf, Puts(w, c),
         c # Nothing /\ c.op \in {"change", "fact"} => rows[c.b] \in BookRow,
         UNCHANGED <<multiPlace, open, rows>>, meals' \subseteq Portions, mixed' \subseteq Bookings
  PROVE  DeskTypeOK'
<1>1. call' \in [Calls -> CallOf] /\ call'[w] = c /\ \A v \in Calls : v # w => call'[v] = call[v]
  BY DEF Puts, DeskTypeOK
<1>2. \A v \in Calls : Of(v, {"change", "fact"})' => rows'[call'[v].b] \in BookRow
  BY <1>1 DEF Of, DeskTypeOK
<1> QED BY <1>1, <1>2 DEF DeskTypeOK

LEMMA RefusalTyped ==
  ASSUME DeskTypeOK, NEW w \in Calls, call[w] # Nothing, Refused(w), Reads
  PROVE  DeskTypeOK'
<1> DEFINE c == [call[w] EXCEPT !.step = "refused"]
<1>1. call[w] \in CallOf
  BY DEF DeskTypeOK
<1>2. c \in CallOf /\ c.op = call[w].op /\ (call[w].op \in {"change", "fact"} => c.b = call[w].b)
  BY <1>1, KindOfCall DEF CallOf, Finding, Changing, Reporting, Ordering
<1>3. Puts(w, c)
  BY DEF Refused
<1>4. c.op \in {"change", "fact"} => rows[c.b] \in BookRow
  BY <1>2 DEF DeskTypeOK, Of
<1> HIDE DEF c
<1> QED BY <1>2, <1>3, <1>4, CallTyped DEF Reads, DeskTypeOK

(***************************************************************************)
(* What was shown to a call that is not old still holds: the rooms of its  *)
(* list have a place, and the room that was chosen has one for the party.  *)
(***************************************************************************)
Fits(r, s, guests) == r \in open /\ RoomFitsByPlaces(r, s, guests)
DeskRooms ==
  \A w \in Calls : Of(w, {"book"}) /\ call[w].fresh =>
    /\ \A r \in call[w].rooms : Fits(r, call[w].stay, 1)
    /\ call[w].step = "create" => Fits(call[w].room, call[w].stay, call[w].guests)

\* What a party of c guests may count on: a room of the list, in words of RefusedOnlyIfChanged.
Owed(c) ==
  /\ IF c.room = Nothing THEN c.rooms # {} ELSE c.room \in c.rooms
  /\ c.guests <= MaxOccupancy /\ (c.guests = 1 \/ ~multiPlace)

OrdersMeals(w) == Of(w, {"meals"}) /\ call[w].step # "refused"
DeskMeals ==
  /\ \A v, w \in Calls : OrdersMeals(v) /\ OrdersMeals(w) /\ call[v].b = call[w].b /\ call[v].b \notin mixed => v = w
  /\ \A w \in Calls : OrdersMeals(w) /\ call[w].step = "insert" =>
       /\ \A m \in call[w].erased : m.b = call[w].b
       /\ call[w].b \notin mixed => Erased(call[w].b) \subseteq call[w].erased
  /\ MealsAreOneOrder

LEMMA HouseKeeps ==
  ASSUME DeskTypeOK, DeskRooms, DeskMeals, RefusedOnlyIfChanged, UNCHANGED <<meals, mixed>>,
         \A v \in Calls : call'[v] \in {Outdated[v], Nothing}
  PROVE  DeskRooms' /\ DeskMeals' /\ RefusedOnlyIfChanged'
<1>1. ASSUME NEW v \in Calls, call'[v] # Nothing
      PROVE  /\ call'[v].op = "book" => ~call'[v].fresh
             /\ call'[v].op # "book" => call'[v] = call[v]
  <2>1. call[v] \in CallOf /\ call[v] # Nothing /\ call'[v] = Outdated[v]
    BY <1>1, OutdatedCalls DEF DeskTypeOK
  <2>2. CASE call[v].op = "book"
    <3>1. call[v] \in Finding /\ Outdated[v] = [call[v] EXCEPT !.fresh = FALSE]
      BY <2>1, <2>2, KindOfCall, OutdatedCalls DEF Of
    <3> QED BY <3>1, <2>1 DEF Finding
  <2>3. CASE call[v].op # "book"
    BY <2>1, <2>3 DEF Outdated
  <2> QED BY <2>2, <2>3
<1>2. DeskRooms'
  BY <1>1 DEF DeskRooms, Of
<1>3. RefusedOnlyIfChanged'
  BY <1>1 DEF RefusedOnlyIfChanged, AtStep
<1>4. \A v \in Calls : OrdersMeals(v)' => OrdersMeals(v) /\ call'[v] = call[v]
  BY <1>1 DEF OrdersMeals, Of
<1>5. DeskMeals'
  <2>1. MealsAreOneOrder'
    BY DEF DeskMeals, MealsAreOneOrder
  <2> QED BY <1>4, <2>1 DEF DeskMeals, Erased
<1> QED BY <1>2, <1>3, <1>5

LEMMA CallKeeps ==
  ASSUME DeskTypeOK, DeskRooms, DeskMeals, RefusedOnlyIfChanged, UNCHANGED <<multiPlace, open, rows, meals, mixed>>,
         NEW w \in Calls, NEW c \in CallOf, Puts(w, c),
         c # Nothing /\ c.op = "meals" => c.step = "refused",
         c # Nothing /\ c.op = "book" /\ c.fresh =>
           /\ \A r \in c.rooms : Fits(r, c.stay, 1)
           /\ c.step = "create" => Fits(c.room, c.stay, c.guests)
           /\ c.step = "refused" => ~Owed(c)
  PROVE  DeskRooms' /\ DeskMeals' /\ RefusedOnlyIfChanged'
<1>1. call'[w] = c /\ \A v \in Calls : v # w => call'[v] = call[v]
  BY DEF Puts, DeskTypeOK
<1>2. \A r, s, g : Fits(r, s, g)' <=> Fits(r, s, g)
  BY DEF Fits, RoomFitsByPlaces, PartnerHolders, HoldersAmong, Crosses, Booked
<1>3. DeskRooms'
  BY <1>1, <1>2 DEF DeskRooms, Of
<1>4. RefusedOnlyIfChanged'
  BY <1>1 DEF RefusedOnlyIfChanged, AtStep, Owed
<1>5. \A v \in Calls : OrdersMeals(v)' => OrdersMeals(v) /\ v # w /\ call'[v] = call[v]
  BY <1>1 DEF OrdersMeals, Of
<1>6. MealsAreOneOrder'
  BY DEF DeskMeals, MealsAreOneOrder
<1>7. DeskMeals'
  BY <1>5, <1>6 DEF DeskMeals, Erased
<1> QED BY <1>3, <1>4, <1>7

DeskInv == DeskTypeOK /\ DeskRooms /\ DeskMeals /\ RefusedOnlyIfChanged

\* A row is written.
LEMMA WroteKeeps ==
  ASSUME DeskInv, NEW b \in Bookings, NEW row \in BookRow, Wrote(b, row),
         call' = Outdated \/ \E w \in Calls : EndsCall(w)
  PROVE  DeskInv'
<1>1. DeskTypeOK'
  BY WroteTyped DEF DeskInv
<1>2. \A v \in Calls : call'[v] \in {Outdated[v], Nothing}
  BY DEF EndsCall, Outdated
<1> QED BY <1>1, <1>2, HouseKeeps DEF DeskInv, Wrote

\* A call goes on, and nothing else.
LEMMA CallGoesOn ==
  ASSUME DeskInv, Reads, NEW w \in Calls, NEW c \in CallOf, Puts(w, c),
         c # Nothing /\ c.op = "meals" => c.step = "refused",
         c # Nothing /\ c.op \in {"change", "fact"} => rows[c.b] \in BookRow,
         c # Nothing /\ c.op = "book" /\ c.fresh =>
           /\ \A r \in c.rooms : Fits(r, c.stay, 1)
           /\ c.step = "create" => Fits(c.room, c.stay, c.guests)
           /\ c.step = "refused" => ~Owed(c)
  PROVE  DeskInv'
<1>1. DeskTypeOK'
  BY CallTyped DEF DeskInv, Reads, DeskTypeOK
<1> QED BY <1>1, CallKeeps DEF DeskInv, Reads

LEMMA RefusalGoesOn ==
  ASSUME DeskInv, Reads, NEW w \in Calls, call[w] # Nothing, Refused(w), call[w].op # "book"
  PROVE  DeskInv'
<1> DEFINE c == [call[w] EXCEPT !.step = "refused"]
<1>1. call[w] \in CallOf
  BY DEF DeskInv, DeskTypeOK
<1>2. c \in CallOf /\ c.op = call[w].op /\ c.step = "refused"
      /\ (call[w].op \in {"change", "fact"} => c.b = call[w].b)
  BY <1>1, KindOfCall DEF CallOf, Finding, Changing, Reporting, Ordering
<1>3. Puts(w, c)
  BY DEF Refused
<1>4. c.op \in {"change", "fact"} => rows[c.b] \in BookRow
  BY <1>2 DEF DeskInv, DeskTypeOK, Of
<1> HIDE DEF c
<1> QED BY <1>2, <1>3, <1>4, CallGoesOn

LEMMA CallEnds ==
  ASSUME DeskInv, Reads, NEW w \in Calls, Puts(w, Nothing)
  PROVE  DeskInv'
BY CallGoesOn DEF CallOf

(* Finding a room *)

\* The list of the partner and the book count the holders of a room alike.
LEMMA HoldersAgree ==
  ASSUME DeskAssumption, NEW r, NEW s
  PROVE  PartnerHolders(r, s) = Overlapping(r, s, Nothing)
<1>1. Booked \ {Nothing} = Booked
  BY DEF Booked, DeskAssumption
<1> QED BY <1>1 DEF PartnerHolders, Overlapping

\* A room with a place for one has one for a party, where nobody looks at its number.
LEMMA PlaceForOne ==
  ASSUME DeskTypeOK, NEW r, NEW s, NEW guests \in PartySizes, Fits(r, s, 1), guests = 1 \/ ~multiPlace
  PROVE  Fits(r, s, guests)
<1>1. CASE guests = 1
  BY <1>1
<1>2. CASE ~multiPlace
  BY <1>2 DEF Fits, RoomFitsByPlaces, roomFits, allocatePlace
<1> QED BY <1>1, <1>2

\* The room that is chosen by number is one of those there are.
LEMMA FirstIsOne ==
  ASSUME DeskAssumption, NEW S \in SUBSET Rooms, S # {}
  PROVE  FirstByNumber(S) \in S
<1> DEFINE N == {DoorNumber[r] : r \in S}
<1>1. N \in SUBSET Nat /\ N # {}
  BY DEF DeskAssumption
<1>2. PICK n \in N : \A k \in N : n <= k
  BY <1>1, FirstInSet
<1>3. \E r \in S : \A q \in S : DoorNumber[r] <= DoorNumber[q]
  BY <1>2
<1> QED BY <1>3 DEF FirstByNumber

LEMMA AskKeeps ==
  ASSUME DeskInv, NEW w \in Calls, NEW s \in Visits, NEW guests \in PartySizes, Ask(w, s, guests)
  PROVE  DeskInv'
<1> DEFINE list == IF Offered(s, guests) THEN ListedFree(s) ELSE {}
           c == [op |-> "book", step |-> "shown", stay |-> s, guests |-> guests, room |-> Nothing,
                 rooms |-> list, fresh |-> TRUE]
<1>1. list \subseteq Rooms /\ \A r \in list : Fits(r, s, 1)
  BY DEF ListedFree, Fits, DeskInv, DeskTypeOK
<1>2. Puts(w, c) /\ Reads
  BY DEF Ask
<1> HIDE DEF list
<1>3. c \in CallOf
  BY <1>1 DEF CallOf, Finding
<1> QED BY <1>1, <1>2, <1>3, CallGoesOn

LEMMA FindingCall ==
  ASSUME DeskInv, NEW w \in Calls, NEW step, AtStep(w, "book", step)
  PROVE  call[w] \in Finding /\ call[w].step = step
BY KindOfCall DEF AtStep, DeskInv, DeskTypeOK

\* The house says no to a call that was not owed a room.
LEMMA BookRefused ==
  ASSUME DeskInv, Reads, NEW w \in Calls, call[w] \in Finding, call[w] # Nothing, Refused(w),
         call[w].fresh => ~Owed(call[w])
  PROVE  DeskInv'
<1> DEFINE c == [call[w] EXCEPT !.step = "refused"]
<1>1. /\ c \in Finding /\ c.step = "refused" /\ c.fresh = call[w].fresh /\ c.rooms = call[w].rooms
      /\ c.room = call[w].room /\ c.guests = call[w].guests /\ c.stay = call[w].stay /\ c.op = "book"
  BY DEF Finding
<1>2. Puts(w, c)
  BY DEF Refused
<1>3. c.fresh => (\A r \in c.rooms : Fits(r, c.stay, 1)) /\ ~Owed(c)
  BY <1>1 DEF DeskInv, DeskRooms, Of, Owed
<1> HIDE DEF c
<1>4. c \in CallOf
  BY <1>1 DEF CallOf
<1> QED BY <1>1, <1>2, <1>3, <1>4, CallGoesOn

LEMMA BookKeeps ==
  ASSUME DeskAssumption, DeskInv, NEW w \in Calls, NEW room \in Rooms \cup {Nothing}, Book(w, room)
  PROVE  DeskInv'
<1>1. call[w] \in Finding /\ Reads
  BY FindingCall DEF Book
<1>2. CASE call[w].guests > MaxOccupancy
  <2>1. Refused(w) /\ call[w] # Nothing
    BY <1>2 DEF Book, AtStep
  <2>2. call[w].guests \in Nat
    BY <1>1 DEF Finding, DeskAssumption
  <2>3. ~Owed(call[w])
    BY <1>2, <2>2 DEF Owed, DeskAssumption
  <2> QED BY <1>1, <2>1, <2>3, BookRefused
<1>3. CASE ~(call[w].guests > MaxOccupancy)
  <2> DEFINE c == [call[w] EXCEPT !.step = "choose", !.room = room]
  <2>1. /\ c \in Finding /\ c.step = "choose" /\ c.rooms = call[w].rooms
        /\ c.fresh = call[w].fresh /\ c.stay = call[w].stay /\ c.op = "book"
    BY <1>1 DEF Finding
  <2>2. Puts(w, c)
    BY <1>3 DEF Book
  <2>3. c.fresh => \A r \in c.rooms : Fits(r, c.stay, 1)
    BY <1>1, <2>1 DEF DeskInv, DeskRooms, Book, AtStep, Of
  <2> HIDE DEF c
  <2>4. c \in CallOf
    BY <2>1 DEF CallOf
  <2> QED BY <1>1, <2>1, <2>2, <2>3, <2>4, CallGoesOn
<1> QED BY <1>2, <1>3

LEMMA ChooseRoomKeeps ==
  ASSUME DeskAssumption, DeskInv, NEW w \in Calls, ChooseRoom(w)
  PROVE  DeskInv'
<1>1. call[w] \in Finding /\ call[w] # Nothing /\ Reads
  BY FindingCall DEF ChooseRoom, AtStep
<1>2. call[w].fresh => \A r \in call[w].rooms : Fits(r, call[w].stay, 1)
  BY <1>1 DEF DeskInv, DeskRooms, Of, Finding
<1>3. /\ Fitting(w) = {r \in open : Fits(r, call[w].stay, call[w].guests)}
      /\ PinnedFits(w) <=> Fits(call[w].room, call[w].stay, call[w].guests)
  BY DEF Fitting, PinnedFits, Fits
<1>4. call[w].fresh /\ (call[w].guests = 1 \/ ~multiPlace) =>
        \A r \in call[w].rooms : Fits(r, call[w].stay, call[w].guests)
  BY <1>1, <1>2, PlaceForOne DEF Finding, DeskInv
<1>5. CASE call[w].room # Nothing /\ PinnedFits(w) /\ Puts(w, [call[w] EXCEPT !.step = "create"])
  <2> DEFINE c == [call[w] EXCEPT !.step = "create"]
  <2>1. /\ c \in Finding /\ c.step = "create" /\ c.fresh = call[w].fresh /\ c.rooms = call[w].rooms
        /\ c.room = call[w].room /\ c.guests = call[w].guests /\ c.stay = call[w].stay /\ c.op = "book"
    BY <1>1 DEF Finding
  <2>2. c.fresh => (\A r \in c.rooms : Fits(r, c.stay, 1)) /\ Fits(c.room, c.stay, c.guests)
    BY <1>2, <1>3, <1>5, <2>1
  <2>3. Puts(w, c)
    BY <1>5
  <2> HIDE DEF c
  <2>4. c \in CallOf
    BY <2>1 DEF CallOf
  <2> QED BY <1>1, <2>1, <2>2, <2>3, <2>4, CallGoesOn
<1>6. CASE call[w].room = Nothing /\ Fitting(w) # {}
           /\ Puts(w, [call[w] EXCEPT !.step = "create", !.room = FirstByNumber(Fitting(w))])
  <2> DEFINE r1 == FirstByNumber(Fitting(w))
             c == [call[w] EXCEPT !.step = "create", !.room = r1]
  <2>1. r1 \in Fitting(w) /\ r1 \in Rooms
    BY <1>6, FirstIsOne DEF Fitting, DeskInv, DeskTypeOK
  <2>2. Puts(w, c)
    BY <1>6
  <2> HIDE DEF r1
  <2>3. /\ c \in Finding /\ c.step = "create" /\ c.fresh = call[w].fresh /\ c.rooms = call[w].rooms
        /\ c.room = r1 /\ c.guests = call[w].guests /\ c.stay = call[w].stay /\ c.op = "book"
    BY <1>1, <2>1 DEF Finding
  <2>4. c.fresh => (\A r \in c.rooms : Fits(r, c.stay, 1)) /\ Fits(c.room, c.stay, c.guests)
    BY <1>2, <1>3, <2>1, <2>3
  <2> HIDE DEF c
  <2>5. c \in CallOf
    BY <2>3 DEF CallOf
  <2> QED BY <1>1, <2>2, <2>3, <2>4, <2>5, CallGoesOn
<1>7. CASE (IF call[w].room # Nothing THEN ~PinnedFits(w) ELSE Fitting(w) = {}) /\ Refused(w)
  <2>1. ASSUME call[w].fresh, Owed(call[w]) PROVE FALSE
    <3>1. \A r \in call[w].rooms : Fits(r, call[w].stay, call[w].guests)
      BY <1>4, <2>1 DEF Owed
    <3>2. CASE call[w].room = Nothing
      <4>1. PICK r \in call[w].rooms : TRUE
        BY <2>1, <3>2 DEF Owed
      <4>2. r \in Fitting(w)
        BY <1>3, <3>1 DEF Fits
      <4> QED BY <1>7, <3>2, <4>2
    <3>3. CASE call[w].room # Nothing
      BY <1>3, <1>7, <2>1, <3>1, <3>3 DEF Owed
    <3> QED BY <3>2, <3>3
  <2> QED BY <1>1, <1>7, <2>1, BookRefused
<1> QED BY <1>5, <1>6, <1>7 DEF ChooseRoom

LEMMA CreateReservationKeeps ==
  ASSUME DeskAssumption, DeskInv, NEW w \in Calls, CreateReservation(w)
  PROVE  DeskInv'
<1> DEFINE c == call[w]
           place == Allocated(c.room, c.stay, c.guests, Nothing)
<1>1. c \in Finding /\ c # Nothing /\ c.step = "create" /\ c.op = "book"
  BY FindingCall DEF CreateReservation, AtStep
<1>2. CASE c.room \in open /\ place # NoPlace
  <2>1. c.room \in Rooms /\ c.stay \in Visits /\ c.guests \in PartySizes
    BY <1>1, <1>2 DEF Finding, DeskInv, DeskTypeOK
  <2>2. Fresh(c.room, place, c.stay, c.guests, TRUE) \in BookRow
    BY <2>1, FreshTyped DEF DeskInv
  <2>3. \E b \in Bookings : Wrote(b, Fresh(c.room, place, c.stay, c.guests, TRUE)) /\ EndsCall(w)
    BY <1>2 DEF CreateReservation
  <2> QED BY <2>2, <2>3, WroteKeeps
<1>3. CASE ~(c.room \in open /\ place # NoPlace)
  <2>1. Refused(w) /\ Reads
    BY <1>3 DEF CreateReservation
  <2>2. c.fresh => Fits(c.room, c.stay, c.guests)
    BY <1>1 DEF DeskInv, DeskRooms, Of
  <2>3. Fits(c.room, c.stay, c.guests) => c.room \in open /\ place # NoPlace
    BY HoldersAgree DEF Fits, RoomFitsByPlaces, roomFits, Allocated
  <2> QED BY <1>1, <1>3, <2>1, <2>2, <2>3, BookRefused
<1> QED BY <1>2, <1>3

(* The bookings there are *)

LEMMA LookToChangeKeeps ==
  ASSUME DeskInv, NEW w \in Calls, NEW b \in Bookings, NEW room \in Rooms \cup {Nothing}, NEW s \in Visits,
         LookToChange(w, b, room, s)
  PROVE  DeskInv'
<1>1. rows[b] \in BookRow /\ Reads
  BY DEF LookToChange, OfPartner, Booked, DeskInv, DeskTypeOK
<1> DEFINE c == [op |-> "change", step |-> "write", b |-> b, version |-> rows[b].version, room |-> room, stay |-> s]
<1>2. c \in CallOf
  BY <1>1 DEF BookRow, CallOf, Changing
<1>3. Puts(w, c) /\ c.op = "change" /\ c.b = b
  BY DEF LookToChange
<1> HIDE DEF c
<1> QED BY <1>1, <1>2, <1>3, CallGoesOn

LEMMA LookToReportKeeps ==
  ASSUME DeskInv, NEW w \in Calls, NEW b \in Bookings, NEW fact \in DOMAIN FactFrom, LookToReport(w, b, fact)
  PROVE  DeskInv'
<1>1. rows[b] \in BookRow /\ Reads
  BY DEF LookToReport, OfPartner, Booked, DeskInv, DeskTypeOK
<1> DEFINE c == [op |-> "fact", step |-> "write", b |-> b, fact |-> fact, owes |-> FALSE]
<1>2. c \in CallOf
  BY DEF CallOf, Reporting
<1>3. Puts(w, c) /\ c.op = "fact" /\ c.b = b
  BY DEF LookToReport
<1> HIDE DEF c
<1> QED BY <1>1, <1>2, <1>3, CallGoesOn

LEMMA ChangeKeeps ==
  ASSUME DeskAssumption, DeskInv, NEW w \in Calls, Change(w)
  PROVE  DeskInv'
<1> DEFINE c == call[w]
           room == IF c.room = Nothing THEN rows[c.b].room ELSE c.room
<1>1. c \in Changing /\ c # Nothing /\ c.op = "change" /\ rows[c.b] \in BookRow
  BY KindOfCall DEF Change, AtStep, DeskInv, DeskTypeOK, Of
<1>2. CASE rows[c.b].version = c.version /\ MayMove(c.b, room, c.stay)
  <2>1. room \in Rooms
    BY <1>2 DEF MayMove, DeskInv, DeskTypeOK
  <2>2. Wrote(c.b, Moved(c.b, room, c.stay)) /\ EndsCall(w)
    BY <1>2 DEF Change
  <2> HIDE DEF room
  <2>3. c.b \in Bookings /\ c.stay \in Visits
    BY <1>1 DEF Changing
  <2>4. Moved(c.b, room, c.stay) \in BookRow
    BY <1>1, <2>1, <2>3, MovedTyped DEF DeskInv
  <2> QED BY <2>2, <2>3, <2>4, WroteKeeps
<1>3. CASE ~(rows[c.b].version = c.version /\ MayMove(c.b, room, c.stay))
  <2>1. Refused(w) /\ Reads
    BY <1>3 DEF Change
  <2> QED BY <1>1, <2>1, RefusalGoesOn
<1> QED BY <1>2, <1>3

LEMMA RecordFactKeeps ==
  ASSUME DeskInv, NEW w \in Calls, RecordFact(w)
  PROVE  DeskInv'
<1> DEFINE c == call[w]
<1>1. /\ c \in Reporting /\ c # Nothing /\ c.op = "fact"
      /\ c.b \in Bookings /\ c.fact \in RowStatuses /\ rows[c.b] \in BookRow
  BY KindOfCall DEF RecordFact, AtStep, DeskInv, DeskTypeOK, Of, Reporting, FactFrom, RowStatuses
<1>2. CASE Wrote(c.b, WithStatus(c.b, c.fact)) /\ EndsCall(w)
  BY <1>1, <1>2, StatusTyped, WroteKeeps
<1>3. CASE Refused(w) /\ Reads
  BY <1>1, <1>3, RefusalGoesOn
<1>4. CASE Puts(w, [c EXCEPT !.step = "refused", !.owes = TRUE]) /\ Reads
  <2> DEFINE d == [c EXCEPT !.step = "refused", !.owes = TRUE]
  <2>1. d \in Reporting /\ d.op = "fact" /\ d.b = c.b
    BY <1>1 DEF Reporting
  <2>2. Puts(w, d)
    BY <1>4
  <2> HIDE DEF d
  <2>3. d \in CallOf
    BY <2>1 DEF CallOf
  <2> QED BY <1>1, <1>4, <2>1, <2>2, <2>3, CallGoesOn
<1> QED BY <1>2, <1>3, <1>4 DEF RecordFact

\* Two orders of meals that are under way for a booking mix what it gets.
LEMMA LookToOrderKeeps ==
  ASSUME DeskInv, NEW w \in Calls, NEW b \in Bookings, NEW days \in Orders, LookToOrder(w, b, days)
  PROVE  DeskInv'
<1> DEFINE c == [op |-> "meals", step |-> "erase", b |-> b, days |-> days, erased |-> {}]
<1>1. c \in CallOf /\ c.op = "meals" /\ c.step = "erase" /\ c.b = b
  BY DEF CallOf, Ordering
<1>2. Puts(w, c) /\ UNCHANGED <<multiPlace, open, shut, rows, meals, changes>>
  BY DEF LookToOrder
<1>3. /\ mixed \subseteq mixed' /\ mixed' \subseteq Bookings
      /\ \A v \in Calls : OrdersMeals(v) /\ call[v].b = b => b \in mixed'
  BY DEF LookToOrder, DeskInv, DeskTypeOK, OrdersMeals, Of
<1> HIDE DEF c
<1>4. call'[w] = c /\ \A v \in Calls : v # w => call'[v] = call[v]
  BY <1>2 DEF Puts, DeskInv, DeskTypeOK
<1>5. DeskTypeOK'
  BY <1>1, <1>2, <1>3, CallTyped DEF DeskInv, DeskTypeOK
<1>6. \A r, s, g : Fits(r, s, g)' <=> Fits(r, s, g)
  BY <1>2 DEF Fits, RoomFitsByPlaces, PartnerHolders, HoldersAmong, Crosses, Booked
<1>7. DeskRooms'
  BY <1>1, <1>4, <1>6 DEF DeskRooms, DeskInv, Of
<1>8. RefusedOnlyIfChanged'
  BY <1>1, <1>2, <1>4 DEF RefusedOnlyIfChanged, DeskInv, AtStep
<1>9. MealsAreOneOrder'
  BY <1>2, <1>3 DEF DeskInv, DeskMeals, MealsAreOneOrder
<1>10. \A v \in Calls : v # w => (OrdersMeals(v)' <=> OrdersMeals(v))
  BY <1>4 DEF OrdersMeals, Of
<1>11. DeskMeals'
  <2>1. \A v, u \in Calls : OrdersMeals(v)' /\ OrdersMeals(u)' /\ call'[v].b = call'[u].b /\ call'[v].b \notin mixed' => v = u
    BY <1>1, <1>3, <1>4, <1>10 DEF DeskInv, DeskMeals
  <2>2. \A v \in Calls : OrdersMeals(v)' /\ call'[v].step = "insert" =>
          /\ \A m \in call'[v].erased : m.b = call'[v].b
          /\ call'[v].b \notin mixed' => {m \in meals' : m.b = call'[v].b} \subseteq call'[v].erased
    BY <1>1, <1>2, <1>3, <1>4, <1>10 DEF DeskInv, DeskMeals, Erased
  <2> QED BY <1>9, <2>1, <2>2 DEF DeskMeals, Erased
<1> QED BY <1>5, <1>7, <1>8, <1>11 DEF DeskInv

LEMMA OrderingCall ==
  ASSUME DeskInv, NEW w \in Calls, NEW step, AtStep(w, "meals", step), step # "refused"
  PROVE  call[w] \in Ordering /\ call[w] # Nothing /\ call[w].step = step /\ OrdersMeals(w)
BY KindOfCall DEF AtStep, DeskInv, DeskTypeOK, OrdersMeals, Of

LEMMA EraseMealsKeeps ==
  ASSUME DeskInv, NEW w \in Calls, EraseMeals(w)
  PROVE  DeskInv'
<1> DEFINE e == Erased(call[w].b)
           c == [call[w] EXCEPT !.step = "insert", !.erased = e]
<1>1. call[w] \in Ordering /\ OrdersMeals(w)
  BY OrderingCall DEF EraseMeals
<1>2. Puts(w, c) /\ Reads
  BY DEF EraseMeals
<1>3. e \subseteq Portions /\ \A m \in e : m.b = call[w].b
  BY DEF Erased, DeskInv, DeskTypeOK
<1>4. \A m \in meals : m.b = call[w].b => m \in e
  BY DEF Erased
<1> HIDE DEF e
<1>5. c \in Ordering /\ c.op = "meals" /\ c.step = "insert" /\ c.b = call[w].b /\ c.erased = e
  BY <1>1, <1>3 DEF Ordering
<1> HIDE DEF c
<1>6. call'[w] = c /\ \A v \in Calls : v # w => call'[v] = call[v]
  BY <1>2 DEF Puts, DeskInv, DeskTypeOK
<1>7. DeskTypeOK'
  BY <1>2, <1>5, CallTyped DEF DeskInv, DeskTypeOK, CallOf, Reads
<1>8. \A r, s, g : Fits(r, s, g)' <=> Fits(r, s, g)
  BY <1>2 DEF Fits, RoomFitsByPlaces, PartnerHolders, HoldersAmong, Crosses, Booked, Reads
<1>9. DeskRooms'
  BY <1>5, <1>6, <1>8 DEF DeskRooms, DeskInv, Of
<1>10. RefusedOnlyIfChanged'
  BY <1>2, <1>5, <1>6 DEF RefusedOnlyIfChanged, DeskInv, AtStep, Reads
<1>11. MealsAreOneOrder' /\ mixed' = mixed /\ meals' = meals
  BY <1>2 DEF DeskInv, DeskMeals, MealsAreOneOrder, Reads
<1>12. \A v \in Calls : (OrdersMeals(v)' => OrdersMeals(v)) /\ call'[v].b = call[v].b
  BY <1>1, <1>5, <1>6 DEF OrdersMeals, Of
<1>13. DeskMeals'
  <2>1. \A v, u \in Calls : OrdersMeals(v)' /\ OrdersMeals(u)' /\ call'[v].b = call'[u].b /\ call'[v].b \notin mixed' => v = u
    BY <1>11, <1>12 DEF DeskInv, DeskMeals
  <2>2. \A v \in Calls : OrdersMeals(v)' /\ call'[v].step = "insert" =>
          /\ \A m \in call'[v].erased : m.b = call'[v].b
          /\ call'[v].b \notin mixed' => {m \in meals' : m.b = call'[v].b} \subseteq call'[v].erased
    BY <1>3, <1>4, <1>5, <1>6, <1>11, <1>12 DEF DeskInv, DeskMeals, Erased
  <2> QED BY <1>11, <2>1, <2>2 DEF DeskMeals, Erased
<1> QED BY <1>7, <1>9, <1>10, <1>13 DEF DeskInv

\* Where one order at a time is under way the old portions are all gone when the new ones
\* are written, and the portions of another booking are nobody's but its own.
LEMMA InsertMealsKeeps ==
  ASSUME DeskInv, NEW w \in Calls, InsertMeals(w)
  PROVE  DeskInv'
<1> DEFINE c == call[w]
           kept == meals \ c.erased
           ordered == {[b |-> c.b, day |-> d, order |-> c.days] : d \in c.days}
           twice == \E m \in kept : m.b = c.b /\ m.day \in c.days
<1>1. c \in Ordering /\ c # Nothing /\ OrdersMeals(w) /\ c.step = "insert" /\ c.op = "meals"
  BY OrderingCall DEF InsertMeals, Ordering
<1>2. \A m \in c.erased : m.b = c.b
  BY <1>1 DEF DeskInv, DeskMeals
<1>3. c.b \notin mixed => \A m \in meals : m.b = c.b => m \in c.erased
  BY <1>1 DEF DeskInv, DeskMeals, Erased
<1>4. ordered \subseteq Portions
  BY <1>1 DEF Ordering, Portions
<1>5. PICK n : (n = Nothing \/ n = [c EXCEPT !.step = "refused"]) /\ Puts(w, n)
  BY DEF InsertMeals, Refused
<1>6. n \in CallOf /\ (n # Nothing => n.op = "meals" /\ n.step = "refused")
  BY <1>1, <1>5 DEF CallOf, Ordering
<1>7. call'[w] = n /\ \A v \in Calls : v # w => call'[v] = call[v]
  BY <1>5 DEF Puts, DeskInv, DeskTypeOK
<1>8. meals' \subseteq kept \cup ordered \/ meals' = meals
  BY DEF InsertMeals
<1>9. UNCHANGED <<multiPlace, open, shut, rows, mixed, changes>>
  BY DEF InsertMeals
<1>10. \A m \in ordered : m.b = c.b /\ m.order = c.days
  OBVIOUS
<1>11. \A m \in meals' : m \in meals \/ (m.b = c.b /\ m.order = c.days)
  BY <1>8, <1>10
<1>12. meals' \subseteq Portions
  BY <1>4, <1>8 DEF DeskInv, DeskTypeOK
<1>13. DeskTypeOK'
  BY <1>5, <1>6, <1>9, <1>12, CallTyped DEF DeskInv, DeskTypeOK
<1>14. \A r, s, g : Fits(r, s, g)' <=> Fits(r, s, g)
  BY <1>9 DEF Fits, RoomFitsByPlaces, PartnerHolders, HoldersAmong, Crosses, Booked
<1>15. DeskRooms'
  BY <1>6, <1>7, <1>14 DEF DeskRooms, DeskInv, Of
<1>16. RefusedOnlyIfChanged'
  BY <1>6, <1>7, <1>9 DEF RefusedOnlyIfChanged, DeskInv, AtStep
<1>17. MealsAreOneOrder'
  <2> SUFFICES ASSUME NEW m \in meals', NEW k \in meals', m.b = k.b, m.b \notin mixed
               PROVE  m.order = k.order
    BY <1>9 DEF MealsAreOneOrder
  <2>1. CASE m.b # c.b \/ meals' = meals
    <3>1. m \in meals /\ k \in meals
      BY <1>11, <2>1
    <3>2. \A x, y \in meals : x.b = y.b /\ x.b \notin mixed => x.order = y.order
      BY DEF DeskInv, DeskMeals, MealsAreOneOrder
    <3> QED BY <3>1, <3>2
  <2>2. CASE m.b = c.b /\ meals' \subseteq kept \cup ordered
    <3>1. c.b \notin mixed /\ k.b = c.b
      BY <2>2
    <3>2. \A x \in kept : x.b # c.b
      BY <1>3, <3>1
    <3>3. m \in ordered /\ k \in ordered
      BY <2>2, <3>1, <3>2
    <3> HIDE DEF ordered
    <3> QED BY <1>10, <3>3
  <2> QED BY <1>8, <2>1, <2>2
<1>18. \A v \in Calls : OrdersMeals(v)' => OrdersMeals(v) /\ v # w /\ call'[v] = call[v]
  BY <1>6, <1>7 DEF OrdersMeals, Of
<1>19. \A v, u \in Calls : OrdersMeals(v)' /\ OrdersMeals(u)' /\ call'[v].b = call'[u].b /\ call'[v].b \notin mixed' => v = u
  BY <1>9, <1>18 DEF DeskInv, DeskMeals
<1>20. ASSUME NEW v \in Calls, OrdersMeals(v)', call'[v].step = "insert"
       PROVE  /\ \A m \in call'[v].erased : m.b = call'[v].b
              /\ call'[v].b \notin mixed' => {m \in meals' : m.b = call'[v].b} \subseteq call'[v].erased
  <2>1. OrdersMeals(v) /\ v # w /\ call'[v] = call[v] /\ call[v].step = "insert" /\ mixed' = mixed
    BY <1>9, <1>18, <1>20
  <2>2. call[v].b \notin mixed => call[v].b # c.b
    BY <1>1, <2>1 DEF DeskInv, DeskMeals
  <2>3. \A m \in meals' : m.b # c.b => m \in meals
    BY <1>11
  <2> QED BY <2>1, <2>2, <2>3 DEF DeskInv, DeskMeals, Erased
<1>21. DeskMeals'
  BY <1>17, <1>19, <1>20 DEF DeskMeals, Erased
<1> QED BY <1>13, <1>15, <1>16, <1>21 DEF DeskInv

(* The hotel's own people *)

LEMMA DeskStands ==
  ASSUME DeskInv, UNCHANGED <<multiPlace, open, rows, meals, call, mixed>>
  PROVE  DeskInv'
<1>1. DeskTypeOK'
  BY DEF DeskInv, DeskTypeOK, Of
<1>2. \A r, s, g : Fits(r, s, g)' <=> Fits(r, s, g)
  BY DEF Fits, RoomFitsByPlaces, PartnerHolders, HoldersAmong, Crosses, Booked
<1>3. DeskRooms'
  BY <1>2 DEF DeskInv, DeskRooms, Of
<1>4. RefusedOnlyIfChanged' /\ MealsAreOneOrder'
  BY DEF DeskInv, DeskMeals, RefusedOnlyIfChanged, MealsAreOneOrder, AtStep
<1>5. DeskMeals'
  BY <1>4 DEF DeskInv, DeskMeals, OrdersMeals, Of, Erased
<1> QED BY <1>1, <1>3, <1>4, <1>5 DEF DeskInv

LEMMA HotelKeeps ==
  ASSUME DeskAssumption, DeskInv, HotelStep
  PROVE  DeskInv'
<1>1. ASSUME NEW b \in Bookings, NEW room \in Rooms, NEW s \in Visits, HotelMoves(b, room, s) PROVE DeskInv'
  <2>1. rows[b] \in BookRow
    BY <1>1 DEF HotelMoves, Booked, DeskInv, DeskTypeOK
  <2>2. Moved(b, room, s) \in BookRow
    BY <2>1, MovedTyped DEF DeskInv
  <2> QED BY <1>1, <2>2, WroteKeeps DEF HotelMoves
<1>2. ASSUME NEW b \in Bookings, NEW room \in Rooms, NEW s \in Visits, NEW g \in PartySizes, HotelBooks(b, room, s, g)
      PROVE  DeskInv'
  <2>1. Fresh(room, Allocated(room, s, g, Nothing), s, g, FALSE) \in BookRow
    BY FreshTyped DEF DeskInv
  <2> QED BY <1>2, <2>1, WroteKeeps DEF HotelBooks
<1>3. ASSUME NEW b \in Bookings, NEW fact \in DOMAIN FactFrom, HotelReports(b, fact) PROVE DeskInv'
  <2>1. rows[b] \in BookRow /\ fact \in RowStatuses
    BY <1>3 DEF HotelReports, Booked, DeskInv, DeskTypeOK, FactFrom, RowStatuses
  <2> QED BY <1>3, <2>1, StatusTyped, WroteKeeps DEF HotelReports
<1>4. ASSUME NEW b \in Bookings, HotelCancels(b) PROVE DeskInv'
  <2>1. rows[b] \in BookRow /\ "CANCELLED" \in RowStatuses
    BY <1>4 DEF HotelCancels, Booked, DeskInv, DeskTypeOK, RowStatuses
  <2> QED BY <1>4, <2>1, StatusTyped, WroteKeeps DEF HotelCancels
<1>5. ASSUME NEW room \in Rooms, RoomCloses(room) \/ RoomOpens(room) PROVE DeskInv'
  <2>1. open' \subseteq Rooms /\ call' = Outdated /\ UNCHANGED <<multiPlace, shut, rows, meals, mixed>>
    BY <1>5 DEF RoomCloses, RoomOpens, DeskInv, DeskTypeOK
  <2>2. DeskTypeOK'
    BY <2>1, RoomsTyped DEF DeskInv
  <2> QED BY <2>1, <2>2, HouseKeeps DEF DeskInv
<1>6. ASSUME NEW night, Shuts(night) PROVE DeskInv'
  <2>1. UNCHANGED <<multiPlace, open, rows, meals, call, mixed>>
    BY <1>6 DEF Shuts
  <2> QED BY <2>1, DeskStands
<1> QED BY <1>1, <1>2, <1>3, <1>4, <1>5, <1>6 DEF HotelStep

LEMMA FindingKeeps ==
  ASSUME DeskAssumption, DeskInv, NEW w \in Calls, FindingStep(w)
  PROVE  DeskInv'
<1>1. ASSUME Ends(w) PROVE DeskInv'
  BY <1>1, CallEnds DEF Ends
<1> QED BY <1>1, AskKeeps, BookKeeps, ChooseRoomKeeps, CreateReservationKeeps DEF FindingStep

LEMMA KeepingKeeps ==
  ASSUME DeskAssumption, DeskInv, NEW w \in Calls, KeepingStep(w)
  PROVE  DeskInv'
<1>1. ASSUME Ends(w) PROVE DeskInv'
  BY <1>1, CallEnds DEF Ends
<1>2. ASSUME NEW b \in Bookings, CancelReservation(w, b) PROVE DeskInv'
  <2>1. rows[b] \in BookRow /\ "CANCELLED" \in RowStatuses
    BY <1>2 DEF CancelReservation, OfPartner, Booked, DeskInv, DeskTypeOK, RowStatuses
  <2> QED BY <1>2, <2>1, StatusTyped, WroteKeeps DEF CancelReservation
<1> QED BY <1>1, <1>2, LookToChangeKeeps, LookToReportKeeps, LookToOrderKeeps, ChangeKeeps, RecordFactKeeps,
          EraseMealsKeeps, InsertMealsKeeps DEF KeepingStep

LEMMA DeskInvariant == ASSUME DeskAssumption PROVE DeskSpec => []DeskInv
<1>1. DeskInit => DeskInv
  <2> SUFFICES ASSUME DeskInit PROVE DeskInv
    OBVIOUS
  <2>1. \A w \in Calls : call[w] = Nothing
    BY DEF DeskInit
  <2>2. meals = {}
    BY DEF DeskInit
  <2> QED BY <2>1, <2>2, DeskTypeInit DEF DeskInv, DeskRooms, DeskMeals, RefusedOnlyIfChanged, MealsAreOneOrder,
            Of, OrdersMeals, AtStep
<1>2. DeskInv /\ [DeskStep]_deskVars => DeskInv'
  <2>1. ASSUME DeskInv, UNCHANGED deskVars PROVE DeskInv'
    BY <2>1, DeskStands DEF deskVars
  <2>2. ASSUME DeskInv, DeskStep PROVE DeskInv'
    BY <2>2, HotelKeeps, FindingKeeps, KeepingKeeps DEF DeskStep
  <2> QED BY <2>1, <2>2
<1> QED BY <1>1, <1>2, PTL DEF DeskSpec

(***************************************************************************)
(* A room that was shown as free is refused to a party it has a place for  *)
(* only if the book or the rooms changed since: for every number of calls, *)
(* rooms and guests, and with the calls about bookings under way as well.  *)
(***************************************************************************)
THEOREM ShownRoomsAreGiven == DeskSpec => []RefusedOnlyIfChanged
BY DeskAssumption, DeskInvariant, PTL DEF DeskInv

(***************************************************************************)
(* A booking has one order of meals, unless two were under way for it at   *)
(* once: deleting and writing in two statements is enough for that.        *)
(***************************************************************************)
THEOREM OneOrderOfMeals == DeskSpec => []MealsAreOneOrder
<1>1. DeskInv => MealsAreOneOrder
  BY DEF DeskInv, DeskMeals
<1> QED BY <1>1, DeskAssumption, DeskInvariant, PTL
=============================================================================
