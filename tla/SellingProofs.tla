--------------------------- MODULE SellingProofs ----------------------------
(***************************************************************************)
(* What a hotel sells and to whom, for any number of tariffs, workers,     *)
(* days and rules: the tariffs a partner is given, what they cost, which   *)
(* stays the rules of a category let in, what the partner hears of what    *)
(* becomes of them, and the calendar on which prices are typed.            *)
(***************************************************************************)
EXTENDS RatePlans, StayRules, PartnerNews, PriceEditor, FiniteSetTheorems, SequenceTheorems, TLAPS

-----------------------------------------------------------------------------
(* Tariffs: what a request makes of the row it read *)

LEMMA NamedIn ==
  ASSUME NEW S, NEW x \in Or(S), NEW y \in S
  PROVE  Named(x, y) \in S
BY DEF Or, Named

LEMMA BlankIsPlan == Blank \in Plan /\ NoTerms \in Terms /\ ScopeCheck(Blank)
BY PlansAssumption DEF Blank, Plan, NoTerms, Terms, OrNone, ScopeCheck

LEMMA ScopeIn ==
  ASSUME NEW dto \in PlanRequest, NEW before \in Plan
  PROVE  Scope(dto, before) \in Terms
<1> DEFINE asked == Named(dto.partner, before.terms.partner)
           partner == CASE dto.forOperator = FALSE -> None
                        [] dto.forOperator = TRUE /\ asked = None -> Kars
                        [] OTHER -> asked
<1>1. before.terms \in Terms
  BY DEF Plan
<1>2. asked \in OrNone(Partners)
  BY <1>1, NamedIn DEF PlanRequest, Terms
<1>3. partner \in OrNone(Partners)
  BY <1>2, PlansAssumption DEF OrNone
<1>4. Named(dto.account, before.terms.account) \in OrNone(Accounts)
  BY <1>1, NamedIn DEF PlanRequest, Terms
<1>5. Named(dto.customer, before.terms.customer) \in OrNone(Customers)
  BY <1>1, NamedIn DEF PlanRequest, Terms
<1>6. Named(dto.kind, before.terms.kind) \in OrNone(GuestKinds)
  BY <1>1, NamedIn DEF PlanRequest, Terms
<1>7. Scope(dto, before) = IF partner = None THEN NoTerms
       ELSE [partner |-> partner,
             account |-> Named(dto.account, before.terms.account),
             customer |-> Named(dto.customer, before.terms.customer),
             kind |-> Named(dto.kind, before.terms.kind)]
  BY DEF Scope
<1> HIDE DEF partner
<1> QED
  BY <1>3, <1>4, <1>5, <1>6, <1>7, BlankIsPlan DEF Terms

LEMMA WrittenIn ==
  ASSUME NEW j \in Request, NEW old \in Plan
  PROVE  Written(j, old) \in Plan
<1>1. j.dto \in PlanRequest /\ j.terms \in Terms
  BY DEF Request
<1>2. Named(j.dto.meal, old.meal) \in Meals
  BY <1>1, NamedIn DEF PlanRequest, Plan
<1>3. Named(j.dto.active, old.active) \in BOOLEAN
  BY <1>1, NamedIn DEF PlanRequest, Plan
<1>4. Named(j.dto.parent, old.parent) \in OrNone(Plans)
  BY <1>1, NamedIn DEF PlanRequest, Plan
<1>5. Named(j.dto.byGuests, old.byGuests) \in BOOLEAN /\ Named(j.dto.inPercent, old.inPercent) \in BOOLEAN
  BY <1>1, NamedIn DEF PlanRequest, Plan
<1>6. Named(j.dto.modifier, old.modifier) \in Int
  BY <1>1, NamedIn DEF PlanRequest, Plan
<1> QED
  BY <1>1, <1>2, <1>3, <1>4, <1>5, <1>6 DEF Written, Plan

-----------------------------------------------------------------------------
(* Tariffs: each step keeps what the database keeps *)

LEMMA PlansStart == PlansInit => PlansInv
<1> SUFFICES ASSUME PlansInit PROVE PlansInv
  OBVIOUS
<1>1. Live = {}
  BY DEF PlansInit, Live
<1>2. PlansTypeOK
  <2>1. plans \in [Plans -> OrNone(Plan)] /\ listed \subseteq Accounts \cup Customers
    BY DEF PlansInit, OrNone
  <2>2. edits \in 0..MaxEdits
    BY PlansAssumption DEF PlansInit
  <2>3. /\ book = [daily |-> book.daily, seasons |-> book.seasons, standard |-> book.standard]
        /\ book.daily \cup book.seasons \cup book.standard = {}
    BY DEF PlansInit
  <2>4. job \in [Workers -> {Free} \cup Request \cup Sync]
    BY DEF PlansInit
  <2> QED
    BY <2>1, <2>2, <2>3, <2>4 DEF PlansTypeOK
<1> QED
  BY <1>1, <1>2 DEF PlansInv, OneForItsTerms

\* A request goes on: the tariffs and their prices stay.
LEMMA JobGoesOn ==
  ASSUME PlansInv, NEW w \in Workers, NEW j \in {Free} \cup Request \cup Sync,
         job' = [job EXCEPT ![w] = j], edits' \in 0..MaxEdits,
         UNCHANGED <<plans, book>>, listed' \subseteq Accounts \cup Customers
  PROVE  PlansInv'
<1>1. job' \in [Workers -> {Free} \cup Request \cup Sync]
  BY DEF PlansInv, PlansTypeOK
<1>2. Live' = Live
  BY DEF Live
<1>3. PlansTypeOK'
  BY <1>1, <1>2 DEF PlansInv, PlansTypeOK
<1>4. (\A p \in Live : ScopeCheck(plans[p]))'
  BY <1>2 DEF PlansInv, ScopeCheck
<1>5. OneForItsTerms'
  BY <1>2 DEF PlansInv, OneForItsTerms, ScopeKey, Indexed, Key
<1> QED
  BY <1>3, <1>4, <1>5 DEF PlansInv

LEMMA BeginCounts ==
  ASSUME PlansInv, NEW w, NEW j, Begin(w, j)
  PROVE  edits' \in 0..MaxEdits
BY PlansAssumption DEF PlansInv, PlansTypeOK, Begin

LEMMA CreateKeeps ==
  ASSUME PlansInv, NEW w \in Workers, NEW p \in Plans, NEW dto \in Creates, Create(w, p, dto)
  PROVE  PlansInv'
<1> DEFINE j == [step |-> "scope", plan |-> p, new |-> TRUE, dto |-> dto, before |-> Blank, terms |-> NoTerms]
<1>1. j \in Request
  BY BlankIsPlan, PlansAssumption DEF Request
<1>2. edits' \in 0..MaxEdits
  BY BeginCounts DEF Create
<1> QED
  BY <1>1, <1>2, JobGoesOn DEF Create, Begin, PlansInv, PlansTypeOK

LEMMA UpdateKeeps ==
  ASSUME PlansInv, NEW w \in Workers, NEW p \in Plans, NEW dto \in Updates, Update(w, p, dto)
  PROVE  PlansInv'
<1> DEFINE j == [step |-> "scope", plan |-> p, new |-> FALSE, dto |-> dto, before |-> plans[p], terms |-> NoTerms]
<1>1. plans[p] \in Plan
  BY DEF Update, PlansInv, PlansTypeOK, OrNone
<1>2. j \in Request
  BY <1>1, BlankIsPlan, PlansAssumption DEF Request
<1>3. edits' \in 0..MaxEdits
  BY BeginCounts DEF Update
<1> QED
  BY <1>2, <1>3, JobGoesOn DEF Update, Begin, PlansInv, PlansTypeOK

\* A worker whose request is at one of the three steps of a tariff.
LEMMA RequestAt ==
  ASSUME PlansInv, NEW w \in Workers, job[w].step \in {"scope", "rival", "write"}
  PROVE  job[w] \in Request
BY DEF PlansInv, PlansTypeOK, Free, Sync

LEMMA ResolveScopeKeeps ==
  ASSUME PlansInv, NEW w \in Workers, ResolveScope(w)
  PROVE  PlansInv'
<1> DEFINE terms == Scope(job[w].dto, job[w].before)
           next == [job[w] EXCEPT !.step = "rival", !.terms = terms]
<1>1. job[w] \in Request
  BY RequestAt DEF ResolveScope
<1>2. terms \in Terms
  BY <1>1, ScopeIn DEF Request
<1>3. next \in Request
  BY <1>1, <1>2 DEF Request
<1>4. PICK j \in {next, Free} : job' = [job EXCEPT ![w] = j]
  BY DEF ResolveScope
<1> QED
  BY <1>3, <1>4, JobGoesOn DEF ResolveScope, PlansInv, PlansTypeOK

LEMMA LookForRivalKeeps ==
  ASSUME PlansInv, NEW w \in Workers, LookForRival(w)
  PROVE  PlansInv'
<1> DEFINE next == [job[w] EXCEPT !.step = "write"]
<1>1. job[w] \in Request
  BY RequestAt DEF LookForRival
<1>2. next \in Request
  BY <1>1 DEF Request
<1>3. PICK j \in {next, Free} : job' = [job EXCEPT ![w] = j]
  BY DEF LookForRival
<1> QED
  BY <1>2, <1>3, JobGoesOn DEF LookForRival, PlansInv, PlansTypeOK

\* A row the database accepts is written.
LEMMA RowWritten ==
  ASSUME PlansInv, NEW p \in Plans, NEW row \in Plan, Storable(p, row),
         plans' = [plans EXCEPT ![p] = row], UNCHANGED <<book, listed, edits>>,
         job' \in [Workers -> {Free} \cup Request \cup Sync]
  PROVE  PlansInv'
<1>1. Live' = Live \cup {p}
  BY RowAssumption DEF Live, PlansInv, PlansTypeOK
<1>2. PlansTypeOK'
  BY <1>1 DEF PlansInv, PlansTypeOK, OrNone
<1>3. plans'[p] = row /\ \A r \in Plans \ {p} : plans'[r] = plans[r]
  BY DEF PlansInv, PlansTypeOK
<1>4. (\A r \in Live : ScopeCheck(plans[r]))'
  BY <1>1, <1>3 DEF PlansInv, Storable, ScopeCheck, Live
<1>5. OneForItsTerms'
  <2> SUFFICES ASSUME NEW r \in Live', NEW s \in Live' \ {r}, Indexed(plans'[r]), Indexed(plans'[s])
               PROVE  Key(plans'[s]) # Key(plans'[r])
    BY DEF OneForItsTerms, ScopeKey, Indexed, Key
  <2>1. CASE r = p
    BY <2>1, <1>1, <1>3 DEF Storable, ScopeKey, Live
  <2>2. CASE s = p
    BY <2>2, <1>1, <1>3 DEF Storable, ScopeKey, Live
  <2>3. CASE r # p /\ s # p
    BY <2>3, <1>1, <1>3 DEF PlansInv, OneForItsTerms, ScopeKey, Live
  <2> QED
    BY <2>1, <2>2, <2>3
<1> QED
  BY <1>2, <1>4, <1>5 DEF PlansInv

LEMMA WriteKeeps ==
  ASSUME PlansInv, NEW w \in Workers, Write(w)
  PROVE  PlansInv'
<1> DEFINE j == job[w]
           old == IF j.new THEN Blank ELSE plans[j.plan]
           row == Written(j, old)
           stored == (j.new \/ plans[j.plan] # None) /\ Storable(j.plan, row)
<1>1. j \in Request
  BY RequestAt DEF Write
<1>2. j.plan \in Plans /\ plans[j.plan] \in OrNone(Plan)
  BY <1>1 DEF Request, PlansInv, PlansTypeOK
<1>3. job' \in [Workers -> {Free} \cup Request \cup Sync]
  BY DEF Write, PlansInv, PlansTypeOK
<1>4. CASE stored
  <2>1. old \in Plan
    BY <1>2, <1>4, BlankIsPlan DEF OrNone
  <2>2. row \in Plan
    BY <1>1, <2>1, WrittenIn
  <2>3. plans' = [plans EXCEPT ![j.plan] = row] /\ UNCHANGED <<book, listed, edits>>
    BY <1>4 DEF Write
  <2> HIDE DEF row
  <2> QED
    BY <1>2, <1>3, <1>4, <2>2, <2>3, RowWritten
<1>5. CASE ~stored
  <2>1. UNCHANGED <<plans, book, listed, edits>>
    BY <1>5 DEF Write
  <2>2. job' = [job EXCEPT ![w] = Free]
    BY DEF Write
  <2> QED
    BY <2>1, <2>2, JobGoesOn DEF PlansInv, PlansTypeOK
<1> QED
  BY <1>4, <1>5

LEMMA RemovePlanKeeps ==
  ASSUME PlansInv, NEW p \in Plans, RemovePlan(p)
  PROVE  PlansInv'
<1> DEFINE orphaned(plan) == IF plan # None /\ plan.parent = p THEN [plan EXCEPT !.parent = None] ELSE plan
<1>1. plans' = [r \in Plans |-> IF r = p THEN None ELSE orphaned(plans[r])]
  BY DEF RemovePlan
<1>2. \A r \in Plans : plans[r] # None => orphaned(plans[r]) \in Plan
                                         /\ orphaned(plans[r]).terms = plans[r].terms
                                         /\ orphaned(plans[r]).meal = plans[r].meal
                                         /\ orphaned(plans[r]).active = plans[r].active
                                         /\ orphaned(plans[r]).parent \in {None, plans[r].parent}
  BY DEF PlansInv, PlansTypeOK, Plan, OrNone
<1>3. Live' = Live \ {p}
  BY <1>1, <1>2, RowAssumption DEF Live
<1>4. PlansTypeOK'
  <2>1. plans' \in [Plans -> OrNone(Plan)]
    BY <1>1, <1>2 DEF PlansInv, PlansTypeOK, OrNone
  <2>2. /\ book' = [daily |-> book'.daily, seasons |-> book'.seasons, standard |-> book'.standard]
        /\ \A t \in {"daily", "seasons", "standard"} : book'[t] = {r \in book[t] : r.plan # p}
    <3>1. DOMAIN book = {"daily", "seasons", "standard"}
      BY DEF PlansInv, PlansTypeOK
    <3> QED
      BY <3>1 DEF RemovePlan
  <2>3. \A r \in (book.daily \cup book.seasons \cup book.standard)' : r.plan \in Live' /\ r.price \in Nat
    BY <1>3, <2>2 DEF PlansInv, PlansTypeOK
  <2>4. edits' \in 0..MaxEdits
    BY PlansAssumption DEF RemovePlan, PlansInv, PlansTypeOK
  <2>5. UNCHANGED <<listed, job>>
    BY DEF RemovePlan
  <2> QED
    BY <2>1, <2>2, <2>3, <2>4, <2>5 DEF PlansInv, PlansTypeOK
<1>5. \A r \in Live' : /\ plans'[r].terms = plans[r].terms /\ plans'[r].meal = plans[r].meal
                       /\ plans'[r].active = plans[r].active
                       /\ plans'[r].parent \in {None, plans[r].parent}
  BY <1>1, <1>2, <1>3 DEF Live
<1>6. (\A r \in Live : ScopeCheck(plans[r]))'
  BY <1>3, <1>5 DEF PlansInv, ScopeCheck
<1>7. OneForItsTerms'
  BY <1>3, <1>5 DEF PlansInv, OneForItsTerms, ScopeKey, Indexed, Key
<1> QED
  BY <1>4, <1>6, <1>7 DEF PlansInv

\* The prices of a tariff that is there are saved.
LEMMA SaveKeeps ==
  ASSUME PlansInv, NEW p \in Plans, NEW new, Save(p, new),
         new = [daily |-> new.daily, seasons |-> new.seasons, standard |-> new.standard],
         \A r \in new.daily \cup new.seasons \cup new.standard : r.plan \in Live /\ r.price \in Nat
  PROVE  PlansInv'
<1>1. UNCHANGED <<plans, listed, job>> /\ book' = new /\ Live' = Live
  BY DEF Save, Live
<1>2. edits' \in 0..MaxEdits
  BY PlansAssumption DEF Save, PlansInv, PlansTypeOK
<1>3. PlansTypeOK'
  BY <1>1, <1>2 DEF PlansInv, PlansTypeOK
<1>4. (\A r \in Live : ScopeCheck(plans[r]))'
  BY <1>1 DEF PlansInv, ScopeCheck
<1>5. OneForItsTerms'
  BY <1>1 DEF PlansInv, OneForItsTerms, ScopeKey, Indexed, Key
<1> QED
  BY <1>3, <1>4, <1>5 DEF PlansInv

\* A table of the three is replaced.
LEMMA OneTable ==
  ASSUME NEW b, NEW x, b = [daily |-> b.daily, seasons |-> b.seasons, standard |-> b.standard]
  PROVE  /\ [b EXCEPT !.daily = x] = [daily |-> x, seasons |-> b.seasons, standard |-> b.standard]
         /\ [b EXCEPT !.seasons = x] = [daily |-> b.daily, seasons |-> x, standard |-> b.standard]
         /\ [b EXCEPT !.standard = x] = [daily |-> b.daily, seasons |-> b.seasons, standard |-> x]
<1>1. [b EXCEPT !.daily = x] = [daily |-> x, seasons |-> b.seasons, standard |-> b.standard]
  OBVIOUS
<1>2. [b EXCEPT !.seasons = x] = [daily |-> b.daily, seasons |-> x, standard |-> b.standard]
  OBVIOUS
<1>3. [b EXCEPT !.standard = x] = [daily |-> b.daily, seasons |-> b.seasons, standard |-> x]
  OBVIOUS
<1> QED
  BY <1>1, <1>2, <1>3

\* What a request makes of the tables: one of them has rows of the tariff's that were not there.
LEMMA DaysWritten ==
  ASSUME NEW b, NEW p, NEW items,
         b = [daily |-> b.daily, seasons |-> b.seasons, standard |-> b.standard],
         \A i \in items : i.price \in Nat
  PROVE  LET new == WithDays(b, p, items)
         IN /\ new = [daily |-> new.daily, seasons |-> new.seasons, standard |-> new.standard]
            /\ \A r \in new.daily : r \in b.daily \/ (r.plan = p /\ r.price \in Nat)
            /\ new.seasons = b.seasons /\ new.standard = b.standard
<1> DEFINE named(r) == r.plan = p /\ \E i \in items : i.day = r.day /\ i.guests = r.guests
           rows == {[plan |-> p, day |-> i.day, guests |-> i.guests, price |-> i.price] : i \in items}
           kept == {r \in b.daily : ~named(r)}
           new == [b EXCEPT !.daily = kept \cup rows]
<1>1. WithDays(b, p, items) = new
  BY DEF WithDays
<1>2. \A r \in kept \cup rows : r \in b.daily \/ (r.plan = p /\ r.price \in Nat)
  OBVIOUS
<1> HIDE DEF kept, rows
<1>3. /\ new = [daily |-> new.daily, seasons |-> new.seasons, standard |-> new.standard]
      /\ new.daily = kept \cup rows
      /\ new.seasons = b.seasons /\ new.standard = b.standard
  BY OneTable
<1> QED
  BY <1>1, <1>2, <1>3

LEMMA StandardWritten ==
  ASSUME NEW b, NEW p, NEW items,
         b = [daily |-> b.daily, seasons |-> b.seasons, standard |-> b.standard],
         \A i \in items : i.price \in Nat
  PROVE  LET new == WithStandard(b, p, items)
         IN /\ new = [daily |-> new.daily, seasons |-> new.seasons, standard |-> new.standard]
            /\ \A r \in new.standard : r \in b.standard \/ (r.plan = p /\ r.price \in Nat)
            /\ new.seasons = b.seasons /\ new.daily = b.daily
<1> DEFINE named(r) == r.plan = p /\ \E i \in items : i.guests = r.guests
           rows == {[plan |-> p, guests |-> i.guests, price |-> i.price] : i \in {j \in items : j.price > 0}}
           kept == {r \in b.standard : ~named(r)}
           new == [b EXCEPT !.standard = kept \cup rows]
<1>1. WithStandard(b, p, items) = new
  BY DEF WithStandard
<1>2. \A r \in kept \cup rows : r \in b.standard \/ (r.plan = p /\ r.price \in Nat)
  OBVIOUS
<1> HIDE DEF kept, rows
<1>3. /\ new = [daily |-> new.daily, seasons |-> new.seasons, standard |-> new.standard]
      /\ new.standard = kept \cup rows
      /\ new.seasons = b.seasons /\ new.daily = b.daily
  BY OneTable
<1> QED
  BY <1>1, <1>2, <1>3

LEMMA SeasonsWritten ==
  ASSUME NEW b, NEW p, NEW items,
         b = [daily |-> b.daily, seasons |-> b.seasons, standard |-> b.standard],
         \A i \in items : i.price \in Nat
  PROVE  LET new == WithSeasons(b, p, items)
         IN /\ new = [daily |-> new.daily, seasons |-> new.seasons, standard |-> new.standard]
            /\ \A r \in new.seasons : r \in b.seasons \/ (r.plan = p /\ r.price \in Nat)
            /\ new.standard = b.standard /\ new.daily = b.daily
<1> DEFINE rows == {[plan |-> p, from |-> i.from, to |-> i.to, order |-> i.order,
                     guests |-> i.guests, price |-> i.price] : i \in {j \in items : j.price > 0}}
           kept == {r \in b.seasons : r.plan # p}
           new == [b EXCEPT !.seasons = kept \cup rows]
<1>1. WithSeasons(b, p, items) = new
  BY DEF WithSeasons
<1>2. \A r \in kept \cup rows : r \in b.seasons \/ (r.plan = p /\ r.price \in Nat)
  OBVIOUS
<1> HIDE DEF kept, rows
<1>3. /\ new = [daily |-> new.daily, seasons |-> new.seasons, standard |-> new.standard]
      /\ new.seasons = kept \cup rows
      /\ new.standard = b.standard /\ new.daily = b.daily
  BY OneTable
<1> QED
  BY <1>1, <1>2, <1>3

LEMMA PricesKeep ==
  ASSUME PlansInv,
         NEW p \in Plans,
         \/ \E e \in DailyEdits : FillRange(p, e)
         \/ \E e \in StandardEdits : SetStandard(p, e)
         \/ \E seasons \in SeasonEdits : ReplaceSeasons(p, seasons)
         \/ \E r \in book.daily : r.plan = p /\ RemoveRate(r)
  PROVE  PlansInv'
<1>1. /\ book = [daily |-> book.daily, seasons |-> book.seasons, standard |-> book.standard]
      /\ \A r \in book.daily \cup book.seasons \cup book.standard : r.plan \in Live /\ r.price \in Nat
  BY DEF PlansInv, PlansTypeOK
<1>2. ASSUME NEW e \in DailyEdits, FillRange(p, e) PROVE PlansInv'
  <2> DEFINE items == {[day |-> d, guests |-> e.guests, price |-> e.price] : d \in e.days}
             new == WithDays(book, p, items)
  <2>1. Save(p, new)
    BY <1>2 DEF FillRange
  <2>2. e.price \in Nat
    BY PlansAssumption DEF FillRequest
  <2>3. p \in Live
    BY <2>1 DEF Save, Live
  <2>4. \A i \in items : i.price \in Nat
    BY <2>2
  <2> HIDE DEF items
  <2>5. /\ new = [daily |-> new.daily, seasons |-> new.seasons, standard |-> new.standard]
        /\ \A r \in new.daily : r \in book.daily \/ (r.plan = p /\ r.price \in Nat)
        /\ new.seasons = book.seasons /\ new.standard = book.standard
    BY <1>1, <2>4, DaysWritten
  <2> HIDE DEF new
  <2>6. \A r \in new.daily \cup new.seasons \cup new.standard : r.plan \in Live /\ r.price \in Nat
    BY <1>1, <2>3, <2>5
  <2> QED
    BY <2>1, <2>5, <2>6, SaveKeeps
<1>3. ASSUME NEW e \in StandardEdits, SetStandard(p, e) PROVE PlansInv'
  <2> DEFINE items == {e}
             new == WithStandard(book, p, items)
  <2>1. Save(p, new)
    BY <1>3 DEF SetStandard
  <2>2. \A i \in items : i.price \in Nat
    BY PlansAssumption DEF StandardRequest
  <2>3. p \in Live
    BY <2>1 DEF Save, Live
  <2> HIDE DEF items
  <2>4. /\ new = [daily |-> new.daily, seasons |-> new.seasons, standard |-> new.standard]
        /\ \A r \in new.standard : r \in book.standard \/ (r.plan = p /\ r.price \in Nat)
        /\ new.seasons = book.seasons /\ new.daily = book.daily
    BY <1>1, <2>2, StandardWritten
  <2> HIDE DEF new
  <2>5. \A r \in new.daily \cup new.seasons \cup new.standard : r.plan \in Live /\ r.price \in Nat
    BY <1>1, <2>3, <2>4
  <2> QED
    BY <2>1, <2>4, <2>5, SaveKeeps
<1>4. ASSUME NEW seasons \in SeasonEdits, ReplaceSeasons(p, seasons) PROVE PlansInv'
  <2> DEFINE new == WithSeasons(book, p, seasons)
  <2>1. Save(p, new)
    BY <1>4 DEF ReplaceSeasons
  <2>2. \A i \in seasons : i.price \in Nat
    BY PlansAssumption DEF SeasonRequest
  <2>3. p \in Live
    BY <2>1 DEF Save, Live
  <2>4. /\ new = [daily |-> new.daily, seasons |-> new.seasons, standard |-> new.standard]
        /\ \A r \in new.seasons : r \in book.seasons \/ (r.plan = p /\ r.price \in Nat)
        /\ new.standard = book.standard /\ new.daily = book.daily
    BY <1>1, <2>2, SeasonsWritten
  <2> HIDE DEF new
  <2>5. \A r \in new.daily \cup new.seasons \cup new.standard : r.plan \in Live /\ r.price \in Nat
    BY <1>1, <2>3, <2>4
  <2> QED
    BY <2>1, <2>4, <2>5, SaveKeeps
<1>5. ASSUME NEW r \in book.daily, r.plan = p, RemoveRate(r) PROVE PlansInv'
  <2> DEFINE new == [book EXCEPT !.daily = book.daily \ {r}]
  <2>1. Save(p, new)
    BY <1>5 DEF RemoveRate
  <2>2. /\ new = [daily |-> new.daily, seasons |-> new.seasons, standard |-> new.standard]
        /\ new.daily = book.daily \ {r}
        /\ new.standard = book.standard /\ new.seasons = book.seasons
    BY <1>1, OneTable
  <2> HIDE DEF new
  <2> QED
    BY <1>1, <2>1, <2>2, SaveKeeps
<1> QED
  BY <1>2, <1>3, <1>4, <1>5

LEMMA SyncKeeps ==
  ASSUME PlansInv, NEW w \in Workers,
         \/ \E partner \in Partners, list \in Lists : SyncRead(w, partner, list)
         \/ SyncWrite(w)
  PROVE  PlansInv'
<1>1. ASSUME NEW partner \in Partners, NEW list \in Lists, SyncRead(w, partner, list) PROVE PlansInv'
  <2> DEFINE off == {e \in listed : OwnerOf[e] = partner} \ list
             j == [step |-> "sync", plan |-> None, on |-> list, off |-> off]
  <2>1. list \subseteq Accounts \cup Customers /\ off \subseteq Accounts \cup Customers
    BY PlansAssumption DEF PlansInv, PlansTypeOK
  <2>2. j \in Sync
    BY <2>1 DEF Sync
  <2>3. edits' \in 0..MaxEdits /\ job' = [job EXCEPT ![w] = j]
    BY <1>1, BeginCounts DEF SyncRead, Begin
  <2>4. UNCHANGED <<plans, book, listed>>
    BY <1>1 DEF SyncRead
  <2> HIDE DEF j
  <2> QED
    BY <2>2, <2>3, <2>4, JobGoesOn DEF PlansInv, PlansTypeOK
<1>2. ASSUME SyncWrite(w) PROVE PlansInv'
  <2>1. job[w] \in Sync
    BY <1>2 DEF SyncWrite, PlansInv, PlansTypeOK, Free, Request
  <2>2. listed' \subseteq Accounts \cup Customers
    BY <1>2, <2>1 DEF SyncWrite, Sync, PlansInv, PlansTypeOK
  <2> QED
    BY <1>2, <2>2, JobGoesOn DEF SyncWrite, PlansInv, PlansTypeOK
<1> QED
  BY <1>1, <1>2

LEMMA PlansStepKeeps == PlansInv /\ [PlansNext]_planVars => PlansInv'
<1> SUFFICES ASSUME PlansInv, [PlansNext]_planVars PROVE PlansInv'
  OBVIOUS
<1>1. ASSUME NEW w \in Workers, NEW p \in Plans,
             (\E dto \in Creates : Create(w, p, dto)) \/ (\E dto \in Updates : Update(w, p, dto))
      PROVE  PlansInv'
  BY <1>1, CreateKeeps, UpdateKeeps
<1>2. ASSUME NEW w \in Workers, ResolveScope(w) \/ LookForRival(w) \/ Write(w)
      PROVE  PlansInv'
  BY <1>2, ResolveScopeKeeps, LookForRivalKeeps, WriteKeeps
<1>3. ASSUME NEW w \in Workers,
             (\E partner \in Partners, list \in Lists : SyncRead(w, partner, list)) \/ SyncWrite(w)
      PROVE  PlansInv'
  BY <1>3, SyncKeeps
<1>4. ASSUME NEW p \in Plans, RemovePlan(p) PROVE PlansInv'
  BY <1>4, RemovePlanKeeps
<1>5. ASSUME NEW p \in Plans,
             \/ \E e \in DailyEdits : FillRange(p, e)
             \/ \E e \in StandardEdits : SetStandard(p, e)
             \/ \E seasons \in SeasonEdits : ReplaceSeasons(p, seasons)
      PROVE  PlansInv'
  BY <1>5, PricesKeep
<1>6. ASSUME NEW r \in book.daily, RemoveRate(r) PROVE PlansInv'
  <2>1. r.plan \in Plans
    BY DEF PlansInv, PlansTypeOK, Live
  <2> QED
    BY <1>6, <2>1, PricesKeep
<1>7. CASE UNCHANGED planVars
  <2>1. UNCHANGED <<plans, book, listed, job, edits>>
    BY <1>7 DEF planVars
  <2>2. CASE Workers = {}
    <3>1. Live' = Live
      BY <2>1 DEF Live
    <3> QED
      BY <2>1, <3>1 DEF PlansInv, PlansTypeOK, ScopeCheck, OneForItsTerms, ScopeKey, Indexed, Key
  <2>3. ASSUME NEW w \in Workers PROVE PlansInv'
    <3>1. job[w] \in {Free} \cup Request \cup Sync /\ job' = [job EXCEPT ![w] = job[w]]
      BY <2>1 DEF PlansInv, PlansTypeOK
    <3> QED
      BY <2>1, <3>1, JobGoesOn DEF PlansInv, PlansTypeOK
  <2> QED
    BY <2>2, <2>3
<1> QED
  BY <1>1, <1>2, <1>3, <1>4, <1>5, <1>6, <1>7 DEF PlansNext

-----------------------------------------------------------------------------
(* Tariffs: which a partner is given, and what they cost *)

\* Of tariffs for one partner's question, equally specific ones are for the same terms.
LEMMA EquallySpecific ==
  ASSUME NEW q \in Queries, NEW x \in Plan, NEW y \in Plan,
         PlanMatches(x, q), PlanMatches(y, q), PlanSpecificity(x) = PlanSpecificity(y)
  PROVE  x.terms = y.terms
<1>1. x.terms \in Terms /\ y.terms \in Terms
  BY DEF Plan
<1> DEFINE c(plan) == Weight(plan.terms.customer, 4)
           a(plan) == Weight(plan.terms.account, 2)
           k(plan) == Weight(plan.terms.kind, 1)
<1>2. \A plan \in {x, y} : c(plan) \in {0, 4} /\ a(plan) \in {0, 2} /\ k(plan) \in {0, 1}
  BY DEF Weight
<1>3. c(x) + a(x) + k(x) = c(y) + a(y) + k(y)
  BY DEF PlanSpecificity
<1> HIDE DEF c, a, k
<1>4. c(x) = c(y) /\ a(x) = a(y) /\ k(x) = k(y)
  BY <1>2, <1>3
<1> USE DEF c, a, k
<1>5. \A f \in {"customer", "account", "kind"} : x.terms[f] = None <=> y.terms[f] = None
  BY <1>4 DEF Weight
<1>6. \A plan \in {x, y} : /\ plan.terms.partner = q.partner
                          /\ \A f \in {"customer", "account", "kind"} : plan.terms[f] \in {None, q[f]}
  BY DEF PlanMatches, Fits
<1>7. \A f \in {"partner", "customer", "account", "kind"} : x.terms[f] = y.terms[f]
  BY <1>5, <1>6
<1> QED
  BY <1>1, <1>7 DEF Terms

LEMMA PlansInvPicks == PlansInv => PickedDifferByMeal
<1> SUFFICES ASSUME PlansInv, NEW q \in Queries, NEW p \in PickPartnerPlans(q), NEW r \in PickPartnerPlans(q), p # r
             PROVE  plans[p].meal # plans[r].meal
  BY DEF PickedDifferByMeal
<1>1. /\ p \in Live /\ r \in Live
      /\ PlanMatches(plans[p], q) /\ PlanMatches(plans[r], q)
      /\ PlanSpecificity(plans[r]) <= PlanSpecificity(plans[p])
      /\ PlanSpecificity(plans[p]) <= PlanSpecificity(plans[r])
  BY DEF PickPartnerPlans
<1>2. plans[p] \in Plan /\ plans[r] \in Plan
  BY <1>1 DEF PlansInv, PlansTypeOK, OrNone, Live
<1>3. PlanSpecificity(plans[p]) \in Int /\ PlanSpecificity(plans[r]) \in Int
  BY DEF PlanSpecificity, Weight
<1>4. plans[p].terms = plans[r].terms
  BY <1>1, <1>2, <1>3, EquallySpecific
<1>5. Indexed(plans[p]) /\ Indexed(plans[r])
  BY <1>1 DEF PlanMatches, Indexed, Queries
<1>6. Key(plans[p]) # Key(plans[r])
  BY <1>1, <1>5 DEF PlansInv, OneForItsTerms, ScopeKey
<1> QED
  BY <1>4, <1>6 DEF Key

LEMMA PlansAlways == PlansSpec => []PlansInv
BY PlansStart, PlansStepKeeps, PTL DEF PlansSpec

\* Tariffs and prices keep their types, and no price is of a tariff that is gone
\* (rate, rate_season and standard_rate beside rate_plan).
THEOREM PlansTypeCorrect == PlansSpec => []PlansTypeOK
<1>1. PlansInv => PlansTypeOK
  BY DEF PlansInv
<1> QED
  BY <1>1, PlansAlways, PTL

\* Whatever two requests check and write across one another, the tariffs a
\* partner is given for a stay differ in meals (pickPartnerPlans and the index
\* rate_plan_partner_scope_key).
THEOREM PicksDifferByMeal == PlansSpec => []PickedDifferByMeal
BY PlansAlways, PlansInvPicks, PTL

(* The chain of a tariff without a parent is the tariff itself *)

LEMMA ChainAlone ==
  ASSUME NEW rows, NEW p, rows[p].parent = None
  PROVE  Chain(rows, p) = <<p>>
<1> DEFINE Up(up) ==
      [n \in 0..MaxDepth |->
        IF n = 0 THEN <<p>>
        ELSE LET lower == up[n - 1]
                 parent == rows[Last(lower)].parent
             IN IF Len(lower) < n \/ parent = None \/ rows[parent] = None THEN lower
                ELSE Append(lower, parent)]
     it == CHOOSE up : up = Up(up)
<1>1. \E up : up = Up(up)
  <2>. DEFINE f == [n \in 0..MaxDepth |-> <<p>>]
  <2>1. f = Up(f)
    BY DEF MaxDepth, Last
  <2> QED
    BY <2>1
<1>2. it = Up(it)
  BY <1>1
<1>3. Chain(rows, p) = it[MaxDepth]
  BY DEF Chain
<1> HIDE DEF it
<1>4. it[0] = <<p>>
  BY <1>2 DEF MaxDepth
<1>5. \A n \in 1..5 : it[n - 1] = <<p>> => it[n] = <<p>>
  <2> TAKE n \in 1..5
  <2> HAVE it[n - 1] = <<p>>
  <2>1. n \in 0..MaxDepth /\ n # 0
    BY DEF MaxDepth
  <2>2. it[n] = Up(it)[n]
    BY <1>2
  <2>3. rows[Last(<<p>>)].parent = None
    BY DEF Last
  <2> QED
    BY <2>1, <2>2, <2>3
<1>6. it[1] = <<p>>
  BY <1>4, <1>5
<1>7. it[2] = <<p>>
  BY <1>6, <1>5
<1>8. it[3] = <<p>>
  BY <1>7, <1>5
<1>9. it[4] = <<p>>
  BY <1>8, <1>5
<1> QED
  BY <1>3, <1>9, <1>5 DEF MaxDepth


\* Such a tariff costs what it says itself.
LEMMA QuoteAlone ==
  ASSUME NEW b, NEW rows, NEW p, NEW n, NEW g, NEW base, rows[p].parent = None
  PROVE  NightQuote(b, rows, p, n, g, base) = OwnPrice(b, rows, p, n, g, base)
<1> DEFINE own == OwnPrice(b, rows, p, n, g, base)
           priced == {i \in DOMAIN <<p>> : OwnPrice(b, rows, <<p>>[i], n, g, base) # {}}
           nearest == CHOOSE i \in priced : \A j \in priced : i <= j
           down(x) == FoldRight(LAMBDA q, y : Modified(y, rows[q]), SubSeq(<<p>>, 1, nearest - 1), x)
<1>1. Chain(rows, p) = <<p>>
  BY ChainAlone
<1>2. NightQuote(b, rows, p, n, g, base)
        = IF priced = {} THEN {} ELSE {down(x) : x \in OwnPrice(b, rows, <<p>>[nearest], n, g, base)}
  BY <1>1 DEF NightQuote
<1>3. DOMAIN <<p>> = {1} /\ <<p>>[1] = p
  OBVIOUS
<1>4. CASE own = {}
  <2>1. priced = {}
    BY <1>3, <1>4
  <2> QED
    BY <1>2, <1>4, <2>1
<1>5. CASE own # {}
  <2>1. priced = {1}
    BY <1>3, <1>5
  <2>2. nearest = 1
    BY <2>1
  <2> HIDE DEF nearest
  <2>3. SubSeq(<<p>>, 1, nearest - 1) = <<>>
    <3>1. nearest - 1 = 0
      BY <2>2
    <3>2. SubSeq(<<p>>, 1, 0) = <<>>
      OBVIOUS
    <3> QED
      BY <3>1, <3>2
  <2>4. ASSUME NEW x PROVE down(x) = x
    <3> DEFINE It(it) == [s \in SUBSET {} |->
                 IF s = {} THEN x
                 ELSE LET i == Min(s) IN Modified(it[s \ {i}], rows[<<>>[i]])]
    <3>1. \E it : it = It(it)
      <4> DEFINE it == [s \in SUBSET {} |-> x]
      <4>1. it = It(it)
        OBVIOUS
      <4> QED
        BY <4>1
    <3>2. FoldRight(LAMBDA q, y : Modified(y, rows[q]), <<>>, x) = (CHOOSE it : it = It(it))[{}]
      BY DEF FoldRight, MapThenFoldSet
    <3>3. (CHOOSE it : it = It(it))[{}] = x
      BY <3>1
    <3> QED
      BY <2>3, <3>2, <3>3
  <2>5. \A x : down(x) = x
    BY <2>4
  <2> HIDE DEF down, priced, nearest
  <2>6. NightQuote(b, rows, p, n, g, base) = {down(x) : x \in own}
    BY <1>2, <1>3, <1>5, <2>1, <2>2
  <2> QED
    BY <2>5, <2>6
<1> QED
  BY <1>4, <1>5

Tables(b) == b = [daily |-> b.daily, seasons |-> b.seasons, standard |-> b.standard]

\* What the tables say of a tariff is said by its own rows.
LEMMA OwnRowsSay ==
  ASSUME NEW b, NEW c, NEW p, Tables(b), Tables(c), OwnRows(b, p) = OwnRows(c, p)
  PROVE  /\ \A n : Daily(b, p, n) = Daily(c, p, n)
         /\ \A n, g : Baseline(b, p, n, g) = Baseline(c, p, n, g)
<1>1. DOMAIN b = {"daily", "seasons", "standard"} /\ DOMAIN c = {"daily", "seasons", "standard"}
  BY DEF Tables
<1>2. \A t \in {"daily", "seasons", "standard"} : {r \in b[t] : r.plan = p} = {r \in c[t] : r.plan = p}
  BY <1>1 DEF OwnRows
<1>3. \A n : Daily(b, p, n) = Daily(c, p, n)
  BY <1>2 DEF Daily
<1>4. \A n : Covering(b, p, n) = Covering(c, p, n)
  BY <1>2 DEF Covering
<1>5. {r \in b.standard : r.plan = p} = {r \in c.standard : r.plan = p}
  BY <1>2
<1>6. ASSUME NEW n, NEW g PROVE Baseline(b, p, n, g) = Baseline(c, p, n, g)
  <2> DEFINE Seasonal(C) == UNION {Pick(Window(s, C), g) : s \in OnTop(C)}
             Offered(C, rows) == IF Seasonal(C) # {} THEN PricesOf(Seasonal(C)) ELSE PricesOf(Pick(rows, g))
  <2>1. /\ Baseline(b, p, n, g) = Offered(Covering(b, p, n), {r \in b.standard : r.plan = p})
        /\ Baseline(c, p, n, g) = Offered(Covering(c, p, n), {r \in c.standard : r.plan = p})
    BY DEF Baseline
  <2> HIDE DEF Offered
  <2> QED
    BY <2>1, <1>4, <1>5
<1> QED
  BY <1>3, <1>6

LEMMA PricesAreOwn ==
  ASSUME NEW b, NEW c, NEW p, Tables(b), Tables(c), OwnRows(b, p) = OwnRows(c, p),
         NEW before, NEW after, before[p] = after[p], before[p].parent = None
  PROVE  Quoted(c, after, p) = Quoted(b, before, p)
<1>1. ASSUME NEW n \in Nights, NEW g \in Parties
      PROVE  /\ NightQuote(c, after, p, n, g, BaseGuests) = NightQuote(b, before, p, n, g, BaseGuests)
             /\ NightOffer(c, p, n, g, TRUE, 0) = NightOffer(b, p, n, g, TRUE, 0)
  <2>1. Daily(b, p, n) = Daily(c, p, n) /\ Baseline(b, p, n, g) = Baseline(c, p, n, g)
    BY OwnRowsSay
  <2>2. NightOffer(c, p, n, g, TRUE, 0) = NightOffer(b, p, n, g, TRUE, 0)
    BY <2>1, Zenon DEF NightOffer, DailyOffer
  <2>3. OwnPrice(c, after, p, n, g, BaseGuests) = OwnPrice(b, before, p, n, g, BaseGuests)
    BY <2>1, Zenon DEF OwnPrice
  <2> QED
    BY <2>2, <2>3, QuoteAlone
<1> DEFINE Figures(x, rows, n, g) ==
      [quote |-> NightQuote(x, rows, p, n, g, BaseGuests), offer |-> NightOffer(x, p, n, g, TRUE, 0)]
<1>2. \A n \in Nights, g \in Parties : Figures(c, after, n, g) = Figures(b, before, n, g)
  BY <1>1
<1>3. /\ Quoted(c, after, p) = [n \in Nights |-> [g \in Parties |-> Figures(c, after, n, g)]]
      /\ Quoted(b, before, p) = [n \in Nights |-> [g \in Parties |-> Figures(b, before, n, g)]]
  BY DEF Quoted
<1> HIDE DEF Figures
<1> QED
  BY <1>2, <1>3

\* What a tariff of a partner costs, as quoted and as offered, moves only when its
\* own row or its own prices are written: it has no parent it could inherit from
\* (rate_plan_partner_scope_check, chainOf and priceByPlan).
THEOREM PartnerPricesAreStable == PlansSpec => PartnerPriceStable
<1>1. ASSUME PlansInv, PlansInv', NEW p \in Live, plans[p].terms.partner # None,
             plans'[p] = plans[p], OwnRows(book, p) = OwnRows(book', p)
      PROVE  Quoted(book', plans', p) = Quoted(book, plans, p)
  <2>1. plans[p].parent = None
    BY <1>1 DEF PlansInv, ScopeCheck
  <2>2. Tables(book) /\ Tables(book')
    BY <1>1 DEF Tables, PlansInv, PlansTypeOK
  <2> QED
    BY <1>1, <2>1, <2>2, PricesAreOwn
<1>2. PlansInv /\ PlansInv' =>
        [\A p \in Live :
           plans[p].terms.partner # None /\ plans'[p] = plans[p] /\ OwnRows(book, p) = OwnRows(book', p)
             => Quoted(book', plans', p) = Quoted(book, plans, p)]_planVars
  BY <1>1
<1> QED
  BY <1>2, PlansAlways, PTL DEF PartnerPriceStable

-----------------------------------------------------------------------------
(* Rules of sale: rows and saves keep their names *)

LEMMA RulesStart == RulesInit => RulesInv
<1> SUFFICES ASSUME RulesInit PROVE RulesInv
  OBVIOUS
<1>1. Saving = {} /\ desk = [k \in Desks |-> desk[k]]
  BY DEF RulesInit, Saving
<1>2. rules = {} /\ saves = 0
  BY DEF RulesInit
<1> QED
  BY <1>1, <1>2 DEF RulesInv, RowsAreNamed, SavesAreNamed, FoundIsSo, OneRuleUnlessCrossed

\* Rows go, or names are passed over: what is left is named as before.
LEMMA FewerRows ==
  ASSUME RulesInv, rules' \subseteq rules, UNCHANGED <<desk, crossed>>, saves' \in {saves, saves + 1}
  PROVE  RulesInv'
<1>1. saves' \in Nat /\ 0..(saves - 1) \subseteq 0..(saves' - 1)
  BY DEF RulesInv
<1>2. RowsAreNamed'
  BY <1>1 DEF RulesInv, RowsAreNamed
<1>3. Saving' = Saving
  BY DEF Saving
<1>4. SavesAreNamed'
  <2>1. SavesAreNamed
    BY DEF RulesInv
  <2>2. \A k \in Saving : desk[k].id \in 0..(saves' - 1) /\ desk[k].found \in {Unset} \cup 0..(saves' - 1)
    BY <1>1, <2>1 DEF SavesAreNamed
  <2> QED BY <1>3, <2>1, <2>2 DEF SavesAreNamed
<1>5. FoundIsSo'
  BY <1>3 DEF RulesInv, FoundIsSo, RowsOf
<1>6. OneRuleUnlessCrossed'
  BY DEF RulesInv, OneRuleUnlessCrossed
<1>7. desk' = [k \in Desks |-> desk'[k]]
  BY DEF RulesInv
<1> QED
  BY <1>1, <1>2, <1>4, <1>5, <1>6, <1>7 DEF RulesInv

LEMMA FindKeeps ==
  ASSUME RulesInv, NEW k \in Desks, NEW plan \in Tariffs \cup {Unset}, NEW day \in Days, NEW says \in Bodies,
         FindRule(k, plan, day, says)
  PROVE  RulesInv'
<1> PICK found \in IF RowsOf(plan, day) = {} THEN {Unset} ELSE {r.id : r \in RowsOf(plan, day)} :
       desk' = [desk EXCEPT ![k] = [id |-> saves, plan |-> plan, day |-> day, says |-> says, found |-> found]]
  BY DEF FindRule
<1> DEFINE s == desk'[k]
<1>1. saves \in Nat /\ saves' = saves + 1 /\ UNCHANGED rules /\ desk[k] = Unset
  BY DEF FindRule, RulesInv
<1>2. \A r \in rules : r.id \in 0..(saves - 1) /\ r.id # Unset
  BY <1>1, RulesAssumption DEF RulesInv, RowsAreNamed
<1>3. /\ s = [id |-> saves, plan |-> plan, day |-> day, says |-> says, found |-> found]
      /\ \A h \in Desks : h # k => desk'[h] = desk[h]
      /\ desk' = [h \in Desks |-> desk'[h]]
  BY DEF RulesInv
<1>4. Saving' \subseteq Saving \cup {k} /\ k \notin Saving
  BY <1>1, <1>3 DEF Saving
<1>5. \A h \in Saving : h \in Desks /\ h # k /\ desk'[h] = desk[h] /\ desk[h].id \in 0..(saves - 1)
                        /\ desk[h].found \in {Unset} \cup 0..(saves - 1)
  BY <1>3, <1>4 DEF RulesInv, SavesAreNamed, Saving
<1>6. found = Unset => RowsOf(plan, day) = {}
  BY <1>2 DEF RowsOf
<1>7. found # Unset => \E r \in rules : r.id = found /\ r.plan = plan /\ r.day = day
  BY DEF RowsOf
<1>8. found \in {Unset} \cup 0..(saves - 1)
  BY <1>2, <1>7
<1>9. saves # Unset /\ \A i \in 0..(saves - 1) : i \in 0..(saves' - 1) /\ i # saves /\ i # Unset
  BY <1>1, RulesAssumption
<1>10. saves \in 0..(saves' - 1)
  BY <1>1
<1>11. says \in RuleBody
  BY RulesAssumption
<1>12. RowsAreNamed'
  BY <1>1, <1>9 DEF RulesInv, RowsAreNamed
<1>13. SavesAreNamed'
  <2>1. /\ s.id \in 0..(saves' - 1) /\ s.says \in RuleBody
        /\ s.found \in {Unset} \cup 0..(saves' - 1)
        /\ \A r \in rules : r.id # s.id /\ (r.id = s.found => r.plan = s.plan /\ r.day = s.day)
    <3>1. s.id = saves /\ s.says = says /\ s.found = found /\ s.plan = plan /\ s.day = day
      BY <1>3
    <3>2. \A r \in rules : r.id # saves
      BY <1>2, <1>9
    <3>3. \A r \in rules : r.id = found => r.plan = plan /\ r.day = day
      BY <1>2, <1>7 DEF RulesInv, RowsAreNamed
    <3> HIDE DEF s
    <3> QED
      BY <3>1, <3>2, <3>3, <1>8, <1>9, <1>10, <1>11
  <2>2. \A h \in Saving : desk'[h].id # s.found /\ desk'[h].id # s.id /\ s.id # desk'[h].found
    <3>1. s.id = saves /\ s.found = found
      BY <1>3
    <3>2. \A h \in Saving : desk[h].id # found
      BY <1>5, <1>7, <1>9 DEF RulesInv, SavesAreNamed
    <3> HIDE DEF s
    <3> QED
      BY <3>1, <3>2, <1>5, <1>9
  <2>3. s.id # s.found
    BY <1>3, <1>8, <1>9
  <2>4. \A h \in Saving :
          /\ desk'[h].id \in 0..(saves' - 1) /\ desk'[h].says \in RuleBody
          /\ desk'[h].found \in {Unset} \cup 0..(saves' - 1)
          /\ \A r \in rules : r.id # desk'[h].id /\ (r.id = desk'[h].found => r.plan = desk'[h].plan /\ r.day = desk'[h].day)
          /\ \A g \in Saving : desk'[g].id # desk'[h].found /\ (g # h => desk'[g].id # desk'[h].id)
    <3> SUFFICES ASSUME NEW h \in Saving
                 PROVE  /\ desk[h].id \in 0..(saves' - 1) /\ desk[h].says \in RuleBody
                        /\ desk[h].found \in {Unset} \cup 0..(saves' - 1)
                        /\ \A r \in rules : r.id # desk[h].id /\ (r.id = desk[h].found => r.plan = desk[h].plan /\ r.day = desk[h].day)
                        /\ \A g \in Saving : desk[g].id # desk[h].found /\ (g # h => desk[g].id # desk[h].id)
      BY <1>5
    <3> QED
      BY <1>5, <1>9 DEF RulesInv, SavesAreNamed
  <2> HIDE DEF s
  <2> QED
    BY <2>1, <2>2, <2>3, <2>4, <1>1, <1>4 DEF SavesAreNamed, s
<1>14. FoundIsSo'
  <2> SUFFICES ASSUME ~crossed'
               PROVE  \A h \in Saving' :
                        /\ desk'[h].found = Unset => RowsOf(desk'[h].plan, desk'[h].day) = {}
                        /\ \A g \in Saving' \ {h} : ~(desk'[g].plan = desk'[h].plan /\ desk'[g].day = desk'[h].day)
    BY <1>1 DEF FoundIsSo, RowsOf
  <2>1. ~crossed /\ \A h \in Saving : ~(desk[h].plan = plan /\ desk[h].day = day)
    BY DEF FindRule, Saving
  <2>2. s.found = found /\ s.plan = plan /\ s.day = day
    BY <1>3
  <2> HIDE DEF s
  <2> QED
    BY <2>1, <2>2, <1>4, <1>5, <1>6 DEF RulesInv, FoundIsSo, s
<1>15. OneRuleUnlessCrossed'
  BY <1>1 DEF RulesInv, OneRuleUnlessCrossed, FindRule
<1> QED
  BY <1>1, <1>3, <1>12, <1>13, <1>14, <1>15 DEF RulesInv

\* The rule found is replaced: its name, tariff and day stay.
LEMMA Replaced ==
  ASSUME RulesInv, NEW k \in Saving, NEW says \in RuleBody,
         NEW old \in rules, old.id = desk[k].found, says = desk[k].says,
         rules' = (rules \ {old}) \cup {[id |-> desk[k].found, plan |-> desk[k].plan, day |-> desk[k].day, says |-> says]},
         desk' = [desk EXCEPT ![k] = Unset], UNCHANGED <<saves, crossed>>
  PROVE  RulesInv'
<1> DEFINE new == [id |-> desk[k].found, plan |-> desk[k].plan, day |-> desk[k].day, says |-> says]
<1>1. new.id = old.id /\ new.plan = old.plan /\ new.day = old.day /\ new.says = says
  BY DEF RulesInv, SavesAreNamed
<1> HIDE DEF new
<1>2. rules' = (rules \ {old}) \cup {new}
  BY DEF new
<1>3. Saving' = Saving \ {k} /\ \A h \in Saving' : desk'[h] = desk[h]
  BY DEF RulesInv, Saving
<1>4. RowsAreNamed'
  BY <1>1, <1>2 DEF RulesInv, RowsAreNamed
<1>5. SavesAreNamed'
  BY <1>1, <1>2, <1>3 DEF RulesInv, SavesAreNamed
<1>6. FoundIsSo'
  BY <1>1, <1>2, <1>3 DEF RulesInv, FoundIsSo, RowsOf
<1>7. OneRuleUnlessCrossed'
  BY <1>1, <1>2 DEF RulesInv, OneRuleUnlessCrossed
<1> QED
  BY <1>4, <1>5, <1>6, <1>7 DEF RulesInv

\* A rule not found is added: no save under way has its name or finds it.
LEMMA Added ==
  ASSUME RulesInv, NEW k \in Saving, desk[k].found = Unset, ~IndexRefuses(desk[k].plan, desk[k].day),
         rules' = rules \cup {[id |-> desk[k].id, plan |-> desk[k].plan, day |-> desk[k].day, says |-> desk[k].says]},
         desk' = [desk EXCEPT ![k] = Unset], UNCHANGED <<saves, crossed>>
  PROVE  RulesInv'
<1> DEFINE new == [id |-> desk[k].id, plan |-> desk[k].plan, day |-> desk[k].day, says |-> desk[k].says]
<1>1. new.id = desk[k].id /\ new.plan = desk[k].plan /\ new.day = desk[k].day /\ new.says = desk[k].says
  OBVIOUS
<1> HIDE DEF new
<1>2. rules' = rules \cup {new}
  BY DEF new
<1>3. Saving' = Saving \ {k} /\ \A h \in Saving' : desk'[h] = desk[h]
  BY DEF RulesInv, Saving
<1>4. RowsAreNamed'
  BY <1>1, <1>2 DEF RulesInv, RowsAreNamed, SavesAreNamed
<1>5. SavesAreNamed'
  <2>1. \A h \in Saving \ {k} : new.id # desk[h].id /\ new.id # desk[h].found
    <3> SUFFICES ASSUME NEW h \in Saving \ {k} PROVE desk[k].id # desk[h].id /\ desk[k].id # desk[h].found
      BY <1>1
    <3>1. desk[k].id # desk[h].found
      BY DEF RulesInv, SavesAreNamed
    <3>2. desk[k].id # desk[h].id
      BY DEF RulesInv, SavesAreNamed
    <3> QED
      BY <3>1, <3>2
  <2>2. ASSUME NEW h \in Saving \ {k}
        PROVE  /\ desk[h].id \in 0..(saves - 1) /\ desk[h].says \in RuleBody
               /\ desk[h].found \in {Unset} \cup 0..(saves - 1)
               /\ \A r \in rules' : r.id # desk[h].id /\ (r.id = desk[h].found => r.plan = desk[h].plan /\ r.day = desk[h].day)
               /\ \A g \in Saving : desk[g].id # desk[h].found /\ (g # h => desk[g].id # desk[h].id)
    BY <1>2, <2>1 DEF RulesInv, SavesAreNamed
  <2> QED
    BY <1>3, <2>2 DEF SavesAreNamed
<1>6. FoundIsSo'
  BY <1>1, <1>2, <1>3 DEF RulesInv, FoundIsSo, RowsOf
<1>7. OneRuleUnlessCrossed'
  <2>1. ASSUME NEW r \in rules, r.plan = new.plan, r.day = new.day
        PROVE  new.plan = Unset /\ crossed
    BY <1>1, <2>1 DEF RulesInv, FoundIsSo, RowsOf, IndexRefuses
  <2> QED
    BY <1>2, <2>1 DEF RulesInv, OneRuleUnlessCrossed
<1> QED
  BY <1>4, <1>5, <1>6, <1>7 DEF RulesInv

\* A save ends without a row.
LEMMA Dropped ==
  ASSUME RulesInv, NEW k \in Saving, desk' = [desk EXCEPT ![k] = Unset], UNCHANGED <<rules, saves, crossed>>
  PROVE  RulesInv'
<1>1. Saving' = Saving \ {k} /\ \A h \in Saving' : desk'[h] = desk[h]
  BY DEF RulesInv, Saving
<1>2. RowsAreNamed' /\ OneRuleUnlessCrossed'
  BY DEF RulesInv, RowsAreNamed, OneRuleUnlessCrossed
<1>3. SavesAreNamed'
  <2>1. SavesAreNamed /\ rules' = rules /\ saves' = saves
    BY DEF RulesInv
  <2> QED
    BY <1>1, <2>1 DEF SavesAreNamed
<1>4. FoundIsSo'
  BY <1>1 DEF RulesInv, FoundIsSo, RowsOf
<1>5. saves' \in Nat /\ desk' = [h \in Desks |-> desk'[h]]
  BY DEF RulesInv
<1> QED
  BY <1>2, <1>3, <1>4, <1>5 DEF RulesInv

LEMMA WriteRuleKeeps ==
  ASSUME RulesInv, NEW k \in Desks, WriteRule(k)
  PROVE  RulesInv'
<1> DEFINE s == desk[k]
           row(id) == [id |-> id, plan |-> s.plan, day |-> s.day, says |-> s.says]
           old == {r \in rules : r.id = s.found}
<1>1. k \in Saving /\ desk' = [desk EXCEPT ![k] = Unset] /\ UNCHANGED <<saves, crossed>> /\ s.says \in RuleBody
  BY DEF WriteRule, Saving, RulesInv, SavesAreNamed
<1>2. \/ s.found # Unset /\ old # {} /\ rules' = (rules \ old) \cup {row(s.found)}
      \/ s.found = Unset /\ ~IndexRefuses(s.plan, s.day) /\ rules' = rules \cup {row(s.id)}
      \/ rules' = rules
  BY DEF WriteRule
<1>3. CASE s.found # Unset /\ old # {} /\ rules' = (rules \ old) \cup {row(s.found)}
  <2>1. PICK r \in rules : r.id = s.found
    BY <1>3
  <2>2. old = {r}
    BY <2>1 DEF RulesInv, RowsAreNamed
  <2> QED
    BY <1>1, <1>3, <2>1, <2>2, Replaced
<1>4. CASE s.found = Unset /\ ~IndexRefuses(s.plan, s.day) /\ rules' = rules \cup {row(s.id)}
  BY <1>1, <1>4, Added
<1>5. CASE rules' = rules
  BY <1>1, <1>5, Dropped
<1> QED
  BY <1>2, <1>3, <1>4, <1>5

LEMMA RulesStepKeeps == RulesInv /\ [RulesNext]_ruleVars => RulesInv'
<1> SUFFICES ASSUME RulesInv, [RulesNext]_ruleVars PROVE RulesInv'
  OBVIOUS
<1>1. ASSUME NEW k \in Desks, NEW plan \in Tariffs \cup {Unset}, NEW day \in Days, NEW says \in Bodies,
             FindRule(k, plan, day, says)
      PROVE  RulesInv'
  BY <1>1, FindKeeps
<1>2. ASSUME NEW k \in Desks, WriteRule(k) PROVE RulesInv'
  BY <1>2, WriteRuleKeeps
<1>3. ASSUME NEW r \in rules, RemoveRule(r) PROVE RulesInv'
  BY <1>3, FewerRows DEF RemoveRule
<1>4. ASSUME NEW plan \in Tariffs, TariffGone(plan) PROVE RulesInv'
  BY <1>4, FewerRows DEF TariffGone
<1>5. ASSUME NEW day \in Days, NEW b \in GridBodies, BulkUpdate(day, b) PROVE RulesInv'
  BY <1>5, FewerRows DEF BulkUpdate
<1>6. CASE RoomsChange
  BY <1>6, FewerRows DEF RoomsChange
<1>7. CASE UNCHANGED ruleVars
  BY <1>7, FewerRows DEF ruleVars
<1> QED
  BY <1>1, <1>2, <1>3, <1>4, <1>5, <1>6, <1>7 DEF RulesNext

\* A day has one rule of a tariff always, and one of all tariffs unless two saves
\* of it were under way at once (RestrictionsService.upsert, the index of restriction).
THEOREM OneRuleADay == RulesSpec => []OneRuleUnlessCrossed
<1>1. RulesInv => OneRuleUnlessCrossed
  BY DEF RulesInv
<1> QED
  BY <1>1, RulesStart, RulesStepKeeps, PTL DEF RulesSpec

-----------------------------------------------------------------------------
(* Availability and the check read the same rule of all tariffs *)

\* A stay of no tariff in particular: the one rule of the day is what both read.
LEMMA SameRule ==
  ASSUME RulesInv, ~crossed, NEW s, s.plan = Unset, NEW d
  PROVE  /\ RowsFor(s, d) = RowsOf(Unset, d) /\ Preferred(s, d) = RowsOf(Unset, d) /\ OnDeparture(s, d) = RowsOf(Unset, d)
         /\ \A r, t \in RowsOf(Unset, d) : r = t
         /\ \A r \in RowsOf(Unset, d) : r.says \in RuleBody
<1>1. RowsFor(s, d) = RowsOf(Unset, d)
  BY DEF RowsFor
<1>2. \A r \in RowsOf(Unset, d) : r.plan = Unset /\ r.day = d /\ r \in rules
  BY DEF RowsOf
<1>3. Preferred(s, d) = RowsOf(Unset, d)
  BY <1>1, <1>2 DEF Preferred
<1>4. OnDeparture(s, d) = RowsOf(Unset, d)
  BY <1>1, <1>2 DEF OnDeparture
<1> QED
  BY <1>1, <1>2, <1>3, <1>4 DEF RulesInv, OneRuleUnlessCrossed, RowsAreNamed

\* A rule that lets a night in is broken only in what availability does not read.
LEMMA AllowedNight ==
  ASSUME NEW s \in Stays, NEW d \in NightsOf(s), NEW says \in {Unset} \cup RuleBody, Allows(s, d, says)
  PROVE  NightViolations(s, says) \subseteq Unread /\ (d = s.arrival => ArrivalViolations(s, says) \subseteq Unread)
<1>1. CASE says = Unset
  BY <1>1 DEF NightViolations, ArrivalViolations
<1>2. CASE says # Unset
  <2>1. says \in RuleBody /\ ~says.closed /\ ~(says.cta /\ d = s.arrival)
    BY <1>2 DEF Allows
  <2>2. LengthOf(s) \in Int
    BY DEF Stays, Days, LengthOf
  <2>3. says.minLos \in Number /\ says.minLosArrival \in Number
    BY <2>1 DEF RuleBody
  <2>4. LengthOf(s) >= MinLos(s, d, says) /\ ~TooLong(s, MaxLos(says))
    BY <1>2 DEF Allows
  <2>5. ~TooShort(s, says.minLos)
    BY <2>2, <2>3, <2>4 DEF TooShort, MinLos, Most, OrElse, Number
  <2>6. d = s.arrival => ~TooShort(s, says.minLosArrival)
    BY <2>2, <2>3, <2>4 DEF TooShort, MinLos, Most, OrElse, Number
  <2>7. ~TooLong(s, says.maxLos)
    BY <2>4 DEF TooLong, MaxLos, OrElse
  <2>8. NightViolations(s, says) \subseteq Unread
    <3> SUFFICES ASSUME NEW v \in NightViolations(s, says) PROVE v = "STOP_SELL"
      BY DEF Unread
    <3>1. v \in {"CLOSED", "STOP_SELL", "MIN_LOS", "MAX_LOS"}
      BY <1>2 DEF NightViolations
    <3>2. v # "CLOSED"
      BY <1>2, <2>1 DEF NightViolations
    <3>3. v # "MIN_LOS"
      BY <1>2, <2>5 DEF NightViolations
    <3>4. v # "MAX_LOS"
      BY <1>2, <2>7 DEF NightViolations
    <3> QED
      BY <3>1, <3>2, <3>3, <3>4
  <2>9. ASSUME d = s.arrival PROVE ArrivalViolations(s, says) \subseteq Unread
    <3> SUFFICES ASSUME NEW v \in ArrivalViolations(s, says) PROVE v \in {"MAX_LOS_ARRIVAL", "MIN_ADVANCE", "MAX_ADVANCE"}
      BY DEF Unread
    <3>1. v \in {"CTA", "MIN_LOS_ARRIVAL", "MAX_LOS_ARRIVAL", "MIN_ADVANCE", "MAX_ADVANCE"}
      BY <1>2 DEF ArrivalViolations
    <3>2. v # "CTA"
      BY <1>2, <2>1, <2>9 DEF ArrivalViolations
    <3>3. v # "MIN_LOS_ARRIVAL"
      BY <1>2, <2>6, <2>9 DEF ArrivalViolations
    <3> QED
      BY <3>1, <3>2, <3>3
  <2> QED
    BY <2>8, <2>9
<1> QED
  BY <1>1, <1>2

LEMMA RulesInvKnows == RulesInv => BookableKnowsRules
<1> SUFFICES ASSUME RulesInv, ~crossed, NEW s \in Stays, s.plan = Unset, TRUE \in Bookable(s),
                    NEW violations \in Violations(s)
             PROVE  violations \subseteq Unread
  BY DEF BookableKnowsRules
<1> DEFINE choice(d) == IF RowsOf(Unset, d) = {} THEN {Unset} ELSE {r.says : r \in RowsOf(Unset, d)}
           any(d) == RowsFor(s, d)
           read(d) == IF d = s.departure THEN OnDeparture(s, d) ELSE Preferred(s, d)
<1>1. s.arrival \in Int /\ s.departure \in Int /\ s.arrival < s.departure
  BY DEF Stays, Days
<1>2. /\ s.arrival \in NightsOf(s) /\ s.departure \in s.arrival..s.departure
      /\ NightsOf(s) \subseteq s.arrival..s.departure
  BY <1>1 DEF NightsOf
<1>3. \A d : any(d) = RowsOf(Unset, d) /\ read(d) = RowsOf(Unset, d)
  BY SameRule
<1>4. PICK g \in Picks(any, NightsOf(s)) : \A d \in NightsOf(s) : Allows(s, d, g[d])
  BY DEF Bookable
<1>5. PICK f \in Picks(read, s.arrival..s.departure) :
        violations = (UNION {NightViolations(s, f[d]) : d \in NightsOf(s)})
                       \cup ArrivalViolations(s, f[s.arrival]) \cup DepartureViolations(f[s.departure])
  BY DEF Violations
<1> HIDE DEF any, read
<1>6. \A d \in NightsOf(s) : g[d] \in choice(d)
  BY <1>3 DEF Picks
<1>7. \A d \in s.arrival..s.departure : f[d] \in choice(d)
  BY <1>3 DEF Picks
<1>8. \A d : \A x, y \in choice(d) : x = y /\ x \in {Unset} \cup RuleBody
  BY SameRule
<1> HIDE DEF choice
<1>9. \A d \in NightsOf(s) : Allows(s, d, f[d]) /\ f[d] \in {Unset} \cup RuleBody
  <2> SUFFICES ASSUME NEW d \in NightsOf(s) PROVE Allows(s, d, f[d]) /\ f[d] \in {Unset} \cup RuleBody
    OBVIOUS
  <2>1. f[d] = g[d] /\ f[d] \in {Unset} \cup RuleBody
    BY <1>2, <1>6, <1>7, <1>8
  <2> QED
    BY <1>4, <2>1
<1>10. \A d \in NightsOf(s) : NightViolations(s, f[d]) \subseteq Unread
  BY <1>9, AllowedNight
<1>11. ArrivalViolations(s, f[s.arrival]) \subseteq Unread
  BY <1>2, <1>9, AllowedNight
<1>12. DepartureViolations(f[s.departure]) \subseteq Unread
  BY DEF DepartureViolations, Unread
<1>13. UNION {NightViolations(s, f[d]) : d \in NightsOf(s)} \subseteq Unread
  BY <1>10
<1> DEFINE nights == UNION {NightViolations(s, f[d]) : d \in NightsOf(s)}
           arrival == ArrivalViolations(s, f[s.arrival])
           departure == DepartureViolations(f[s.departure])
<1>14. violations = nights \cup arrival \cup departure
  BY <1>5
<1>15. nights \subseteq Unread /\ arrival \subseteq Unread /\ departure \subseteq Unread
  BY <1>11, <1>12, <1>13
<1> HIDE DEF nights, arrival, departure
<1> QED
  BY <1>14, <1>15

\* However saves, removals and changes of the grid interleave: a stay of no tariff
\* in particular that AvailabilityService calls bookable breaks, for
\* RestrictionsService.check, none of the rules availability reads.
THEOREM BookableAreLetIn == RulesSpec => []BookableKnowsRules
BY RulesInvKnows, RulesStart, RulesStepKeeps, PTL DEF RulesSpec

-----------------------------------------------------------------------------
(* News *)

LEMMA NewsStart == Init => NewsInv
<1> SUFFICES ASSUME Init PROVE NewsInv
  OBVIOUS
<1>1. TypeOK
  BY NewsAssumption DEF Init, TypeOK, Idle, Stamp
<1> QED BY <1>1 DEF Init, NewsInv, NewestIsHeard, Idle

\* A handler goes on: of what it still had to tell, some is told and some is lost.
LEMMA HandlerMoves ==
  ASSUME NewsInv, NEW w \in Writers, writer[w].n \in Stamp, UNCHANGED <<now, heard, newest, due>>,
         NEW row \in [n : Stamp, tell : {<<>>} \cup {<<t>> : t \in Types}],
         writer' = [writer EXCEPT ![w] = row], row.n <= now, row = Idle \/ row.n = writer[w].n,
         NEW sent \in SUBSET [about : {writer[w].n}, type : Types, says : Stamp, tries : {0}],
         \A e \in sent : e.says >= e.about, news' = news \cup sent,
         lost' = lost \/ lost' = lost \cup {writer[w].n}, faults' \in 0..MaxFaults,
         writer[w].tell # <<>> => sent # {} \/ writer[w].n \in lost'
  PROVE  NewsInv'
<1>1. writer'[w] = row /\ \A v \in Writers \ {w} : writer'[v] = writer[v]
  BY DEF NewsInv, TypeOK
<1>2. \A e \in sent : e \in Event /\ e.about = writer[w].n /\ e.tries < Attempts
  BY NewsAssumption DEF Event
<1>3. TypeOK'
  <2>1. writer' \in [Writers -> [n : Stamp, tell : {<<>>} \cup {<<t>> : t \in Types} \cup {<<"fact", "changed">>}]]
    BY DEF NewsInv, TypeOK
  <2>2. lost' \subseteq Stamp
    BY DEF NewsInv, TypeOK
  <2>3. \A e \in news' : e \in Event /\ e.tries < Attempts
    BY <1>2 DEF NewsInv, TypeOK
  <2> QED BY <2>1, <2>2, <2>3 DEF NewsInv, TypeOK
<1>4. \A v \in Writers : writer'[v].n <= now
  BY <1>1 DEF NewsInv
<1>5. NewestIsHeard'
  <2> SUFFICES ASSUME NEW n \in due PROVE Owes(n)' \/ n \in lost' \/ newest >= n
    BY DEF NewestIsHeard
  <2>1. CASE n \in lost \/ newest >= n
    BY <2>1
  <2>2. CASE \E e \in news : e.about = n
    BY <2>2 DEF Owes
  <2>3. CASE \E v \in Writers \ {w} : writer[v].n = n /\ writer[v].tell # <<>>
    BY <1>1, <2>3 DEF Owes
  <2>4. CASE writer[w].n = n /\ writer[w].tell # <<>>
    BY <1>2, <2>4 DEF Owes
  <2> QED BY <2>1, <2>2, <2>3, <2>4 DEF NewsInv, NewestIsHeard, Owes
<1> QED BY <1>3, <1>4, <1>5 DEF NewsInv

LEMMA CommitKeeps ==
  ASSUME NewsInv, NEW w \in Writers, NEW kind \in Kinds, Commit(w, kind)
  PROVE  NewsInv'
<1>1. now \in Nat /\ now' = now + 1 /\ now' \in Stamp /\ now' \in 1..now'
  BY NewsAssumption DEF NewsInv, TypeOK, Commit, Stamp
<1>2. Tells(kind) \in {<<>>} \cup {<<t>> : t \in Types} \cup {<<"fact", "changed">>}
  BY NewsAssumption DEF Tells, AllKinds, Types
<1>3. /\ writer[w].tell = <<>>
      /\ writer'[w] = [n |-> now', tell |-> Tells(kind)]
      /\ \A v \in Writers \ {w} : writer'[v] = writer[v]
      /\ writer' \in [Writers -> [n : Stamp, tell : {<<>>} \cup {<<t>> : t \in Types} \cup {<<"fact", "changed">>}]]
  BY <1>1, <1>2 DEF NewsInv, TypeOK, Commit, Idle
<1>4. due' \subseteq 1..now' /\ due' \subseteq Stamp
  <2>1. due \subseteq 1..now /\ due \subseteq Stamp /\ due' \subseteq due \cup {now'}
    BY DEF NewsInv, TypeOK, Commit
  <2>2. 1..now \subseteq 1..now'
    BY <1>1
  <2> QED BY <1>1, <2>1, <2>2
<1>5. TypeOK'
  BY <1>1, <1>3, <1>4 DEF NewsInv, TypeOK, Commit
<1>6. \A v \in Writers : writer'[v].n <= now'
  <2>1. \A v \in Writers \ {w} : writer[v].n \in Nat /\ writer[v].n <= now
    BY NewsAssumption DEF NewsInv, TypeOK, Stamp
  <2> QED BY <1>1, <1>3, <2>1
<1>7. NewestIsHeard'
  <2> SUFFICES ASSUME NEW n \in due' PROVE Owes(n)' \/ n \in lost \/ newest >= n
    BY DEF NewestIsHeard, Commit
  <2>1. CASE n \in due
    <3>1. Owes(n) => Owes(n)'
      BY <1>3 DEF Owes, Commit
    <3> QED BY <2>1, <3>1 DEF NewsInv, NewestIsHeard
  <2>2. CASE n \notin due
    <3>1. n = now' /\ Tells(kind) # <<>>
      BY <2>2 DEF Commit
    <3> QED BY <1>3, <3>1 DEF Owes
  <2> QED BY <2>1, <2>2
<1> QED BY <1>4, <1>5, <1>6, <1>7 DEF NewsInv, Commit

LEMMA HandlerKeeps ==
  ASSUME NewsInv, NEW w \in Writers, Emit(w) \/ EmitFails(w) \/ Finish(w) \/ HandlerFails(w)
  PROVE  NewsInv'
<1> DEFINE n == writer[w].n
           rest == [writer[w] EXCEPT !.tell = Tail(@)]
<1>1. /\ writer[w] \in [n : Stamp, tell : {<<>>} \cup {<<t>> : t \in Types} \cup {<<"fact", "changed">>}]
      /\ n \in Stamp /\ n \in Nat /\ now \in Stamp /\ now \in Nat /\ n <= now /\ faults \in 0..MaxFaults
  BY NewsAssumption DEF NewsInv, TypeOK, Stamp
<1>2. ASSUME writer[w].tell # <<>>
      PROVE  /\ rest \in [n : Stamp, tell : {<<>>} \cup {<<t>> : t \in Types}] /\ rest.n = n
             /\ Head(writer[w].tell) \in Types
  <2>1. PICK t \in Types : writer[w].tell = <<t>> \/ writer[w].tell = <<"fact", "changed">>
    BY <1>1, <1>2 DEF Types
  <2>2. CASE writer[w].tell = <<t>>
    <3>1. Tail(<<t>>) = <<>> /\ Head(<<t>>) = t
      OBVIOUS
    <3> QED BY <1>1, <2>2, <3>1
  <2>3. CASE writer[w].tell = <<"fact", "changed">>
    <3>1. Tail(<<"fact", "changed">>) = <<"changed">> /\ Head(<<"fact", "changed">>) = "fact"
      OBVIOUS
    <3> QED BY <1>1, <2>3, <3>1 DEF Types
  <2> QED BY <2>1, <2>2, <2>3
<1>3. /\ Idle \in [n : Stamp, tell : {<<>>} \cup {<<t>> : t \in Types}]
      /\ Idle.n = 0 /\ 0 <= now
  BY <1>1, NewsAssumption DEF Idle, Stamp
<1>4. CASE Emit(w)
  <2> DEFINE type == Head(writer[w].tell)
             e == [about |-> n, type |-> type, says |-> Says(n, type), tries |-> 0]
  <2>1. writer[w].tell # <<>> /\ writer' = [writer EXCEPT ![w] = rest] /\ news' = news \cup {e}
    BY <1>4 DEF Emit, NewsInv, TypeOK
  <2>2. Says(n, type) \in Stamp /\ Says(n, type) >= n
    BY <1>1, <1>2, <2>1 DEF Says, Types
  <2>3. {e} \in SUBSET [about : {n}, type : Types, says : Stamp, tries : {0}] /\ \A x \in {e} : x.says >= x.about
    BY <1>2, <2>1, <2>2
  <2>4. UNCHANGED <<now, heard, newest, due, lost>> /\ faults' \in 0..MaxFaults
    BY <1>1, <1>4 DEF Emit
  <2> HIDE DEF e, rest
  <2> QED BY <1>1, <1>2, <2>1, <2>3, <2>4, HandlerMoves
<1>5. CASE EmitFails(w)
  <2>1. writer[w].tell # <<>> /\ writer' = [writer EXCEPT ![w] = rest] /\ news' = news \cup {}
    BY <1>5 DEF EmitFails, NewsInv, TypeOK
  <2>2. UNCHANGED <<now, heard, newest, due>> /\ lost' = lost \cup {n} /\ n \in lost' /\ faults' \in 0..MaxFaults
    BY <1>1, <1>5, NewsAssumption DEF EmitFails
  <2>3. {} \in SUBSET [about : {n}, type : Types, says : Stamp, tries : {0}] /\ \A x \in {} : x.says >= x.about
    OBVIOUS
  <2> HIDE DEF rest
  <2> QED BY <1>1, <1>2, <2>1, <2>2, <2>3, HandlerMoves
<1>6. CASE Finish(w)
  <2>1. writer[w].tell = <<>> /\ writer' = [writer EXCEPT ![w] = Idle] /\ news' = news \cup {}
    BY <1>6 DEF Finish
  <2>2. UNCHANGED <<now, heard, newest, due, lost>> /\ faults' \in 0..MaxFaults
    BY <1>1, <1>6 DEF Finish
  <2> QED BY <1>1, <1>3, <2>1, <2>2, HandlerMoves
<1>7. CASE HandlerFails(w)
  <2>1. writer' = [writer EXCEPT ![w] = Idle] /\ news' = news \cup {}
    BY <1>7 DEF HandlerFails
  <2>2. UNCHANGED <<now, heard, newest, due>> /\ lost' = lost \cup {n} /\ n \in lost' /\ faults' \in 0..MaxFaults
    BY <1>1, <1>7, NewsAssumption DEF HandlerFails
  <2>3. {} \in SUBSET [about : {n}, type : Types, says : Stamp, tries : {0}] /\ \A x \in {} : x.says >= x.about
    OBVIOUS
  <2> QED BY <1>1, <1>3, <2>1, <2>2, <2>3, HandlerMoves
<1> QED BY <1>4, <1>5, <1>6, <1>7

LEMMA AttemptKeeps ==
  ASSUME NewsInv, NEW e \in news, Attempt(e)
  PROVE  NewsInv'
<1>1. /\ e \in Event /\ e.about \in Stamp /\ e.says \in Stamp /\ e.tries \in Nat
      /\ e.about \in Nat /\ e.says \in Nat /\ e.says >= e.about /\ newest \in Stamp /\ newest \in Nat
  BY NewsAssumption DEF NewsInv, TypeOK, Event, Stamp
<1>2. /\ newest' \in Stamp /\ newest' >= newest /\ heard' \subseteq Stamp
      /\ Received(e) => newest' >= e.about
      /\ UNCHANGED <<now, writer, due, faults>>
  BY <1>1 DEF Attempt, Accepted, Rejected, Failed, Received, NotReceived, NewsInv, TypeOK
<1>3. PICK next \in SUBSET Event :
        /\ news' = (news \ {e}) \cup next
        /\ \A x \in next : x.says >= x.about /\ x.about = e.about /\ x.tries < Attempts
        /\ lost \subseteq lost' /\ lost' \subseteq lost \cup {e.about}
        /\ next # {} \/ e.about \in lost' \/ newest' >= e.about
  <2>1. CASE Accepted(e) \/ Rejected(e)
    <3>1. news' = (news \ {e}) \cup {} /\ {} \in SUBSET Event
      BY <2>1 DEF Accepted, Rejected
    <3> QED BY <1>2, <2>1, <3>1 DEF Accepted, Rejected
  <2>2. CASE Failed(e) /\ e.tries + 1 < Attempts
    <3> DEFINE again == [e EXCEPT !.tries = @ + 1]
    <3>1. again \in Event /\ again.says = e.says /\ again.about = e.about /\ again.tries < Attempts
      BY <1>1, <2>2 DEF Event
    <3>2. news' = (news \ {e}) \cup {again} /\ lost' = lost
      BY <2>2 DEF Failed
    <3> HIDE DEF again
    <3> QED BY <1>1, <3>1, <3>2
  <2>3. CASE Failed(e) /\ ~(e.tries + 1 < Attempts)
    <3>1. news' = (news \ {e}) \cup {} /\ {} \in SUBSET Event /\ lost' = lost \cup {e.about}
      BY <2>3 DEF Failed
    <3> QED BY <3>1
  <2> QED BY <2>1, <2>2, <2>3 DEF Attempt
<1>4. TypeOK'
  <2>1. lost' \subseteq Stamp
    BY <1>1, <1>3 DEF NewsInv, TypeOK
  <2>2. \A x \in news' : x \in Event /\ x.tries < Attempts
    BY <1>3 DEF NewsInv, TypeOK
  <2> QED BY <1>2, <2>1, <2>2 DEF NewsInv, TypeOK
<1>5. NewestIsHeard'
  <2> SUFFICES ASSUME NEW n \in due PROVE Owes(n)' \/ n \in lost' \/ newest' >= n
    BY <1>2 DEF NewestIsHeard
  <2>1. CASE n \in lost
    BY <1>3, <2>1
  <2>2. CASE newest >= n
    <3>1. n \in Nat /\ newest' \in Nat
      BY <1>2, NewsAssumption DEF NewsInv, TypeOK, Stamp
    <3> QED BY <1>1, <1>2, <2>2, <3>1
  <2>3. CASE \E v \in Writers : writer[v].n = n /\ writer[v].tell # <<>>
    BY <1>2, <2>3 DEF Owes
  <2>4. CASE \E x \in news \ {e} : x.about = n
    BY <1>3, <2>4 DEF Owes
  <2>5. CASE e.about = n
    BY <1>3, <2>5 DEF Owes
  <2> QED BY <2>1, <2>2, <2>3, <2>4, <2>5 DEF NewsInv, NewestIsHeard, Owes
<1> QED BY <1>2, <1>3, <1>4, <1>5 DEF NewsInv

LEMMA RestartKeeps == NewsInv /\ Restart => NewsInv'
<1> SUFFICES ASSUME NewsInv, Restart PROVE NewsInv'
  OBVIOUS
<1>1. now \in Nat /\ \A w \in Writers : writer[w].n \in Stamp
  BY NewsAssumption DEF NewsInv, TypeOK, Stamp
<1>2. Idle \in [n : Stamp, tell : {<<>>} \cup {<<t>> : t \in Types} \cup {<<"fact", "changed">>}] /\ Idle.n <= now
  BY <1>1, NewsAssumption DEF Idle, Stamp
<1>3. TypeOK'
  <2>1. lost' \subseteq Stamp
    BY <1>1 DEF Restart, NewsInv, TypeOK, Event
  <2>2. faults' \in 0..MaxFaults
    BY NewsAssumption DEF Restart, NewsInv, TypeOK
  <2> QED BY <1>2, <2>1, <2>2 DEF Restart, NewsInv, TypeOK
<1>4. NewestIsHeard'
  <2> SUFFICES ASSUME NEW n \in due PROVE n \in lost' \/ newest >= n
    BY DEF NewestIsHeard, Restart
  <2>1. n # 0
    BY <1>1 DEF NewsInv
  <2> QED BY <2>1 DEF NewsInv, NewestIsHeard, Owes, Restart
<1> QED BY <1>2, <1>3, <1>4 DEF Restart, NewsInv

LEMMA NewsNextKeeps == NewsInv /\ [Next]_vars => NewsInv'
<1> SUFFICES ASSUME NewsInv, [Next]_vars PROVE NewsInv'
  OBVIOUS
<1>1. CASE UNCHANGED vars
  BY <1>1 DEF NewsInv, TypeOK, NewestIsHeard, Owes, vars
<1>2. ASSUME NEW w \in Writers, \E kind \in Kinds : Commit(w, kind) PROVE NewsInv'
  BY <1>2, CommitKeeps
<1>3. ASSUME NEW w \in Writers, Emit(w) \/ EmitFails(w) \/ Finish(w) \/ HandlerFails(w) PROVE NewsInv'
  BY <1>3, HandlerKeeps
<1>4. ASSUME NEW e \in news, Attempt(e) PROVE NewsInv'
  BY <1>4, AttemptKeeps
<1> QED BY <1>1, <1>2, <1>3, <1>4, RestartKeeps DEF Next

LEMMA NewsAlways == Spec => []NewsInv
BY NewsStart, NewsNextKeeps, PTL DEF Spec

\* The types of what is on its way to the partner (PartnerWebhookService).
THEOREM NewsTypeCorrect == Spec => []TypeOK
<1>1. NewsInv => TypeOK
  BY DEF NewsInv
<1> QED BY <1>1, NewsAlways, PTL

\* However many requests change a booking and in whatever order their events
\* arrive, the partner that has nothing more to come knows a state as new as every
\* change it was told of, unless an event was refused, given up or cut off
\* (emitReservationChanged, deliver).
THEOREM PartnerKnowsTheNewest == Spec => []NewestIsHeard
<1>1. NewsInv => NewestIsHeard
  BY DEF NewsInv
<1> QED BY <1>1, NewsAlways, PTL

-----------------------------------------------------------------------------
(* The prices as they are edited: the rows of the tables, and what a screen makes of them *)

\* The numbers of guests a day has prices for.
Sold == IF ofPartner THEN 1..Beds ELSE {2}

OneWindow(rows) == \A r, s \in rows : r.order = s.order => r.from = s.from /\ r.to = s.to
DailyOK(rows) ==
  /\ rows \in SUBSET [plan : {Tariff}, day : Calendar, guests : Sold, price : Nat]
  /\ \A r, s \in rows : r.day = s.day /\ r.guests = s.guests => r = s
SeasonsOK(rows) ==
  /\ rows \in SUBSET [plan : {Tariff}, from : Int, to : Int, order : Int, guests : Columns, price : Nat]
  /\ IsFiniteSet(rows) /\ OneWindow(rows)
StandardOK(rows) == rows \in SUBSET [plan : {Tariff}, guests : Columns, price : Nat]
TablesOK(t) ==
  /\ t = [daily |-> t.daily, seasons |-> t.seasons, standard |-> t.standard]
  /\ DailyOK(t.daily) /\ SeasonsOK(t.seasons) /\ StandardOK(t.standard)

Season == [from : Int, to : Int, order : Int, prices : [Columns -> Nat]]
\* What pends was typed for the guests the calendar is turned to.
CalendarOK(p) ==
  /\ p = [tab |-> "calendar", guests |-> p.guests, pending |-> p.pending, cell |-> p.cell]
  /\ p.guests \in 1..Beds
  /\ \A day \in DOMAIN p.pending :
       /\ day \in Calendar /\ p.pending[day].for = p.guests
       /\ p.pending[day].price \in Nat \/ (p.pending[day].price = None /\ p.cell = day)
  /\ p.cell \in Calendar \cup {None}
PanelOK(p) ==
  \/ p \in [tab : {"standard"}, draft : [Columns -> Nat]]
  \/ p \in [tab : {"seasons"}, list : Seq(Season)]
  \/ CalendarOK(p)

StandardItems == SUBSET [guests : Columns, price : Nat]
WindowItems(items) ==
  /\ items \in SUBSET [from : Int, to : Int, order : Int, guests : Columns, price : Nat]
  /\ IsFiniteSet(items) /\ OneWindow(items)
DaysOK(items) ==
  /\ items \in SUBSET [day : Calendar, guests : Sold, price : Nat, for : 1..Beds]
  /\ \A i, j \in items : i.day = j.day => i = j
  /\ \A i \in items : i.guests = PartyOf(i.for)
RequestOK(r) ==
  /\ r = [what |-> r.what, items |-> r.items, awaited |-> r.awaited, written |-> r.written]
  /\ \/ r.what = "standard" /\ r.items \in StandardItems
     \/ r.what = "seasons" /\ WindowItems(r.items)
     \/ r.what \in {"days", "fill"} /\ DaysOK(r.items)

EditorInv ==
  /\ ofPartner \in BOOLEAN /\ TablesOK(tables)
  /\ loaded = [d \in Screens |-> loaded[d]] /\ \A d \in Screens : TablesOK(loaded[d])
  /\ panel = [d \in Screens |-> panel[d]] /\ \A d \in Screens : PanelOK(panel[d])
  /\ sending = [d \in Screens |-> sending[d]] /\ \A d \in Screens : sending[d] # None => RequestOK(sending[d])

LEMMA ColumnsAre == Columns \in SUBSET Nat /\ 0 \in Columns /\ IsFiniteSet(Columns)
<1>1. 0 \in Int /\ Beds \in Int
  BY EditorAssumption
<1>2. IsFiniteSet(0..Beds)
  BY <1>1, FS_Interval
<1>3. IsFiniteSet({0})
  BY FS_Singleton
<1> QED BY <1>2, <1>3, EditorAssumption DEF Columns

LEMMA SameShapes ==
  ASSUME UNCHANGED ofPartner
  PROVE  /\ \A t : TablesOK(t)' <=> TablesOK(t)
         /\ \A p : PanelOK(p)' <=> PanelOK(p)
         /\ \A r : RequestOK(r)' <=> RequestOK(r)
<1>1. Columns' = Columns /\ Sold' = Sold /\ \A g : PartyOf(g)' = PartyOf(g)
  BY DEF Columns, Sold, PartyOf
<1>2. ASSUME NEW t PROVE TablesOK(t)' <=> TablesOK(t)
  BY <1>1 DEF TablesOK, DailyOK, SeasonsOK, StandardOK, OneWindow
<1>3. Season' = Season
  BY <1>1 DEF Season
<1>4. ASSUME NEW p PROVE PanelOK(p)' <=> PanelOK(p)
  BY <1>1, <1>3 DEF PanelOK, CalendarOK
<1>5. StandardItems' = StandardItems /\ \A i : WindowItems(i)' <=> WindowItems(i)
  BY <1>1 DEF StandardItems, WindowItems, OneWindow
<1>6. \A i : DaysOK(i)' <=> DaysOK(i)
  BY <1>1 DEF DaysOK
<1>7. ASSUME NEW r PROVE RequestOK(r)' <=> RequestOK(r)
  BY <1>5, <1>6 DEF RequestOK
<1> QED BY <1>2, <1>4, <1>7

\* A step of one screen, and what it may leave behind.
LEMMA EditorHolds ==
  ASSUME EditorInv, UNCHANGED ofPartner, NEW d \in Screens,
         tables' = tables \/ \E t : TablesOK(t) /\ tables' = t,
         loaded' = loaded \/ \E l : TablesOK(l) /\ loaded' = [loaded EXCEPT ![d] = l],
         panel' = panel \/ \E p : PanelOK(p) /\ panel' = [panel EXCEPT ![d] = p],
         sending' = sending \/ \E s : (s # None => RequestOK(s)) /\ sending' = [sending EXCEPT ![d] = s]
  PROVE  EditorInv'
<1>1. TablesOK(tables)'
  BY SameShapes DEF EditorInv
<1>2. loaded' = [e \in Screens |-> loaded'[e]] /\ \A e \in Screens : TablesOK(loaded[e])'
  BY SameShapes DEF EditorInv
<1>3. panel' = [e \in Screens |-> panel'[e]] /\ \A e \in Screens : PanelOK(panel[e])'
  BY SameShapes DEF EditorInv
<1>4. sending' = [e \in Screens |-> sending'[e]] /\ \A e \in Screens : sending'[e] # None => RequestOK(sending[e])'
  BY SameShapes DEF EditorInv
<1> QED BY <1>1, <1>2, <1>3, <1>4 DEF EditorInv

(* Rows into columns, and into seasons *)

LEMMA ByColumnTyped ==
  ASSUME NEW rows, \A r \in rows : r.price \in Nat
  PROVE  ByColumn(rows) \in [Columns -> Nat]
<1>1. ASSUME NEW c \in Columns
      PROVE  (IF \E r \in rows : r.guests = c THEN (CHOOSE r \in rows : r.guests = c).price ELSE 0) \in Nat
  OBVIOUS
<1> QED BY <1>1 DEF ByColumn

\* A finite set of seasons with an order each: of every number of them before it there is one.
LEMMA RankTaken ==
  ASSUME NEW keys, IsFiniteSet(keys), \A k \in keys : k.order \in Int,
         \A k, l \in keys : k.order = l.order => k = l,
         NEW i \in 1..Cardinality(keys)
  PROVE  \E k \in keys : Cardinality(Before(k, keys)) = i - 1
<1> DEFINE rank(k) == Cardinality(Before(k, keys))
           n == Cardinality(keys)
<1>1. n \in Nat
  BY FS_CardinalityType
<1>2. \A k \in keys : Before(k, keys) \in SUBSET (keys \ {k})
  BY DEF Before
<1>3. ASSUME NEW k \in keys PROVE rank(k) \in 0..n - 1 /\ IsFiniteSet(Before(k, keys))
  <2>1. IsFiniteSet(keys \ {k}) /\ Cardinality(keys \ {k}) = n - 1
    BY FS_RemoveElement
  <2>2. IsFiniteSet(Before(k, keys)) /\ rank(k) <= n - 1
    BY <1>2, <2>1, FS_Subset
  <2>3. rank(k) \in Nat
    BY <2>2, FS_CardinalityType
  <2> QED BY <1>1, <2>2, <2>3
<1>4. ASSUME NEW k \in keys, NEW l \in keys, k.order < l.order PROVE rank(k) # rank(l)
  <2>1. Before(k, keys) \in SUBSET Before(l, keys) /\ k \in Before(l, keys) /\ k \notin Before(k, keys)
    BY <1>4 DEF Before
  <2>2. IsFiniteSet(Before(l, keys))
    BY <1>3
  <2>3. rank(l) = rank(k) => Before(l, keys) = Before(k, keys)
    BY <2>1, <2>2, FS_Subset
  <2> QED BY <2>1, <2>3
<1>5. \A k, l \in keys : k # l => rank(k) # rank(l)
  BY <1>4
<1> SUFFICES ASSUME \A k \in keys : rank(k) # i - 1 PROVE FALSE
  OBVIOUS
<1> DEFINE T == 0..n - 1
           U == T \ {i - 1}
           f == [k \in keys |-> rank(k)]
<1>6. IsFiniteSet(T) /\ Cardinality(T) = n
  <2> HIDE DEF n
  <2>1. 0 \in Int /\ n - 1 \in Int
    BY <1>1
  <2>2. IsFiniteSet(T) /\ Cardinality(T) = IF 0 > n - 1 THEN 0 ELSE (n - 1) - 0 + 1
    BY <2>1, FS_Interval
  <2> QED BY <1>1, <2>2
<1>7. i - 1 \in T
  BY <1>1
<1>8. IsFiniteSet(U) /\ Cardinality(U) = n - 1
  <2> HIDE DEF T, n
  <2> QED BY <1>6, <1>7, FS_RemoveElement
<1>9. f \in [keys -> U]
  BY <1>3
<1>10. n - 1 < n
  BY <1>1
<1> HIDE DEF U, f, n, rank, T
<1>11. Cardinality(U) < Cardinality(keys)
  BY <1>8, <1>10 DEF n
<1>12. \E k, l \in keys : k # l /\ f[k] = f[l]
  BY <1>8, <1>9, <1>11, FS_PigeonHole
<1> QED BY <1>5, <1>12 DEF f

LEMMA SeasonsShownTyped ==
  ASSUME NEW t, SeasonsOK(t.seasons)
  PROVE  SeasonsShown(t) \in Seq(Season)
<1> DEFINE keys == SeasonsOf(t.seasons)
           f == [r \in t.seasons |-> SeasonOf(r)]
<1>1. f \in Surjection(t.seasons, keys)
  BY DEF SeasonsOf, Surjection
<1>2. IsFiniteSet(keys)
  BY <1>1, FS_Surjection DEF SeasonsOK
<1>3. \A k \in keys : k \in [order : Int, from : Int, to : Int]
  BY DEF SeasonsOf, SeasonOf, SeasonsOK
<1>4. \A k, l \in keys : k.order = l.order => k = l
  BY DEF SeasonsOf, SeasonOf, SeasonsOK, OneWindow
<1>5. Cardinality(keys) \in Nat
  BY <1>2, FS_CardinalityType
<1>6. ASSUME NEW i \in 1..Cardinality(keys)
      PROVE  (CHOOSE k \in keys : Cardinality(Before(k, keys)) = i - 1) \in keys
  <2>1. \E k \in keys : Cardinality(Before(k, keys)) = i - 1
    BY <1>2, <1>3, <1>4, RankTaken
  <2> QED BY <2>1
<1>7. ASSUME NEW k \in keys
      PROVE  [from |-> k.from, to |-> k.to, order |-> k.order, prices |-> ByColumn({r \in t.seasons : SeasonOf(r) = k})] \in Season
  <2>1. ByColumn({r \in t.seasons : SeasonOf(r) = k}) \in [Columns -> Nat]
    BY ByColumnTyped DEF SeasonsOK
  <2> QED BY <1>3, <2>1 DEF Season
<1> DEFINE k(i) == CHOOSE k \in keys : Cardinality(Before(k, keys)) = i - 1
           shown(i) == [from |-> k(i).from, to |-> k(i).to, order |-> k(i).order,
                        prices |-> ByColumn({r \in t.seasons : SeasonOf(r) = k(i)})]
<1>8. \A i \in 1..Cardinality(keys) : shown(i) \in Season
  BY <1>6, <1>7
<1>9. SeasonsShown(t) = [i \in 1..Cardinality(keys) |-> shown(i)]
  BY DEF SeasonsShown
<1> HIDE DEF shown, keys
<1> QED BY <1>5, <1>8, <1>9

LEMMA OpenedOK ==
  ASSUME NEW t, TablesOK(t), NEW tab \in {"standard", "seasons", "calendar"}
  PROVE  PanelOK(Opened(tab, t))
<1>1. CASE tab = "standard"
  <2>1. StandardShown(t) \in [Columns -> Nat]
    BY ByColumnTyped DEF StandardShown, TablesOK, StandardOK
  <2>2. Opened(tab, t) = [tab |-> "standard", draft |-> StandardShown(t)]
    BY <1>1 DEF Opened
  <2> QED BY <2>1, <2>2 DEF PanelOK
<1>2. CASE tab = "seasons"
  <2>1. SeasonsShown(t) \in Seq(Season)
    BY SeasonsShownTyped DEF TablesOK
  <2>2. Opened(tab, t) = [tab |-> "seasons", list |-> SeasonsShown(t)]
    BY <1>2 DEF Opened
  <2> QED BY <2>1, <2>2 DEF PanelOK
<1>3. CASE tab = "calendar"
  <2>1. Opened(tab, t) = [tab |-> "calendar", guests |-> 1, pending |-> <<>>, cell |-> None]
    BY <1>3 DEF Opened
  <2>2. DOMAIN <<>> = {}
    OBVIOUS
  <2> QED BY <2>1, <2>2, EditorAssumption DEF PanelOK, CalendarOK
<1> QED BY <1>1, <1>2, <1>3

LEMMA EditorStarts == EditorInit => EditorInv
<1> SUFFICES ASSUME EditorInit PROVE EditorInv
  OBVIOUS
<1> DEFINE t == [daily |-> {}, seasons |-> {}, standard |-> {}]
<1>1. TablesOK(t)
  BY FS_EmptySet DEF TablesOK, DailyOK, SeasonsOK, StandardOK, OneWindow
<1>2. PanelOK(Opened("standard", t))
  BY <1>1, OpenedOK
<1> HIDE DEF t
<1> QED BY <1>1, <1>2 DEF EditorInit, EditorInv, t

(* Each tab *)

LEMMA KindOfPanel ==
  ASSUME NEW p, PanelOK(p)
  PROVE  /\ p.tab = "standard" => p \in [tab : {"standard"}, draft : [Columns -> Nat]]
         /\ p.tab = "seasons" => p \in [tab : {"seasons"}, list : Seq(Season)]
         /\ p.tab = "calendar" => CalendarOK(p)
<1>1. CalendarOK(p) => p.tab = "calendar"
  BY DEF CalendarOK
<1> QED BY <1>1 DEF PanelOK

LEMMA FetchKeeps ==
  ASSUME EditorInv, NEW d \in Screens, NEW table \in {"daily", "seasons", "standard"}, Fetch(d, table)
  PROVE  EditorInv'
<1> DEFINE got == [loaded[d] EXCEPT ![table] = tables[table]]
<1>1. TablesOK(loaded[d]) /\ TablesOK(tables) /\ PanelOK(panel[d])
  BY DEF EditorInv
<1>2. TablesOK(got)
  <2>1. CASE table = "daily"
    BY <1>1, <2>1 DEF TablesOK
  <2>2. CASE table = "seasons"
    BY <1>1, <2>2 DEF TablesOK
  <2>3. CASE table = "standard"
    BY <1>1, <2>3 DEF TablesOK
  <2> QED BY <2>1, <2>2, <2>3
<1>3. Shows(d, table) => table \in {"standard", "seasons", "calendar"}
  BY <1>1 DEF Shows, PanelOK, CalendarOK
<1>4. Shows(d, table) => PanelOK(Opened(table, got))
  BY <1>2, <1>3, OpenedOK
<1>5. /\ loaded' = [loaded EXCEPT ![d] = got]
      /\ panel' = panel \/ (Shows(d, table) /\ panel' = [panel EXCEPT ![d] = Opened(table, got)])
      /\ UNCHANGED <<ofPartner, tables, sending>>
  BY DEF Fetch, Turns
<1> HIDE DEF got
<1> QED BY <1>2, <1>4, <1>5, EditorHolds

\* The screen turns to another state of its panel and nothing else happens.
LEMMA TurnsKeeps ==
  ASSUME EditorInv, NEW d \in Screens, NEW p, PanelOK(p), Turns(d, p), Only
  PROVE  EditorInv'
BY EditorHolds DEF Turns, Only

LEMMA OpenTabKeeps ==
  ASSUME EditorInv, NEW d \in Screens, NEW tab \in {"standard", "seasons", "calendar"}, OpenTab(d, tab)
  PROVE  EditorInv'
<1> DEFINE s == IF sending[d] = None THEN None ELSE [sending[d] EXCEPT !.awaited = FALSE]
<1>1. PanelOK(Opened(tab, loaded[d]))
  BY OpenedOK DEF EditorInv
<1>2. ASSUME s # None PROVE RequestOK(s)
  <2>1. s = [sending[d] EXCEPT !.awaited = FALSE] /\ RequestOK(sending[d])
    BY <1>2 DEF EditorInv
  <2> QED BY <2>1 DEF RequestOK
<1>3. /\ panel' = [panel EXCEPT ![d] = Opened(tab, loaded[d])] /\ sending' = [sending EXCEPT ![d] = s]
      /\ UNCHANGED <<ofPartner, tables, loaded>>
  BY DEF OpenTab, Turns, EditorInv
<1> HIDE DEF s
<1> QED BY <1>1, <1>2, <1>3, EditorHolds

LEMMA SendKeeps ==
  ASSUME EditorInv, NEW d \in Screens, NEW what, NEW items, Send(d, what, items),
         \/ what = "standard" /\ items \in StandardItems
         \/ what = "seasons" /\ WindowItems(items)
         \/ what \in {"days", "fill"} /\ DaysOK(items)
  PROVE  EditorInv'
<1> DEFINE s == [what |-> what, items |-> items, awaited |-> TRUE, written |-> FALSE]
<1>1. RequestOK(s)
  BY DEF RequestOK
<1>2. sending' = [sending EXCEPT ![d] = s] /\ UNCHANGED <<ofPartner, tables, loaded, panel>>
  BY DEF Send
<1> HIDE DEF s
<1> QED BY <1>1, <1>2, EditorHolds

LEMMA StandardKeeps ==
  ASSUME EditorInv, NEW d \in Screens, StandardStep(d)
  PROVE  EditorInv'
<1>1. ASSUME NEW c \in Columns, NEW price \in Typed \cup {0}, TypeStandard(d, c, price) PROVE EditorInv'
  <2>1. panel[d] \in [tab : {"standard"}, draft : [Columns -> Nat]]
    BY <1>1, KindOfPanel DEF TypeStandard, Shows, EditorInv
  <2>2. PanelOK([panel[d] EXCEPT !.draft[c] = price])
    BY <2>1, EditorAssumption DEF PanelOK
  <2> QED BY <1>1, <2>2, TurnsKeeps DEF TypeStandard
<1>2. ASSUME ResetStandard(d) PROVE EditorInv'
  <2>1. PanelOK(Opened("standard", loaded[d]))
    BY OpenedOK DEF EditorInv
  <2> QED BY <1>2, <2>1, TurnsKeeps DEF ResetStandard
<1>3. ASSUME SaveStandard(d) PROVE EditorInv'
  <2>1. panel[d] \in [tab : {"standard"}, draft : [Columns -> Nat]]
    BY <1>3, KindOfPanel DEF SaveStandard, Differs, Shows, EditorInv
  <2>2. {[guests |-> c, price |-> panel[d].draft[c]] : c \in Columns} \in StandardItems
    BY <2>1 DEF StandardItems
  <2> QED BY <1>3, <2>2, SendKeeps DEF SaveStandard
<1> QED BY <1>1, <1>2, <1>3 DEF StandardStep

LEMMA RewritesKeeps ==
  ASSUME EditorInv, NEW d \in Screens, NEW list \in Seq(Season), Rewrites(d, list)
  PROVE  EditorInv'
<1>1. panel[d] \in [tab : {"seasons"}, list : Seq(Season)]
  BY KindOfPanel DEF Rewrites, Shows, EditorInv
<1>2. PanelOK([panel[d] EXCEPT !.list = list])
  BY <1>1 DEF PanelOK
<1> QED BY <1>2, TurnsKeeps DEF Rewrites

LEMMA WithoutOne ==
  ASSUME NEW S, NEW s \in Seq(S), NEW i \in DOMAIN s
  PROVE  RemoveAt(s, i) \in Seq(S)
<1>1. Len(s) \in Nat /\ DOMAIN s = 1..Len(s) /\ \A j \in 1..Len(s) : s[j] \in S
  OBVIOUS
<1>2. i - 1 \in Int /\ i + 1 \in Int /\ 1 \in Int /\ Len(s) \in Int
  BY <1>1
<1>3. (\A j \in 1..(i - 1) : s[j] \in S) /\ (\A j \in (i + 1)..Len(s) : s[j] \in S)
  BY <1>1
<1>4. SubSeq(s, 1, i - 1) \in Seq(S) /\ SubSeq(s, i + 1, Len(s)) \in Seq(S)
  BY <1>2, <1>3, SubSeqProperties
<1> QED BY <1>4, ConcatProperties DEF RemoveAt

LEMMA SeasonItemsOK ==
  ASSUME NEW list \in Seq(Season)
  PROVE  WindowItems(SeasonItems(list))
<1> DEFINE item(i, c) == [from |-> list[i].from, to |-> list[i].to, order |-> i - 1, guests |-> c, price |-> list[i].prices[c]]
           items == {item(i, c) : i \in DOMAIN list, c \in Columns}
           pairs == (DOMAIN list) \X Columns
           f == [x \in pairs |-> item(x[1], x[2])]
<1>1. DOMAIN list = 1..Len(list) /\ Len(list) \in Nat /\ \A i \in DOMAIN list : list[i] \in Season
  OBVIOUS
<1>2. \A i \in DOMAIN list, c \in Columns :
        item(i, c) \in [from : Int, to : Int, order : Int, guests : Columns, price : Nat]
  BY <1>1 DEF Season
<1>3. IsFiniteSet(1..Len(list))
  <2>1. 1 \in Int /\ Len(list) \in Int
    BY <1>1
  <2> QED BY <2>1, FS_Interval
<1>4. IsFiniteSet(pairs)
  BY <1>1, <1>3, ColumnsAre, FS_Product
<1>5. f \in Surjection(pairs, items)
  <2> HIDE DEF item
  <2>1. \A x \in pairs : f[x] \in items
    OBVIOUS
  <2>2. \A y \in items : \E x \in pairs : f[x] = y
    <3> SUFFICES ASSUME NEW i \in DOMAIN list, NEW c \in Columns PROVE \E x \in pairs : f[x] = item(i, c)
      OBVIOUS
    <3>1. <<i, c>> \in pairs /\ f[<<i, c>>] = item(i, c)
      OBVIOUS
    <3> QED BY <3>1
  <2> HIDE DEF items, pairs
  <2>3. f \in [pairs -> items]
    BY <2>1
  <2> QED BY <2>2, <2>3 DEF Surjection
<1>6. IsFiniteSet(items)
  <2> HIDE DEF items, pairs, f
  <2> QED BY <1>4, <1>5, FS_Surjection
<1>7. OneWindow(items)
  <2> SUFFICES ASSUME NEW i \in DOMAIN list, NEW j \in DOMAIN list, i - 1 = j - 1
               PROVE  i = j
    BY DEF OneWindow
  <2> QED BY <1>1
<1>8. SeasonItems(list) = items
  BY DEF SeasonItems
<1> QED BY <1>2, <1>6, <1>7, <1>8 DEF WindowItems

LEMMA SeasonsKeeps ==
  ASSUME EditorInv, NEW d \in Screens, SeasonsStep(d)
  PROVE  EditorInv'
<1> DEFINE list == panel[d].list
<1>1. Shows(d, "seasons") => panel[d] \in [tab : {"seasons"}, list : Seq(Season)]
  BY KindOfPanel DEF Shows, EditorInv
<1>2. Shows(d, "seasons") => list \in Seq(Season)
  BY <1>1
<1>3. SeasonsShown(loaded[d]) \in Seq(Season)
  BY SeasonsShownTyped DEF EditorInv, TablesOK
<1>4. ASSUME AddSeason(d) PROVE EditorInv'
  <2> DEFINE new == [from |-> 0, to |-> 0, order |-> Len(list), prices |-> [c \in Columns |-> 0]]
  <2>1. list \in Seq(Season) /\ Rewrites(d, Append(list, new))
    BY <1>2, <1>4 DEF AddSeason
  <2>2. new \in Season
    BY <2>1 DEF Season
  <2> HIDE DEF new, list
  <2>3. Append(list, new) \in Seq(Season)
    BY <2>1, <2>2
  <2> QED BY <2>1, <2>3, RewritesKeeps
<1>5. ASSUME CancelSeasons(d) PROVE EditorInv'
  BY <1>3, <1>5, RewritesKeeps DEF CancelSeasons
<1>6. ASSUME SaveSeasons(d) PROVE EditorInv'
  <2>1. list \in Seq(Season) /\ Send(d, "seasons", SeasonItems(list))
    BY <1>2, <1>6 DEF SaveSeasons, ListDiffers
  <2> HIDE DEF list
  <2>2. WindowItems(SeasonItems(list))
    BY <2>1, SeasonItemsOK
  <2> QED BY <2>1, <2>2, SendKeeps
<1>7. ASSUME NEW i, RemoveSeason(d, i) PROVE EditorInv'
  <2>1. list \in Seq(Season) /\ i \in DOMAIN list /\ Rewrites(d, RemoveAt(list, i))
    BY <1>2, <1>7 DEF RemoveSeason
  <2> HIDE DEF list
  <2>2. RemoveAt(list, i) \in Seq(Season)
    BY <2>1, WithoutOne
  <2> QED BY <2>1, <2>2, RewritesKeeps
<1>8. ASSUME NEW i, NEW from \in Calendar, NEW to \in Calendar, DateSeason(d, i, from, to) PROVE EditorInv'
  <2> DEFINE one == [list EXCEPT ![i] = [list[i] EXCEPT !.from = from, !.to = to]]
  <2>1. list \in Seq(Season) /\ i \in 1..Len(list) /\ Rewrites(d, [list EXCEPT ![i].from = from, ![i].to = to])
    BY <1>2, <1>8 DEF DateSeason
  <2> HIDE DEF list
  <2>2. list[i] \in Season /\ from \in Int /\ to \in Int
    BY <2>1 DEF Calendar
  <2>3. [list[i] EXCEPT !.from = from, !.to = to] \in Season
    BY <2>2 DEF Season
  <2>4. one \in Seq(Season)
    BY <2>1, <2>3, ExceptSeq
  <2>5. [list EXCEPT ![i].from = from, ![i].to = to] = one
    BY <2>1
  <2> HIDE DEF one
  <2> QED BY <2>1, <2>4, <2>5, RewritesKeeps
<1>9. ASSUME NEW i, NEW c \in Columns, NEW price \in Typed \cup {0}, PriceSeason(d, i, c, price) PROVE EditorInv'
  <2> DEFINE one == [list EXCEPT ![i] = [list[i] EXCEPT !.prices[c] = price]]
  <2>1. list \in Seq(Season) /\ i \in 1..Len(list) /\ Rewrites(d, [list EXCEPT ![i].prices[c] = price])
    BY <1>2, <1>9 DEF PriceSeason
  <2> HIDE DEF list
  <2>2. list[i] \in Season /\ price \in Nat
    BY <2>1, EditorAssumption
  <2>3. [list[i] EXCEPT !.prices[c] = price] \in Season
    BY <2>2 DEF Season
  <2>4. one \in Seq(Season)
    BY <2>1, <2>3, ExceptSeq
  <2>5. [list EXCEPT ![i].prices[c] = price] = one
    BY <2>1
  <2> HIDE DEF one
  <2> QED BY <2>1, <2>4, <2>5, RewritesKeeps
<1> QED BY <1>4, <1>5, <1>6, <1>7, <1>8, <1>9 DEF SeasonsStep

\* What is put into the calendar, and into a request.
LEMMA IntoCalendar ==
  ASSUME NEW p, CalendarOK(p), NEW n
  PROVE  [p EXCEPT !.pending = n] = [tab |-> "calendar", guests |-> p.guests, pending |-> n, cell |-> p.cell]
<1> DEFINE z == [p EXCEPT !.pending = n]
<1>1. p \in [tab : {"calendar"}, guests : {p.guests}, pending : {p.pending}, cell : {p.cell}]
  BY DEF CalendarOK
<1>2. z \in [tab : {"calendar"}, guests : {p.guests}, pending : {n}, cell : {p.cell}]
  BY <1>1
<1> HIDE DEF z
<1>3. z = [tab |-> "calendar", guests |-> p.guests, pending |-> n, cell |-> p.cell]
  BY <1>2
<1> QED BY <1>3 DEF z

LEMMA IntoRequest ==
  ASSUME NEW r, RequestOK(r)
  PROVE  RequestOK([r EXCEPT !.written = TRUE]) /\ RequestOK([r EXCEPT !.awaited = FALSE])
<1> DEFINE x == [r EXCEPT !.written = TRUE]
           y == [r EXCEPT !.awaited = FALSE]
<1>1. r \in [what : {r.what}, items : {r.items}, awaited : {r.awaited}, written : {r.written}]
  BY DEF RequestOK
<1>2. x \in [what : {r.what}, items : {r.items}, awaited : {r.awaited}, written : {TRUE}]
  BY <1>1
<1>3. y \in [what : {r.what}, items : {r.items}, awaited : {FALSE}, written : {r.written}]
  BY <1>1
<1> HIDE DEF x, y
<1>4. x = [what |-> x.what, items |-> x.items, awaited |-> x.awaited, written |-> x.written] /\ x.what = r.what /\ x.items = r.items
  BY <1>2
<1>5. y = [what |-> y.what, items |-> y.items, awaited |-> y.awaited, written |-> y.written] /\ y.what = r.what /\ y.items = r.items
  BY <1>3
<1>6. RequestOK(x)
  BY <1>4 DEF RequestOK
<1>7. RequestOK(y)
  BY <1>5 DEF RequestOK
<1> QED BY <1>6, <1>7 DEF x, y

LEMMA PendsKeeps ==
  ASSUME EditorInv, NEW d \in Screens, Shows(d, "calendar"), NEW pending, NEW cell \in Calendar \cup {None},
         Pends(d, pending, cell),
         \A day \in DOMAIN pending :
           /\ day \in Calendar /\ pending[day].for = panel[d].guests
           /\ pending[day].price \in Nat \/ (pending[day].price = None /\ cell = day)
  PROVE  EditorInv'
<1> DEFINE p == [panel[d] EXCEPT !.pending = pending, !.cell = cell]
<1>1. CalendarOK(panel[d])
  BY KindOfPanel DEF Shows, EditorInv
<1>2. p = [tab |-> "calendar", guests |-> panel[d].guests, pending |-> pending, cell |-> cell]
  <2>1. panel[d] \in [tab : {"calendar"}, guests : {panel[d].guests}, pending : {panel[d].pending}, cell : {panel[d].cell}]
    BY <1>1 DEF CalendarOK
  <2>2. p \in [tab : {"calendar"}, guests : {panel[d].guests}, pending : {pending}, cell : {cell}]
    BY <2>1
  <2> HIDE DEF p
  <2> QED BY <2>2
<1>3. p.guests = panel[d].guests /\ p.pending = pending /\ p.cell = cell /\ panel[d].guests \in 1..Beds
  BY <1>1, <1>2 DEF CalendarOK
<1>4. Turns(d, p) /\ Only
  BY DEF Pends
<1> HIDE DEF p
<1>5. CalendarOK(p)
  BY <1>2, <1>3 DEF CalendarOK
<1> QED BY <1>4, <1>5, TurnsKeeps DEF PanelOK

\* What a screen has as the price of a day is a price.
LEMMA OverrideTyped ==
  ASSUME NEW t, TablesOK(t), NEW day, NEW guests
  PROVE  Override(t, day, guests) \in SUBSET Nat
BY DEF Override, PricesOf, TablesOK, DailyOK

LEMMA DayItemsOK ==
  ASSUME NEW d \in Screens, CalendarOK(panel[d]), panel[d].cell = None
  PROVE  DaysOK(DayItems(d))
<1>1. None \notin Calendar
  BY EditorAssumption DEF Calendar
<1>2. \A day \in DOMAIN panel[d].pending :
        day \in Calendar /\ panel[d].pending[day].price \in Nat /\ panel[d].pending[day].for = panel[d].guests
  BY <1>1 DEF CalendarOK
<1>3. panel[d].guests \in 1..Beds /\ PartyOf(panel[d].guests) \in Sold
  BY DEF CalendarOK, PartyOf, Sold
<1>4. DayItems(d) \in SUBSET [day : Calendar, guests : Sold, price : Nat, for : 1..Beds]
  BY <1>2, <1>3 DEF DayItems
<1>5. \A i \in DayItems(d) : i.guests = PartyOf(i.for)
  BY <1>2 DEF DayItems
<1>6. \A i, j \in DayItems(d) : i.day = j.day => i = j
  BY DEF DayItems
<1> QED BY <1>4, <1>5, <1>6 DEF DaysOK

LEMMA CalendarKeeps ==
  ASSUME EditorInv, NEW d \in Screens, CalendarOfPricesStep(d)
  PROVE  EditorInv'
<1> DEFINE p == panel[d]
<1>1. Shows(d, "calendar") => CalendarOK(p)
  BY KindOfPanel DEF Shows, EditorInv
<1>2. ASSUME NEW guests \in 1..Beds, ChooseGuests(d, guests) PROVE EditorInv'
  <2>1. CalendarOK(p) /\ Turns(d, Forgets(d, guests)) /\ Only
    BY <1>1, <1>2 DEF ChooseGuests
  <2>2. Forgets(d, guests) = [tab |-> "calendar", guests |-> guests, pending |-> <<>>, cell |-> p.cell]
    <3>1. p \in [tab : {"calendar"}, guests : {p.guests}, pending : {p.pending}, cell : {p.cell}]
      BY <2>1 DEF CalendarOK
    <3>2. Forgets(d, guests) \in [tab : {"calendar"}, guests : {guests}, pending : {<<>>}, cell : {p.cell}]
      BY <3>1 DEF Forgets
    <3> QED BY <3>2
  <2>3. DOMAIN <<>> = {} /\ p.cell \in Calendar \cup {None}
    BY <2>1 DEF CalendarOK
  <2>4. PanelOK(Forgets(d, guests))
    BY <2>2, <2>3 DEF PanelOK, CalendarOK
  <2> QED BY <2>1, <2>4, TurnsKeeps
<1>3. ASSUME NEW day \in Calendar, StartEdit(d, day) PROVE EditorInv'
  <2>1. CalendarOK(p) /\ p.cell = None /\ Shows(d, "calendar")
    BY <1>1, <1>3 DEF StartEdit
  <2>2. None \notin Calendar
    BY EditorAssumption DEF Calendar
  <2>3. \A e \in DOMAIN p.pending : e \in Calendar /\ p.pending[e].for = p.guests /\ p.pending[e].price \in Nat
    BY <2>1, <2>2 DEF CalendarOK
  <2>4. CASE day \in DOMAIN p.pending
    BY <1>3, <2>1, <2>3, <2>4, PendsKeeps DEF StartEdit
  <2>5. CASE day \notin DOMAIN p.pending
    <3>1. PICK price \in Override(loaded[d], day, p.guests) \cup {None} :
            Pends(d, With(d, day, [price |-> price, for |-> p.guests]), day)
      BY <1>3, <2>5 DEF StartEdit
    <3>2. price \in Nat \cup {None}
      BY OverrideTyped DEF EditorInv
    <3> DEFINE pending == With(d, day, [price |-> price, for |-> p.guests])
    <3>3. \A e \in DOMAIN pending :
            /\ e \in Calendar /\ pending[e].for = p.guests
            /\ pending[e].price \in Nat \/ (pending[e].price = None /\ day = e)
      BY <2>3, <3>2 DEF With
    <3> HIDE DEF pending
    <3> QED BY <2>1, <3>1, <3>3, PendsKeeps DEF pending
  <2> QED BY <2>4, <2>5
\* Of what pends, all but the cell that is open.
<1>4. Shows(d, "calendar") =>
        \A e \in DOMAIN p.pending \ {p.cell} : e \in Calendar /\ p.pending[e].for = p.guests /\ p.pending[e].price \in Nat
  BY <1>1 DEF CalendarOK
<1>5. ASSUME Shows(d, "calendar"), Pends(d, Without(d, p.cell), None) PROVE EditorInv'
  <2> DEFINE pending == Without(d, p.cell)
  <2>1. \A e \in DOMAIN pending : e \in Calendar /\ pending[e].for = p.guests /\ pending[e].price \in Nat
    BY <1>4, <1>5 DEF Without, Restrict
  <2> HIDE DEF pending
  <2> QED BY <1>5, <2>1, PendsKeeps DEF pending
<1>6. ASSUME NEW price \in Typed \cup {0, None}, CommitCell(d, price) PROVE EditorInv'
  <2>1. CASE price = None
    BY <1>5, <1>6, <2>1 DEF CommitCell
  <2>2. CASE price # None
    <3> DEFINE pending == With(d, p.cell, [price |-> price, for |-> p.guests])
    <3>1. Shows(d, "calendar") /\ p.cell # None /\ CalendarOK(p) /\ Pends(d, pending, None)
      BY <1>1, <1>6, <2>2 DEF CommitCell
    <3>2. price \in Nat /\ p.cell \in Calendar
      BY <2>2, <3>1, EditorAssumption DEF CalendarOK
    <3>3. \A e \in DOMAIN pending : e \in Calendar /\ pending[e].for = p.guests /\ pending[e].price \in Nat
      BY <1>4, <3>1, <3>2 DEF With
    <3> HIDE DEF pending
    <3> QED BY <3>1, <3>3, PendsKeeps
  <2> QED BY <2>1, <2>2
<1>7. ASSUME Escape(d) PROVE EditorInv'
  BY <1>5, <1>7 DEF Escape
<1>8. ASSUME CancelDays(d) PROVE EditorInv'
  <2>1. Shows(d, "calendar") /\ Pends(d, <<>>, None)
    BY <1>8 DEF CancelDays
  <2>2. DOMAIN <<>> = {}
    OBVIOUS
  <2> QED BY <2>1, <2>2, PendsKeeps
<1>9. ASSUME SaveDays(d) PROVE EditorInv'
  <2>1. DaysOK(DayItems(d)) /\ Send(d, "days", DayItems(d))
    BY <1>1, <1>9, DayItemsOK DEF SaveDays
  <2> QED BY <2>1, SendKeeps
<1>10. ASSUME NEW from \in Calendar, NEW to \in Calendar, NEW price \in Typed \cup {0}, FillDays(d, from, to, price) PROVE EditorInv'
  <2> DEFINE items == {[day |-> day, guests |-> PartyOf(p.guests), price |-> price, for |-> p.guests] : day \in from..to}
  <2>1. CalendarOK(p) /\ Send(d, "fill", items)
    BY <1>1, <1>10 DEF FillDays
  <2>2. from..to \in SUBSET Calendar /\ price \in Nat
    BY EditorAssumption DEF Calendar
  <2>3. p.guests \in 1..Beds /\ PartyOf(p.guests) \in Sold
    BY <2>1 DEF CalendarOK, PartyOf, Sold
  <2>4. DaysOK(items)
    BY <2>2, <2>3 DEF DaysOK
  <2> HIDE DEF items
  <2> QED BY <2>1, <2>4, SendKeeps
<1> QED BY <1>2, <1>3, <1>6, <1>7, <1>8, <1>9, <1>10 DEF CalendarOfPricesStep

(* The server *)

LEMMA WithDaysOK ==
  ASSUME NEW t, TablesOK(t), NEW items, DaysOK(items)
  PROVE  TablesOK(WithDays(t, Tariff, items))
<1> DEFINE named(r) == r.plan = Tariff /\ \E i \in items : i.day = r.day /\ i.guests = r.guests
           rows == {[plan |-> Tariff, day |-> i.day, guests |-> i.guests, price |-> i.price] : i \in items}
           daily == {r \in t.daily : ~named(r)} \cup rows
<1>1. daily \in SUBSET [plan : {Tariff}, day : Calendar, guests : Sold, price : Nat]
  BY DEF TablesOK, DailyOK, DaysOK
<1>2. \A r, s \in rows : r.day = s.day => r = s
  BY DEF DaysOK
<1>3. \A r \in rows : named(r)
  OBVIOUS
<1>4. \A r \in rows, s \in daily : r.day = s.day /\ r.guests = s.guests => s \in rows
  BY <1>1, <1>3
<1>5. \A r, s \in daily : r.day = s.day /\ r.guests = s.guests => r = s
  BY <1>2, <1>4 DEF TablesOK, DailyOK
<1>6. WithDays(t, Tariff, items) = [daily |-> daily, seasons |-> t.seasons, standard |-> t.standard]
  BY DEF WithDays, TablesOK
<1> HIDE DEF daily
<1> QED BY <1>1, <1>5, <1>6 DEF TablesOK, DailyOK

LEMMA WithStandardOK ==
  ASSUME NEW t, TablesOK(t), NEW items \in StandardItems
  PROVE  TablesOK(WithStandard(t, Tariff, items))
<1> DEFINE named(r) == r.plan = Tariff /\ \E i \in items : i.guests = r.guests
           rows == {[plan |-> Tariff, guests |-> i.guests, price |-> i.price] : i \in {j \in items : j.price > 0}}
           standard == {r \in t.standard : ~named(r)} \cup rows
<1>1. StandardOK(standard)
  BY DEF TablesOK, StandardOK, StandardItems
<1>2. WithStandard(t, Tariff, items) = [daily |-> t.daily, seasons |-> t.seasons, standard |-> standard]
  <2>1. WithStandard(t, Tariff, items) = [t EXCEPT !.standard = standard]
    BY DEF WithStandard
  <2>2. t = [daily |-> t.daily, seasons |-> t.seasons, standard |-> t.standard]
    BY DEF TablesOK
  <2> HIDE DEF standard
  <2> QED BY <2>1, <2>2
<1> HIDE DEF standard
<1> QED BY <1>1, <1>2 DEF TablesOK

LEMMA WithSeasonsOK ==
  ASSUME NEW t, TablesOK(t), NEW items, WindowItems(items)
  PROVE  TablesOK(WithSeasons(t, Tariff, items))
<1> DEFINE priced == {j \in items : j.price > 0}
           row(i) == [plan |-> Tariff, from |-> i.from, to |-> i.to, order |-> i.order, guests |-> i.guests, price |-> i.price]
           rows == {row(i) : i \in priced}
           f == [i \in priced |-> row(i)]
<1>1. rows \in SUBSET [plan : {Tariff}, from : Int, to : Int, order : Int, guests : Columns, price : Nat]
  BY DEF WindowItems
<1>2. IsFiniteSet(priced)
  BY FS_Subset DEF WindowItems
<1>3. f \in Surjection(priced, rows)
  <2> HIDE DEF row, priced
  <2> QED BY DEF Surjection
<1>4. IsFiniteSet(rows)
  BY <1>2, <1>3, FS_Surjection
<1>5. OneWindow(rows)
  BY DEF OneWindow, WindowItems
<1>6. {r \in t.seasons : r.plan # Tariff} = {}
  BY DEF TablesOK, SeasonsOK
<1>7. WithSeasons(t, Tariff, items) = [daily |-> t.daily, seasons |-> {r \in t.seasons : r.plan # Tariff} \cup rows, standard |-> t.standard]
  BY DEF WithSeasons, TablesOK
<1>8. WithSeasons(t, Tariff, items) = [daily |-> t.daily, seasons |-> rows, standard |-> t.standard]
  BY <1>6, <1>7
<1> HIDE DEF rows
<1> QED BY <1>1, <1>4, <1>5, <1>8 DEF TablesOK, SeasonsOK

LEMMA ServerKeeps ==
  ASSUME EditorInv, NEW d \in Screens, WritesPrices(d) \/ HearsAnswer(d) \/ SaveFails(d)
  PROVE  EditorInv'
<1> DEFINE r == sending[d]
<1>1. r # None /\ RequestOK(r) /\ TablesOK(tables)
  BY DEF WritesPrices, HearsAnswer, SaveFails, EditorInv
<1>2. CASE WritesPrices(d)
  <2>1. TablesOK(TablesAfter(r))
    <3>1. CASE r.what = "standard" /\ r.items \in StandardItems
      BY <1>1, <3>1, WithStandardOK DEF TablesAfter
    <3>2. CASE r.what = "seasons" /\ WindowItems(r.items)
      BY <1>1, <3>2, WithSeasonsOK DEF TablesAfter
    <3>3. CASE r.what \in {"days", "fill"} /\ DaysOK(r.items)
      BY <1>1, <3>3, WithDaysOK DEF TablesAfter
    <3> QED BY <1>1, <3>1, <3>2, <3>3 DEF RequestOK
  <2> DEFINE s == [r EXCEPT !.written = TRUE]
  <2>2. RequestOK(s)
    BY <1>1, IntoRequest
  <2>3. sending' = [sending EXCEPT ![d] = s] /\ tables' = TablesAfter(r) /\ UNCHANGED <<ofPartner, loaded, panel>>
    BY <1>2 DEF WritesPrices
  <2> HIDE DEF s
  <2> QED BY <2>1, <2>2, <2>3, EditorHolds
<1>3. CASE HearsAnswer(d)
  <2>1. CASE r.awaited /\ r.what = "days"
    <3> DEFINE p == [panel[d] EXCEPT !.pending = <<>>]
    <3>1. PanelOK(p)
      <4>1. CASE panel[d] \in [tab : {"standard"}, draft : [Columns -> Nat]]
        <5>1. p = panel[d]
          BY <4>1
        <5> QED BY <4>1, <5>1 DEF PanelOK
      <4>2. CASE panel[d] \in [tab : {"seasons"}, list : Seq(Season)]
        <5>1. p = panel[d]
          BY <4>2
        <5> QED BY <4>2, <5>1 DEF PanelOK
      <4>3. CASE CalendarOK(panel[d])
        <5>1. p = [tab |-> "calendar", guests |-> panel[d].guests, pending |-> <<>>, cell |-> panel[d].cell]
          BY <4>3, IntoCalendar
        <5>2. DOMAIN <<>> = {} /\ panel[d].guests \in 1..Beds /\ panel[d].cell \in Calendar \cup {None}
          BY <4>3 DEF CalendarOK
        <5> QED BY <5>1, <5>2 DEF PanelOK, CalendarOK
      <4> QED BY <4>1, <4>2, <4>3 DEF EditorInv, PanelOK
    <3>2. sending' = [sending EXCEPT ![d] = None] /\ panel' = [panel EXCEPT ![d] = p] /\ UNCHANGED <<ofPartner, tables, loaded>>
      BY <1>3, <2>1 DEF HearsAnswer, Turns
    <3> HIDE DEF p
    <3> QED BY <3>1, <3>2, EditorHolds
  <2>2. CASE ~(r.awaited /\ r.what = "days")
    BY <1>3, <2>2, EditorHolds DEF HearsAnswer
  <2> QED BY <2>1, <2>2
<1>4. CASE SaveFails(d)
  BY <1>4, EditorHolds DEF SaveFails
<1> QED BY <1>2, <1>3, <1>4

LEMMA EditorStands == EditorInv /\ UNCHANGED editorVars => EditorInv'
BY SameShapes DEF EditorInv, editorVars

LEMMA EditorAlways == EditorSpec => []EditorInv
<1>1. ASSUME EditorInv, EditorStep PROVE EditorInv'
  <2>1. PICK d \in Screens :
          \/ \E table \in {"daily", "seasons", "standard"} : Fetch(d, table)
          \/ \E tab \in {"standard", "seasons", "calendar"} : OpenTab(d, tab)
          \/ StandardStep(d) \/ SeasonsStep(d) \/ CalendarOfPricesStep(d)
          \/ WritesPrices(d) \/ HearsAnswer(d) \/ SaveFails(d)
    BY <1>1, Zenon DEF EditorStep
  <2> QED BY <1>1, <2>1, FetchKeeps, OpenTabKeeps, StandardKeeps, SeasonsKeeps, CalendarKeeps, ServerKeeps
<1> QED BY <1>1, EditorStarts, EditorStands, PTL DEF EditorSpec

\* Of a tariff of a partner a price is saved for the guests it was typed for, however
\* often the calendar was turned to other guests in between and whichever answer came
\* late (Tariffs.jsx, the calendar's state and its pending edits).
THEOREM TypedForItsGuests == EditorSpec => []SavedForItsGuests
<1>1. EditorInv => SavedForItsGuests
  BY DEF EditorInv, SavedForItsGuests, RequestOK, DaysOK, PartyOf
<1> QED BY <1>1, EditorAlways, PTL

(* The calendar beside the offer *)

LEMMA PickIs ==
  ASSUME NEW rows, NEW guests \in Nat \ {0}
  PROVE  Pick(rows, guests) = IF {r \in rows : r.guests = guests} # {} THEN {r \in rows : r.guests = guests}
                              ELSE {r \in rows : r.guests = 0}
<1>1. guests # AnyParty /\ AnyParty = 0
  BY DEF AnyParty
<1> QED BY <1>1 DEF Pick

\* Of rows that differ in guests and price only, the screen and the server pick the same.
LEMMA PicksAlike ==
  ASSUME NEW rows, NEW guests \in Nat \ {0}, NEW W \in SUBSET rows,
         \A r \in W, s \in rows : SameGroup(r, s) <=> s \in W
  PROVE  PickOccupancy(rows, guests) \cap W = Pick(W, guests)
<1>1. PickOccupancy(rows, guests) = {r \in rows : r.guests = guests \/ (r.guests = 0 /\ \A s \in rows : SameGroup(r, s) => s.guests # guests)}
  BY DEF PickOccupancy, AnyParty
<1>2. PickOccupancy(rows, guests) \cap W = {r \in W : r.guests = guests \/ (r.guests = 0 /\ \A s \in W : s.guests # guests)}
  BY <1>1
<1> QED BY <1>2, PickIs

\* Where one number of guests is all there is, both take every row.
LEMMA TakesAll ==
  ASSUME NEW rows, NEW guests \in Nat \ {0}, \A r \in rows : r.guests = 0
  PROVE  Pick(rows, guests) = rows /\ PickOccupancy(rows, AnyParty) = rows
BY PickIs DEF PickOccupancy

\* The seasons on top of those that cover a day are of one window.
LEMMA OneOnTop ==
  ASSUME NEW t, SeasonsOK(t.seasons), NEW day
  PROVE  LET covering == Covering(t, Tariff, day)
             top == OnTop(covering)
         IN  /\ covering = {s \in t.seasons : s.from <= day /\ day <= s.to}
             /\ \A s \in top : Window(s, covering) = top
             /\ \A s \in top, r \in t.seasons : SameGroup(s, r) <=> r \in top
             /\ \A S \in SUBSET covering : S \cap top # {} => OnTop(S) = S \cap top
<1> DEFINE covering == Covering(t, Tariff, day)
           top == OnTop(covering)
           Row == [plan : {Tariff}, from : Int, to : Int, order : Int, guests : Columns, price : Nat]
<1>1. covering = {s \in t.seasons : s.from <= day /\ day <= s.to}
  BY DEF Covering, SeasonsOK
<1>2. t.seasons \in SUBSET Row /\ \A r, s \in t.seasons : r.order = s.order => r.from = s.from /\ r.to = s.to
  BY DEF SeasonsOK, OneWindow
<1>3. \A r, s \in Row : SameGroup(r, s) <=> r.from = s.from /\ r.to = s.to /\ r.order = s.order
  <2> SUFFICES ASSUME NEW r \in Row, NEW s \in Row
               PROVE  SameGroup(r, s) <=> r.from = s.from /\ r.to = s.to /\ r.order = s.order
    OBVIOUS
  <2> DEFINE Bare == [plan : {Tariff}, from : Int, to : Int, order : Int, guests : {0}, price : {0}]
             x == [r EXCEPT !.guests = 0, !.price = 0]
             y == [s EXCEPT !.guests = 0, !.price = 0]
  <2>1. x \in Bare /\ x.from = r.from /\ x.to = r.to /\ x.order = r.order
    OBVIOUS
  <2>2. y \in Bare /\ y.from = s.from /\ y.to = s.to /\ y.order = s.order
    OBVIOUS
  <2>3. SameGroup(r, s) <=> x = y
    BY DEF SameGroup
  <2> HIDE DEF x, y
  <2> QED BY <2>1, <2>2, <2>3
<1> HIDE DEF Row
<1>4. \A r, s \in t.seasons : r.from \in Int /\ r.order \in Int
  BY <1>2 DEF Row
<1>5. \A s \in covering : s \in top <=> \A r \in covering : r.from < s.from \/ (r.from = s.from /\ r.order <= s.order)
  BY DEF OnTop
<1>6. top \in SUBSET covering /\ covering \in SUBSET t.seasons
  BY <1>1 DEF OnTop
<1>7. \A s \in top, r \in covering : r \in top <=> r.order = s.order
  <2> SUFFICES ASSUME NEW s \in top, NEW r \in covering PROVE r \in top <=> r.order = s.order
    OBVIOUS
  <2>1. ASSUME r \in top PROVE r.order = s.order
    <3>1. r.from < s.from \/ (r.from = s.from /\ r.order <= s.order)
      BY <1>5, <1>6
    <3>2. s.from < r.from \/ (s.from = r.from /\ s.order <= r.order)
      BY <1>5, <1>6, <2>1
    <3>3. r.from \in Int /\ s.from \in Int /\ r.order \in Int /\ s.order \in Int
      BY <1>4, <1>6
    <3> QED BY <3>1, <3>2, <3>3
  <2>2. ASSUME r.order = s.order PROVE r \in top
    <3>1. r.from = s.from
      BY <1>2, <1>6, <2>2
    <3> QED BY <1>5, <1>6, <2>2, <3>1
  <2> QED BY <2>1, <2>2
<1>8. \A s \in top : Window(s, covering) = top
  <2> SUFFICES ASSUME NEW s \in top PROVE Window(s, covering) = top
    OBVIOUS
  <2>1. \A r \in covering : r.order = s.order => r.from = s.from /\ r.to = s.to
    BY <1>2, <1>6
  <2> QED BY <1>6, <1>7, <2>1 DEF Window
<1>9. \A s \in top, r \in t.seasons : SameGroup(s, r) <=> r \in top
  <2> SUFFICES ASSUME NEW s \in top, NEW r \in t.seasons PROVE SameGroup(s, r) <=> r \in top
    OBVIOUS
  <2>1. SameGroup(s, r) <=> r.order = s.order
    BY <1>2, <1>3, <1>6
  <2>2. r.order = s.order => r \in covering
    BY <1>1, <1>2, <1>6
  <2> QED BY <1>6, <1>7, <2>1, <2>2
<1>10. ASSUME NEW S \in SUBSET covering, S \cap top # {} PROVE OnTop(S) = S \cap top
  <2>1. PICK w \in S : w \in top
    BY <1>10
  <2>2. S \cap top \in SUBSET OnTop(S)
    BY <1>5, <1>6 DEF OnTop
  <2>3. ASSUME NEW s \in OnTop(S) PROVE s \in top
    <3>1. s \in S /\ (w.from < s.from \/ (w.from = s.from /\ w.order <= s.order))
      BY <2>1 DEF OnTop
    <3>2. s.from < w.from \/ (s.from = w.from /\ s.order <= w.order)
      BY <1>5, <1>6, <2>1, <3>1
    <3>3. s.from \in Int /\ w.from \in Int /\ s.order \in Int /\ w.order \in Int
      BY <1>4, <1>6, <2>1, <3>1
    <3>4. s.order = w.order
      BY <3>1, <3>2, <3>3
    <3> QED BY <1>7, <2>1, <3>1, <3>4
  <2>4. OnTop(S) \in SUBSET S
    BY DEF OnTop
  <2> QED BY <2>2, <2>3, <2>4
<1> HIDE DEF covering, top
<1> QED BY <1>1, <1>8, <1>9, <1>10 DEF covering, top

\* Of the seasons that cover a day one began last and has the highest order.
LEMMA CoveredHasTop ==
  ASSUME NEW t, SeasonsOK(t.seasons), NEW day, Covering(t, Tariff, day) # {}
  PROVE  OnTop(Covering(t, Tariff, day)) # {}
<1> DEFINE C == Covering(t, Tariff, day)
           over(r, s) == s.from < r.from \/ (s.from = r.from /\ s.order < r.order)
           Over(s) == {r \in C : over(r, s)}
           Overs == {Over(s) : s \in C}
<1>1. IsFiniteSet(C) /\ \A s \in C : s.from \in Int /\ s.order \in Int
  BY FS_Subset DEF Covering, SeasonsOK
<1>2. C # {}
  OBVIOUS
<1> HIDE DEF C
<1>3. Overs \subseteq FiniteSubsetsOf(C)
  BY <1>1, FS_Subset DEF FiniteSubsetsOf
<1>4. IsWellFoundedOn(StrictSubsetOrdering(C), FiniteSubsetsOf(C))
  BY FS_StrictSubsetOrderingWellFounded
<1>5. Overs # {}
  <2>1. PICK s : s \in C
    BY <1>2
  <2>2. Over(s) \in Overs
    BY <2>1
  <2> HIDE DEF Overs
  <2> QED BY <2>2
<1>6. PICK U \in Overs : \A V \in Overs : ~ (<<V, U>> \in StrictSubsetOrdering(C))
  <2> HIDE DEF Overs
  <2> QED BY <1>3, <1>4, <1>5, WFMin
<1>7. PICK s \in C : U = Over(s)
  OBVIOUS
<1>8. \A r \in C : ~over(r, s)
  <2> SUFFICES ASSUME NEW r \in C, over(r, s) PROVE FALSE
    OBVIOUS
  <2>1. r \in Over(s) /\ r \notin Over(r)
    BY <1>1
  <2>2. Over(r) \subseteq Over(s)
    <3> SUFFICES ASSUME NEW x \in C, over(x, r) PROVE over(x, s)
      OBVIOUS
    <3>1. x.from \in Int /\ r.from \in Int /\ s.from \in Int /\ x.order \in Int /\ r.order \in Int /\ s.order \in Int
      BY <1>1
    <3> QED BY <3>1
  <2>3. Over(r) \in SUBSET C /\ Over(s) \in SUBSET C
    OBVIOUS
  <2>4. Over(r) \in Overs
    OBVIOUS
  <2> HIDE DEF Over, Overs, over
  <2>5. <<Over(r), Over(s)>> \in StrictSubsetOrdering(C)
    BY <2>1, <2>2, <2>3 DEF StrictSubsetOrdering
  <2> QED BY <1>6, <1>7, <2>4, <2>5
<1>9. \A r \in C : r.from < s.from \/ (r.from = s.from /\ r.order <= s.order)
  BY <1>1, <1>8
<1>10. s \in OnTop(C)
  BY <1>9 DEF OnTop
<1> QED BY <1>10 DEF C

\* A tariff of a partner: by the guests, each looks for their number and then for any.
LEMMA PartnerCell ==
  ASSUME NEW t, TablesOK(t), NEW day, NEW guests \in 1..Beds, ofPartner, PricedOnTop(t, day, guests)
  PROVE  CellShown(t, day, guests) = NightOffer(t, Tariff, day, guests, TRUE, 0)
<1> DEFINE covering == Covering(t, Tariff, day)
           top == OnTop(covering)
           P == PickOccupancy(t.seasons, guests)
           shown == {s \in P : s.from <= day /\ day <= s.to}
           seasonal == UNION {Pick(Window(s, covering), guests) : s \in top}
<1>1. guests \in Nat \ {0} /\ SeasonsOK(t.seasons) /\ guests # AnyParty
  BY EditorAssumption DEF TablesOK, AnyParty
<1>2. Override(t, day, guests) = DailyOffer(t, Tariff, day, guests, TRUE)
  <2>1. Daily(t, Tariff, day) = {r \in t.daily : r.day = day}
    BY DEF Daily, TablesOK, DailyOK
  <2>2. \A r \in t.daily : r.guests # 0
    BY DEF TablesOK, DailyOK, Sold
  <2>3. Override(t, day, guests) = PricesOf({r \in t.daily : r.day = day /\ r.guests = guests})
    BY <1>1 DEF Override, Asked, AnyParty
  <2> DEFINE A == {r \in Daily(t, Tariff, day) : r.guests = guests}
             B == {r \in Daily(t, Tariff, day) : r.guests = 0}
  <2>4. DailyOffer(t, Tariff, day, guests, TRUE) = IF A # {} THEN PricesOf(A) ELSE IF B # {} THEN PricesOf(B) ELSE {}
    BY <1>1 DEF DailyOffer
  <2>5. B = {} /\ A = {r \in t.daily : r.day = day /\ r.guests = guests}
    BY <2>1, <2>2
  <2>6. PricesOf({}) = {}
    BY DEF PricesOf
  <2> HIDE DEF A, B
  <2> QED BY <2>3, <2>4, <2>5, <2>6
<1>3. BaselineShown(t, day, guests) = Baseline(t, Tariff, day, guests)
  <2>1. /\ covering = {s \in t.seasons : s.from <= day /\ day <= s.to}
        /\ \A s \in top : Window(s, covering) = top
        /\ \A s \in top, r \in t.seasons : SameGroup(s, r) <=> r \in top
        /\ \A S \in SUBSET covering : S \cap top # {} => OnTop(S) = S \cap top
    BY <1>1, OneOnTop
  <2>2. top \in SUBSET covering /\ top \in SUBSET t.seasons /\ P \in SUBSET t.seasons
    BY <2>1 DEF OnTop, PickOccupancy
  <2>3. PricedOnTop(t, day, guests) => covering = {} \/ \E s \in top : s.guests \in {0, guests}
    BY DEF PricedOnTop
  <2>4. shown = P \cap covering
    BY <2>1, <2>2
  <2>5. BaselineShown(t, day, guests)
          = IF shown # {} THEN PricesOf(OnTop(shown)) ELSE PricesOf(PickOccupancy(t.standard, guests))
    BY DEF BaselineShown
  <2>6. Baseline(t, Tariff, day, guests)
          = IF seasonal # {} THEN PricesOf(seasonal) ELSE PricesOf(Pick({r \in t.standard : r.plan = Tariff}, guests))
    BY DEF Baseline
  <2> HIDE DEF covering, P, shown
  <2>7. CASE covering = {}
    <3>1. seasonal = {} /\ shown = {}
      BY <2>2, <2>4, <2>7
    <3>2. {r \in t.standard : r.plan = Tariff} = t.standard
      BY DEF TablesOK, StandardOK
    <3>3. \A r, s \in t.standard : SameGroup(r, s)
      <4> SUFFICES ASSUME NEW r \in t.standard, NEW s \in t.standard PROVE SameGroup(r, s)
        OBVIOUS
      <4> DEFINE x == [r EXCEPT !.guests = 0, !.price = 0]
                 y == [s EXCEPT !.guests = 0, !.price = 0]
      <4>1. r \in [plan : {Tariff}, guests : Columns, price : Nat] /\ s \in [plan : {Tariff}, guests : Columns, price : Nat]
        BY DEF TablesOK, StandardOK
      <4>2. x \in [plan : {Tariff}, guests : {0}, price : {0}] /\ y \in [plan : {Tariff}, guests : {0}, price : {0}]
        BY <4>1
      <4>3. SameGroup(r, s) <=> x = y
        BY DEF SameGroup
      <4> HIDE DEF x, y
      <4> QED BY <4>2, <4>3
    <3>4. PickOccupancy(t.standard, guests) \cap t.standard = Pick(t.standard, guests)
      BY <1>1, <3>3, PicksAlike
    <3>5. PickOccupancy(t.standard, guests) = Pick(t.standard, guests)
      BY <3>4 DEF PickOccupancy
    <3> HIDE DEF seasonal
    <3> QED BY <2>5, <2>6, <3>1, <3>2, <3>5
  <2>8. CASE covering # {}
    <3>1. P \cap top = Pick(top, guests)
      BY <1>1, <2>1, <2>2, PicksAlike DEF P
    <3>2. PICK w \in top : w.guests \in {0, guests}
      BY <2>3, <2>8
    <3>3. Pick(top, guests) # {}
      BY <1>1, <3>2, PickIs
    <3>4. shown \in SUBSET covering /\ shown \cap top = P \cap top
      BY <2>2, <2>4
    <3>5. OnTop(shown) = Pick(top, guests)
      BY <2>1, <3>1, <3>3, <3>4
    <3>6. seasonal = Pick(top, guests)
      <4> HIDE DEF top
      <4>1. {Pick(Window(s, covering), guests) : s \in top} = {Pick(top, guests)}
        BY <2>1, <3>2
      <4> QED BY <4>1
    <3>7. shown # {} /\ seasonal # {}
      BY <3>1, <3>3, <3>4, <3>6
    <3> HIDE DEF seasonal
    <3> QED BY <2>5, <2>6, <3>5, <3>6, <3>7
  <2> QED BY <2>7, <2>8
<1>4. CellShown(t, day, guests)
        = IF Override(t, day, guests) # {} THEN Override(t, day, guests) ELSE BaselineShown(t, day, guests)
  BY DEF CellShown, Asked
<1>5. \A daily, base : (IF daily # {} THEN daily ELSE IF base # {} THEN base ELSE {}) = (IF daily # {} THEN daily ELSE base)
  OBVIOUS
<1>6. NightOffer(t, Tariff, day, guests, TRUE, 0)
        = IF DailyOffer(t, Tariff, day, guests, TRUE) # {} THEN DailyOffer(t, Tariff, day, guests, TRUE)
          ELSE IF Baseline(t, Tariff, day, guests) # {} THEN Baseline(t, Tariff, day, guests) ELSE {}
  BY DEF NightOffer
<1> QED BY <1>2, <1>3, <1>4, <1>5, <1>6

\* A tariff of the hotel's own: one price for all.
LEMMA OwnCell ==
  ASSUME NEW t, TablesOK(t), NEW day, NEW guests \in 1..Beds, ~ofPartner
  PROVE  CellShown(t, day, guests) = NightOffer(t, Tariff, day, guests, FALSE, 0)
<1> DEFINE covering == Covering(t, Tariff, day)
           top == OnTop(covering)
           seasonal == UNION {Pick(Window(s, covering), guests) : s \in top}
           rows == {r \in t.daily : r.day = day}
<1>1. guests \in Nat \ {0} /\ SeasonsOK(t.seasons) /\ guests # AnyParty /\ Asked(guests) = AnyParty
  BY EditorAssumption DEF TablesOK, AnyParty, Asked
<1>2. \A r \in t.seasons \cup t.standard : r.guests = 0
  BY DEF TablesOK, SeasonsOK, StandardOK, Columns
<1>3. Override(t, day, guests) = DailyOffer(t, Tariff, day, guests, FALSE)
  <2>1. Daily(t, Tariff, day) = rows
    BY DEF Daily, TablesOK, DailyOK
  <2>2. \A r \in rows : r.guests = 2 /\ r.price \in Nat /\ \A s \in rows : r = s
    BY DEF TablesOK, DailyOK, Sold
  <2>3. Override(t, day, guests) = PricesOf(rows)
    BY <1>1 DEF Override
  <2> DEFINE A == {r \in rows : r.guests = guests}
             B == {r \in rows : r.guests = 0}
  <2>4. DailyOffer(t, Tariff, day, guests, FALSE)
          = IF A # {} THEN PricesOf(A) ELSE IF B # {} THEN PricesOf(B) ELSE Smallest(PricesOf(rows))
    BY <1>1, <2>1 DEF DailyOffer
  <2>5. B = {} /\ (A # {} => A = rows)
    BY <2>2
  <2>6. Smallest(PricesOf(rows)) = PricesOf(rows)
    BY <2>2 DEF Smallest, PricesOf
  <2> HIDE DEF A, B, rows
  <2> QED BY <2>3, <2>4, <2>5, <2>6
<1>4. BaselineShown(t, day, AnyParty) = Baseline(t, Tariff, day, guests)
  <2>1. covering = {s \in t.seasons : s.from <= day /\ day <= s.to} /\ \A s \in top : Window(s, covering) = top
    BY <1>1, OneOnTop
  <2>2. top \in SUBSET t.seasons
    BY <2>1 DEF OnTop
  <2>3. PickOccupancy(t.seasons, AnyParty) = t.seasons /\ PickOccupancy(t.standard, AnyParty) = t.standard
    BY DEF PickOccupancy
  <2>4. {r \in t.standard : r.plan = Tariff} = t.standard
    BY DEF TablesOK, StandardOK
  <2>5. Pick(top, guests) = top /\ Pick(t.standard, guests) = t.standard
    BY <1>1, <1>2, <2>2, TakesAll
  <2>6. seasonal = top
    <3>1. \A s \in top : Pick(Window(s, covering), guests) = top
      BY <2>1, <2>5
    <3> HIDE DEF top
    <3> QED BY <3>1
  <2>7. covering # {} <=> top # {}
    <3>1. top = {} /\ covering # {} => FALSE
      BY <2>1, CoveredHasTop, <1>1
    <3> QED BY <3>1 DEF OnTop
  <2>8. BaselineShown(t, day, AnyParty) = IF covering # {} THEN PricesOf(top) ELSE PricesOf(t.standard)
    BY <2>1, <2>3 DEF BaselineShown
  <2>9. Baseline(t, Tariff, day, guests) = IF seasonal # {} THEN PricesOf(seasonal) ELSE PricesOf(Pick(t.standard, guests))
    BY <2>4 DEF Baseline
  <2> HIDE DEF covering, top, seasonal
  <2> QED BY <2>5, <2>6, <2>7, <2>8, <2>9
<1>5. CellShown(t, day, guests)
        = IF Override(t, day, guests) # {} THEN Override(t, day, guests) ELSE BaselineShown(t, day, AnyParty)
  BY <1>1 DEF CellShown
<1>6. \A daily, base : (IF daily # {} THEN daily ELSE IF base # {} THEN base ELSE {}) = (IF daily # {} THEN daily ELSE base)
  OBVIOUS
<1>7. NightOffer(t, Tariff, day, guests, FALSE, 0)
        = IF DailyOffer(t, Tariff, day, guests, FALSE) # {} THEN DailyOffer(t, Tariff, day, guests, FALSE)
          ELSE IF Baseline(t, Tariff, day, guests) # {} THEN Baseline(t, Tariff, day, guests) ELSE {}
  BY DEF NightOffer
<1> QED BY <1>3, <1>4, <1>5, <1>6, <1>7

\* With lists that are up to date the calendar of a tariff shows what a night is offered
\* for, to any number of guests the season on top has a price for: for any number of
\* seasons, days and guests, and whatever was written into the tables
\* (Tariffs.jsx, buildResolver and cellInfo; AvailabilityService.priceByPlan and BaselineResolver).
THEOREM CalendarIsTheOffer == EditorSpec => []CalendarShowsOffer
<1>1. EditorInv => CalendarShowsOffer
  <2> SUFFICES ASSUME EditorInv, NEW day \in Calendar, NEW guests \in 1..Beds, PricedOnTop(tables, day, guests)
               PROVE  CellShown(tables, day, guests) = NightOffer(tables, Tariff, day, guests, ofPartner, 0)
    BY DEF CalendarShowsOffer, ShowsOffer
  <2>1. TablesOK(tables)
    BY DEF EditorInv
  <2>2. ofPartner \in BOOLEAN
    BY DEF EditorInv
  <2>3. CASE ofPartner
    <3>1. ofPartner = TRUE
      BY <2>2, <2>3
    <3> QED BY <2>1, <3>1, PartnerCell
  <2>4. CASE ~ofPartner
    <3>1. ofPartner = FALSE
      BY <2>2, <2>4
    <3> QED BY <2>1, <3>1, OwnCell
  <2> QED BY <2>3, <2>4
<1> QED BY <1>1, EditorAlways, PTL
=============================================================================
