----------------------------- MODULE RatePlans -----------------------------
(***************************************************************************)
(* The tariffs of a hotel, their prices and the directory of the partners  *)
(* they are made for (RatePlansService, RatesService, PartnerDirectory-    *)
(* Service).  A request reads, checks and writes in transactions of its    *)
(* own: what it checked may have changed when it writes.  The CHECK and    *)
(* the partial unique index of rate_plan have the last word.               *)
(***************************************************************************)
EXTENDS Pricing

CONSTANTS
  Plans,          \* tariffs there can be
  Workers,        \* requests under way at a time
  Partners, Kars, \* partners; the one an old "for the operator" means
  Accounts, Customers, OwnerOf,  \* entries of the directories and whose they are
  GuestKinds, Meals,
  Same,           \* a field the request does not name
  Creates, Updates, Lists,       \* bodies of requests
  DailyEdits, StandardEdits, SeasonEdits,
  Nights, Parties, BaseGuests,   \* the nights and parties that are priced
  MaxEdits        \* bound: requests

OrNone(S) == S \cup {None}
Or(S) == {Same} \cup S

\* Bodies of requests; a directory is sent whole, a season with all its prices.
PlanRequest ==
  [partner : Or(OrNone(Partners)), account : Or(OrNone(Accounts)), customer : Or(OrNone(Customers)),
   kind : Or(OrNone(GuestKinds)), forOperator : Or(BOOLEAN), meal : Or(Meals), active : Or(BOOLEAN),
   parent : Or(OrNone(Plans)), byGuests : Or(BOOLEAN), inPercent : Or(BOOLEAN), modifier : Or(Int)]
FillRequest == [days : SUBSET Int, guests : Nat \ {0}, price : Nat]
StandardRequest == [guests : 0..20, price : Nat]
SeasonRequest == [from : Int, to : Int, order : Int, guests : 0..20, price : Nat]

ASSUME PlansAssumption ==
  /\ Kars \in Partners
  /\ OwnerOf \in [Accounts \cup Customers -> Partners]
  /\ None \notin Plans \cup Partners \cup Accounts \cup Customers \cup GuestKinds
  /\ Creates \cup Updates \subseteq PlanRequest
  /\ "none" \in Meals
  /\ Lists \subseteq SUBSET (Accounts \cup Customers)
  /\ DailyEdits \subseteq FillRequest /\ StandardEdits \subseteq StandardRequest
  /\ SeasonEdits \subseteq SUBSET SeasonRequest
  /\ MaxEdits \in Nat

VARIABLES
  plans,   \* the table rate_plan: None or the row of a tariff
  book,    \* the tables rate, rate_season and standard_rate
  listed,  \* entries of the directories that are switched on
  job,     \* requests under way
  edits    \* requests begun, for the bound

planVars == <<plans, book, listed, job, edits>>

Terms == [partner : OrNone(Partners), account : OrNone(Accounts),
          customer : OrNone(Customers), kind : OrNone(GuestKinds)]
Plan == [terms : Terms, meal : Meals, active : BOOLEAN, parent : OrNone(Plans),
         byGuests : BOOLEAN, inPercent : BOOLEAN, modifier : Int]
NoTerms == [partner |-> None, account |-> None, customer |-> None, kind |-> None]
\* No row is none.
ASSUME RowAssumption == None \notin Plan
Blank == [terms |-> NoTerms, meal |-> "none", active |-> TRUE, parent |-> None,
          byGuests |-> FALSE, inPercent |-> TRUE, modifier |-> 0]
Live == {p \in Plans : plans[p] # None}
Free == [step |-> "free", plan |-> None]

PlansInit ==
  /\ plans = [p \in Plans |-> None]
  /\ book = [daily |-> {}, seasons |-> {}, standard |-> {}]
  /\ listed = {}
  /\ job = [w \in Workers |-> Free]
  /\ edits = 0

-----------------------------------------------------------------------------
(***************************************************************************)
(* Which tariff a partner is given (partner-tariff-match.ts).              *)
(***************************************************************************)
Fits(condition, asked) == condition = None \/ condition = asked
PlanMatches(plan, q) ==
  /\ plan.active /\ plan.terms.partner = q.partner
  /\ Fits(plan.terms.account, q.account)
  /\ Fits(plan.terms.customer, q.customer)
  /\ Fits(plan.terms.kind, q.kind)

Weight(condition, n) == IF condition = None THEN 0 ELSE n
PlanSpecificity(plan) ==
  Weight(plan.terms.customer, 4) + Weight(plan.terms.account, 2) + Weight(plan.terms.kind, 1)

Queries == {q \in Terms : q.partner # None}
PickPartnerPlans(q) ==
  LET fit == {p \in Live : PlanMatches(plans[p], q)}
  IN {p \in fit : \A r \in fit : PlanSpecificity(plans[r]) <= PlanSpecificity(plans[p])}

-----------------------------------------------------------------------------
(***************************************************************************)
(* What the database refuses.                                              *)
(***************************************************************************)
\* Slip: a tariff of a partner may inherit.
SlipScopeCheck(plan) == plan.terms.partner # None \/ plan.terms = NoTerms
\* rate_plan_partner_scope_check.
ScopeCheck(plan) ==
  /\ plan.terms.partner = None => plan.terms = NoTerms
  /\ plan.terms.partner # None => plan.parent = None

Indexed(plan) == plan.terms.partner # None /\ plan.active
Key(plan) == <<plan.terms, plan.meal>>
\* Slip: of two empty conditions the index thinks they differ.
SlipScopeKey(p, plan) ==
  Indexed(plan) /\ None \notin {plan.terms.account, plan.terms.customer, plan.terms.kind}
    => \A r \in Live \ {p} : Indexed(plans[r]) => Key(plans[r]) # Key(plan)
\* rate_plan_partner_scope_key: one active tariff for the same terms and meals.
ScopeKey(p, plan) ==
  Indexed(plan) => \A r \in Live \ {p} : Indexed(plans[r]) => Key(plans[r]) # Key(plan)

\* The parent is a row of the table.
ParentKey(plan) == plan.parent \in OrNone(Live)
Storable(p, plan) == ScopeCheck(plan) /\ ScopeKey(p, plan) /\ ParentKey(plan)

-----------------------------------------------------------------------------
(***************************************************************************)
(* create and update: read the row, resolve the terms against the          *)
(* directory, look for a rival, write.                                     *)
(***************************************************************************)
Named(value, default) == IF value = Same THEN default ELSE value

\* partnerScope; what the request leaves unnamed is taken from the row read before.
Scope(dto, before) ==
  LET asked == Named(dto.partner, before.terms.partner)
      partner == CASE dto.forOperator = FALSE -> None
                   [] dto.forOperator = TRUE /\ asked = None -> Kars
                   [] OTHER -> asked
  IN IF partner = None THEN NoTerms
     ELSE [partner |-> partner,
           account |-> Named(dto.account, before.terms.account),
           customer |-> Named(dto.customer, before.terms.customer),
           kind |-> Named(dto.kind, before.terms.kind)]

Ours(entry, partner) == entry = None \/ (entry \in listed /\ OwnerOf[entry] = partner)
StandsAlone(terms, parent) == terms.partner = None \/ parent = None

Begin(w, request) ==
  /\ job[w] = Free /\ edits < MaxEdits
  /\ edits' = edits + 1
  /\ job' = [job EXCEPT ![w] = request]

\* create.
Create(w, p, dto) ==
  /\ plans[p] = None
  /\ \A v \in Workers : job[v].plan # p
  /\ Begin(w, [step |-> "scope", plan |-> p, new |-> TRUE, dto |-> dto, before |-> Blank, terms |-> NoTerms])
  /\ UNCHANGED <<plans, book, listed>>

\* update: a tariff is not its own parent.
Update(w, p, dto) ==
  /\ plans[p] # None /\ dto.parent # p
  /\ Begin(w, [step |-> "scope", plan |-> p, new |-> FALSE, dto |-> dto, before |-> plans[p], terms |-> NoTerms])
  /\ UNCHANGED <<plans, book, listed>>

\* The directory: both entries are of this partner and switched on, or the request is refused.
ResolveScope(w) ==
  LET j == job[w]
      terms == Scope(j.dto, j.before)
      fine == /\ Ours(terms.account, terms.partner) /\ Ours(terms.customer, terms.partner)
              /\ StandsAlone(terms, Named(j.dto.parent, j.before.parent))
  IN /\ j.step = "scope"
     /\ job' = [job EXCEPT ![w] = IF fine THEN [j EXCEPT !.step = "rival", !.terms = terms] ELSE Free]
     /\ UNCHANGED <<plans, book, listed, edits>>

\* assertUniquePartnerScope.
LookForRival(w) ==
  LET j == job[w]
      key == <<j.terms, Named(j.dto.meal, j.before.meal)>>
      counts == j.terms.partner # None /\ Named(j.dto.active, j.before.active)
      rival == \E r \in Live \ {j.plan} : plans[r].active /\ Key(plans[r]) = key
  IN /\ j.step = "rival"
     /\ job' = [job EXCEPT ![w] = IF counts /\ rival THEN Free ELSE [j EXCEPT !.step = "write"]]
     /\ UNCHANGED <<plans, book, listed, edits>>

\* The row after the write: the terms as a whole, of the rest what the request names.
Written(j, old) ==
  [terms |-> j.terms,
   meal |-> Named(j.dto.meal, old.meal), active |-> Named(j.dto.active, old.active),
   parent |-> Named(j.dto.parent, old.parent), byGuests |-> Named(j.dto.byGuests, old.byGuests),
   inPercent |-> Named(j.dto.inPercent, old.inPercent), modifier |-> Named(j.dto.modifier, old.modifier)]

\* The write; a row that is gone or that the database refuses ends the request.
Write(w) ==
  LET j == job[w]
      row == Written(j, IF j.new THEN Blank ELSE plans[j.plan])
  IN /\ j.step = "write"
     /\ plans' = IF (j.new \/ plans[j.plan] # None) /\ Storable(j.plan, row)
                 THEN [plans EXCEPT ![j.plan] = row] ELSE plans
     /\ job' = [job EXCEPT ![w] = Free]
     /\ UNCHANGED <<book, listed, edits>>

\* remove: the prices go with the tariff, its children lose their parent.
RemovePlan(p) ==
  LET others(rows) == {r \in rows : r.plan # p}
      orphaned(plan) == IF plan # None /\ plan.parent = p THEN [plan EXCEPT !.parent = None] ELSE plan
  IN /\ plans[p] # None /\ edits < MaxEdits
     /\ plans' = [r \in Plans |-> IF r = p THEN None ELSE orphaned(plans[r])]
     /\ book' = [table \in DOMAIN book |-> others(book[table])]
     /\ edits' = edits + 1
     /\ UNCHANGED <<listed, job>>

-----------------------------------------------------------------------------
(***************************************************************************)
(* Prices.  One transaction writes all rows of a request; a row of a       *)
(* tariff that is gone fails it.                                           *)
(***************************************************************************)
Save(p, new) ==
  /\ plans[p] # None /\ edits < MaxEdits
  /\ book' = new
  /\ edits' = edits + 1
  /\ UNCHANGED <<plans, listed, job>>

\* fillRange: a price for each day.
FillRange(p, e) ==
  Save(p, WithDays(book, p, {[day |-> d, guests |-> e.guests, price |-> e.price] : d \in e.days}))
\* remove of a price.
RemoveRate(r) == Save(r.plan, [book EXCEPT !.daily = @ \ {r}])
\* setStandard of one price.
SetStandard(p, e) == Save(p, WithStandard(book, p, {e}))
\* replaceSeasons.
ReplaceSeasons(p, seasons) ==
  /\ \A s \in seasons : s.from <= s.to
  /\ Save(p, WithSeasons(book, p, seasons))

-----------------------------------------------------------------------------
(***************************************************************************)
(* The partner sends its whole directory: what is new is switched on, what *)
(* it no longer names and was on when the request looked is switched off.  *)
(***************************************************************************)
SyncRead(w, partner, list) ==
  LET off == {e \in listed : OwnerOf[e] = partner} \ list
  IN /\ Begin(w, [step |-> "sync", plan |-> None, on |-> list, off |-> off])
     /\ UNCHANGED <<plans, book, listed>>

SyncWrite(w) ==
  /\ job[w].step = "sync"
  /\ listed' = (listed \cup job[w].on) \ job[w].off
  /\ job' = [job EXCEPT ![w] = Free]
  /\ UNCHANGED <<plans, book, edits>>

-----------------------------------------------------------------------------
PlansNext ==
  \/ \E w \in Workers : \/ \E p \in Plans : \/ \E dto \in Creates : Create(w, p, dto)
                                            \/ \E dto \in Updates : Update(w, p, dto)
                        \/ ResolveScope(w)
                        \/ LookForRival(w)
                        \/ Write(w)
                        \/ \E partner \in Partners, list \in Lists :
                             /\ \A e \in list : OwnerOf[e] = partner
                             /\ SyncRead(w, partner, list)
                        \/ SyncWrite(w)
  \/ \E p \in Plans : \/ RemovePlan(p)
                      \/ \E e \in DailyEdits : FillRange(p, e)
                      \/ \E e \in StandardEdits : SetStandard(p, e)
                      \/ \E seasons \in SeasonEdits : ReplaceSeasons(p, seasons)
  \/ \E r \in book.daily : RemoveRate(r)

PlansSpec == PlansInit /\ [][PlansNext]_planVars

-----------------------------------------------------------------------------
\* Rows, prices and requests are of their types, and a price is of a tariff that is there.
Request == [step : {"scope", "rival", "write"}, plan : Plans, new : BOOLEAN, dto : PlanRequest,
            before : Plan, terms : Terms]
Sync == [step : {"sync"}, plan : {None}, on : SUBSET (Accounts \cup Customers), off : SUBSET (Accounts \cup Customers)]
PlansTypeOK ==
  /\ plans \in [Plans -> OrNone(Plan)]
  /\ listed \subseteq Accounts \cup Customers
  /\ edits \in 0..MaxEdits
  /\ book = [daily |-> book.daily, seasons |-> book.seasons, standard |-> book.standard]
  /\ \A r \in book.daily \cup book.seasons \cup book.standard : r.plan \in Live /\ r.price \in Nat
  /\ job \in [Workers -> {Free} \cup Request \cup Sync]

(***************************************************************************)
(* Whoever is to be lodged, the tariffs a partner is given differ in meals *)
(* ("they are told apart by meals, a person chooses"): the price is never  *)
(* a matter of which row comes first, whatever two requests write at once. *)
(***************************************************************************)
PickedDifferByMeal ==
  \A q \in Queries : \A p, r \in PickPartnerPlans(q) :
    p # r => plans[p].meal # plans[r].meal

(***************************************************************************)
(* The account and the customer of a tariff are of the directory of its    *)
(* partner, whatever terms two requests write over one another.            *)
(***************************************************************************)
TermsOfOnePartner ==
  \A p \in Live : LET t == plans[p].terms IN
    \A e \in {t.account, t.customer} : e # None => OwnerOf[e] = t.partner

(***************************************************************************)
(* A partner is offered the price for the party it lodges or for any       *)
(* party, never that for another one ("the price of two never goes into    *)
(* the bill of one"), whatever prices have been set and deleted.           *)
(***************************************************************************)
PartnerPaysForItsParty ==
  \A p \in Live, n \in Nights, g \in Parties :
    plans[p].terms.partner # None =>
      \A price \in NightOffer(book, p, n, g, TRUE, 0) :
        \E r \in UNION {book[table] : table \in DOMAIN book} :
          r.plan = p /\ r.guests \in {g, AnyParty} /\ r.price = price

(***************************************************************************)
(* What a tariff of a partner costs, as quoted and as offered, changes     *)
(* only when its own row or its own prices are written: an edit of another *)
(* tariff never moves figures the partner has confirmed.                   *)
(***************************************************************************)
OwnRows(b, p) == [table \in DOMAIN b |-> {r \in b[table] : r.plan = p}]
Quoted(b, rows, p) ==
  [n \in Nights |-> [g \in Parties |->
    [quote |-> NightQuote(b, rows, p, n, g, BaseGuests), offer |-> NightOffer(b, p, n, g, TRUE, 0)]]]
PartnerPriceStable ==
  [][\A p \in Live :
       plans[p].terms.partner # None /\ plans'[p] = plans[p] /\ OwnRows(book, p) = OwnRows(book', p)
         => Quoted(book', plans', p) = Quoted(book, plans, p)]_planVars
-----------------------------------------------------------------------------
\* What the database keeps of its tariffs, whatever is written when.
OneForItsTerms == \A p \in Live : ScopeKey(p, plans[p])
PlansInv == PlansTypeOK /\ (\A p \in Live : ScopeCheck(plans[p])) /\ OneForItsTerms
=============================================================================
