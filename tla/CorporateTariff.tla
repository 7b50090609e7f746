-------------------------- MODULE CorporateTariff --------------------------
(***************************************************************************)
(* A corporate tariff: the hotel edits its terms and prices, the operator  *)
(* (the partner) edits the annexes of the contract, looks at the tariff on *)
(* a screen and confirms or rejects it, and bookings of the partner are    *)
(* charged by it.  Being confirmed is not a column: the row keeps the      *)
(* verdict with a fingerprint of what was looked at, and every reader      *)
(* compares it with the fingerprint of what there is                       *)
(* (rate-plans.service.ts, operator-tariff-status.ts).                     *)
(*                                                                         *)
(* One tariff and one stay, whose nights all cost the same.  A fingerprint *)
(* stands for the values it is computed from: SHA-256 is taken to be       *)
(* injective.  Each SELECT is a step; a transaction that reads the three   *)
(* tables of prices does so at READ COMMITTED, table by table.             *)
(***************************************************************************)
EXTENDS Naturals

CONSTANTS
  Procs,       \* processes that serve requests
  Operators,   \* those of them that serve an operator with a screen
  Terms,       \* what a row of the tariff says apart from prices
  Docs,        \* contents of the annexes of its contract
  Price,
  StartTerms, StartPrice,  \* what the hotel entered when it made the tariff
  PriceEdits,  \* what the hotel does to prices: source and new price, or None
  PlanEdits,   \* what the hotel does to the row: terms and activity, or None
  MaxEdits,    \* bound: how many writes of the hotel and the partner
  None, Unread

VARIABLES
  plan,        \* the row of the tariff
  docs,        \* the annexes of the contract, None when there are none
  prices,      \* prices[s]: what the table s says about the stay
  cache,       \* the quote of the stay in Redis, None when there is none
  job,         \* job[p]: the request p serves
  screen,      \* screen[p]: the tariff as the operator served by p has it open
  judged,      \* what was on the screen of the operator who confirmed
  edits        \* how many writes there were

tables == <<plan, docs, prices>>
vars == <<plan, docs, prices, cache, job, screen, judged, edits>>

-----------------------------------------------------------------------------
\* Tables of prices, from the one that counts most (rate, rate_season, standard_rate).
Sources == {"DAY", "SEASON", "STANDARD"}

Amount  == Price \cup {None}
Tariff  == [Sources -> Amount]
Reading == [Sources -> Amount \cup {Unread}]
Nothing == [s \in Sources |-> Unread]

Complete(r) == \A s \in Sources : r[s] # Unread

\* The table read next.
NextSource(r) == IF r["DAY"] = Unread THEN "DAY" ELSE IF r["SEASON"] = Unread THEN "SEASON" ELSE "STANDARD"

\* The price of a night.
Resolve(r) ==
  IF r["DAY"] # None THEN r["DAY"] ELSE IF r["SEASON"] # None THEN r["SEASON"] ELSE r["STANDARD"]

Fingerprints == [terms : Terms, docs : Docs \cup {None}, prices : Tariff]
Verdicts     == {"CONFIRMED", "REJECTED"}

Plan == [terms : Terms, active : BOOLEAN, verdict : Verdicts \cup {None}, fp : Fingerprints \cup {None}]

PriceEdit == [source : Sources, amount : Amount]
PlanEdit  == [terms : Terms \cup {None}, active : BOOLEAN \cup {None}]

-----------------------------------------------------------------------------
(* Fingerprint and status *)

(* Definitions named Slip... are plausible mistakes in the definition that     *)
(* follows; no action uses them.  They show what the properties notice.       *)

\* Only the calendar is looked at.
SlipFingerprint(row, d, r) ==
  [terms |-> row.terms, docs |-> d, prices |-> [s \in Sources |-> IF s = "DAY" THEN r[s] ELSE None]]

\* tariffFingerprint.
Fingerprint(row, d, r) ==
  [terms |-> row.terms, docs |-> d, prices |-> r]

\* operatorTariffStatus: a verdict counts as long as nothing has changed.
Applies(row, fp) == row.verdict = "CONFIRMED" /\ row.fp = fp

-----------------------------------------------------------------------------
(* Requests *)

\* The history variables of a request: `overtaken', something it may read was
\* changed since it began; `excused', the quote it found in Redis may be stale for
\* a reason; `judged', what was on the screen behind the confirmation it read.
Judged == [figures : Tariff, torn : BOOLEAN]

Ops == {"screen", "review", "book", "prices", "plan"}
Pcs == {"plan", "read", "quotes", "quote", "store", "again", "write", "keys", "del"}

Job == [ op : Ops, pc : Pcs, edit : PlanEdit \cup {None}, verdict : Verdicts \cup {None},
         plan : Plan \cup {None}, docs : Docs \cup {None, Unread}, prices : Reading, figures : Reading,
         applies : BOOLEAN, price : Amount, overtaken : BOOLEAN, excused : BOOLEAN, judged : Judged \cup {None} ]

Request(op, pc) ==
  [ op |-> op, pc |-> pc, edit |-> None, verdict |-> None, plan |-> None, docs |-> Unread,
    prices |-> Nothing, figures |-> Nothing, applies |-> FALSE, price |-> None,
    overtaken |-> FALSE, excused |-> FALSE, judged |-> None ]

\* What an operator has before the eyes: the figures, the fingerprint that goes with
\* them; `torn', they were read while something changed; `changed', something that
\* is in a fingerprint changed since the screen began to load.
Screen == [fp : Fingerprints, figures : Tariff, torn : BOOLEAN, changed : BOOLEAN]

Shown(s) == [figures |-> s.figures, torn |-> s.torn]

Quote == [price : Amount, excused : BOOLEAN]

ASSUME ConstantsAssumption ==
  /\ None \notin Terms \cup Docs \cup Price
  /\ None \notin Fingerprints \cup Plan \cup Job \cup Screen \cup Judged \cup Quote
  /\ None \notin BOOLEAN /\ None \notin Verdicts
  /\ Unread \notin Docs \cup Price \cup {None}
  /\ StartTerms \in Terms /\ StartPrice \in Price \cup {None}
  /\ Operators \subseteq Procs
  /\ PriceEdits \subseteq PriceEdit
  /\ PlanEdits \subseteq PlanEdit
  /\ MaxEdits \in Nat

TypeOK ==
  /\ plan \in Plan
  /\ docs \in Docs \cup {None}
  /\ prices \in Tariff
  /\ cache \in Quote \cup {None}
  /\ job \in [Procs -> Job \cup {None}]
  /\ screen \in [Procs -> Screen \cup {None}]
  /\ judged \in Judged \cup {None}
  /\ edits \in 0 .. MaxEdits

\* A tariff nobody has looked at yet; the partner has sent the contract.
Init ==
  /\ plan = [terms |-> StartTerms, active |-> TRUE, verdict |-> None, fp |-> None]
  /\ docs \in Docs
  /\ prices = [s \in Sources |-> IF s = "STANDARD" THEN StartPrice ELSE None]
  /\ cache = None
  /\ job = [p \in Procs |-> None]
  /\ screen = [p \in Procs |-> None]
  /\ judged = None
  /\ edits = 0

At(p, op, pc) == job[p] # None /\ job[p].op = op /\ job[p].pc = pc

Goes(p, j) == job' = [job EXCEPT ![p] = j]
Ends(p)    == Goes(p, None)

\* The requests after a write: the readers among them have been overtaken.
Noted ==
  [q \in Procs |-> IF job[q] # None /\ job[q].op \in {"screen", "book"}
                   THEN [job[q] EXCEPT !.overtaken = TRUE] ELSE job[q]]

\* One more write; the screens show something else than there is if it changed
\* anything a fingerprint is made of.
Edited ==
  /\ edits < MaxEdits
  /\ edits' = edits + 1
  /\ screen' = IF plan'.terms = plan.terms /\ docs' = docs /\ prices' = prices THEN screen
               ELSE [q \in Procs |-> IF screen[q] = None THEN None ELSE [screen[q] EXCEPT !.changed = TRUE]]

-----------------------------------------------------------------------------
(* Reading *)

\* The row for those who do not compare its verdict.
Bare == [plan EXCEPT !.verdict = None, !.fp = None]

\* The operator opens the tariff: partnerTariffs selects it among the active ones.
Look(p) ==
  /\ p \in Operators /\ job[p] = None /\ plan.active
  /\ Goes(p, [Request("screen", "read") EXCEPT !.plan = Bare])
  /\ UNCHANGED <<tables, cache, screen, judged, edits>>

\* A booking asks for the tariffs of the partner: partnerPlans.
Ask(p) ==
  /\ job[p] = None /\ plan.active
  /\ Goes(p, [Request("book", "read") EXCEPT !.plan = plan, !.judged = judged])
  /\ UNCHANGED <<tables, cache, screen, judged, edits>>

\* contractDocs, beside planPrices; the review reads it first and has nothing to
\* compare without annexes.
ReadDocs(p) ==
  /\ job[p] # None /\ job[p].pc = "read" /\ job[p].docs = Unread
  /\ job[p].op = "review" => docs # None
  /\ Goes(p, [job[p] EXCEPT !.docs = docs])
  /\ UNCHANGED <<tables, cache, screen, judged, edits>>

\* planPrices, for the fingerprint: one table.
ReadPrices(p) ==
  /\ job[p] # None /\ job[p].pc = "read" /\ ~Complete(job[p].prices)
  /\ job[p].op = "review" => job[p].docs # Unread
  /\ Goes(p, [job[p] EXCEPT !.prices[NextSource(job[p].prices)] = prices[NextSource(job[p].prices)]])
  /\ UNCHANGED <<tables, cache, screen, judged, edits>>

\* planPrices once more, for what is displayed; the screen asks for both at once.
\* A quote reads the same tables in the same order.
ReadFigures(p) ==
  /\ At(p, "screen", "read") \/ At(p, "book", "quote")
  /\ ~Complete(job[p].figures)
  /\ Goes(p, [job[p] EXCEPT !.figures[NextSource(job[p].figures)] = prices[NextSource(job[p].figures)]])
  /\ UNCHANGED <<tables, cache, screen, judged, edits>>

\* Everything a fingerprint needs has been read.
HasRead(p) == job[p].pc = "read" /\ job[p].docs # Unread /\ Complete(job[p].prices)

FingerprintOf(j) == Fingerprint(j.plan, j.docs, j.prices)

\* The operator sees the figures, and keeps the fingerprint that came with them.
Show(p) ==
  /\ job[p] # None /\ job[p].op = "screen" /\ HasRead(p) /\ Complete(job[p].figures)
  /\ screen' = [screen EXCEPT ![p] = [ fp |-> FingerprintOf(job[p]), figures |-> job[p].figures,
                                       torn |-> job[p].overtaken, changed |-> job[p].overtaken ]]
  /\ Ends(p)
  /\ UNCHANGED <<tables, cache, judged, edits>>

-----------------------------------------------------------------------------
(* Review *)

\* The operator decides about what the screen shows; reviewCorporateTariff looks for
\* the tariff among the active ones.
Decide(p, v) ==
  /\ job[p] = None /\ screen[p] # None /\ plan.active
  /\ Goes(p, [Request("review", "plan") EXCEPT !.verdict = v])
  /\ UNCHANGED <<tables, cache, screen, judged, edits>>

\* applyOperatorReview selects the row again, active or not.
ReadReviewed(p) ==
  /\ At(p, "review", "plan")
  /\ Goes(p, [job[p] EXCEPT !.plan = Bare, !.pc = "read"])
  /\ UNCHANGED <<tables, cache, screen, judged, edits>>

\* The review measures with a rule of its own, without the seasons.
SlipSeenIs(p) ==
  LET r == job[p].prices
  IN  screen[p].fp = Fingerprint(job[p].plan, job[p].docs, [r EXCEPT !["SEASON"] = None])

\* The fingerprint the operator has seen is the one computed now.
SeenIs(p) == screen[p].fp = FingerprintOf(job[p])

\* The review is refused: the prices have changed while the operator looked at them.
HaveChanged(p) == job[p] # None /\ job[p].op = "review" /\ HasRead(p) /\ ~SeenIs(p)

\* Written by id alone: what has changed since then stays as it is.
WriteVerdict(p) ==
  /\ job[p] # None /\ job[p].op = "review" /\ HasRead(p) /\ SeenIs(p)
  /\ plan' = [plan EXCEPT !.verdict = job[p].verdict, !.fp = FingerprintOf(job[p])]
  /\ judged' = IF job[p].verdict = "CONFIRMED" THEN Shown(screen[p]) ELSE None
  /\ Ends(p)
  /\ UNCHANGED <<docs, prices, cache, screen, edits>>

-----------------------------------------------------------------------------
(* Quotes and bookings *)

\* Some edit has been committed and its request has not yet dropped the quotes.
Dropping == \E p \in Procs : At(p, "prices", "keys") \/ At(p, "prices", "del")
                             \/ At(p, "plan", "keys") \/ At(p, "plan", "del")

\* What a booking keeps of the tariff once its status is known; of one that does
\* not apply, nothing.
Known(j) ==
  LET a == Applies(j.plan, FingerprintOf(j))
  IN  [ Request("book", "quotes") EXCEPT !.applies = a, !.overtaken = j.overtaken,
        !.judged = IF a THEN j.judged ELSE None ]

\* With the price known the tariff is the one of the booking if it applies and has
\* a price; otherwise the booking is refused.
Priced(j) == IF j.applies /\ j.price # None THEN [j EXCEPT !.pc = "again"] ELSE None

\* priceByPlan: GET.
Hit(p) ==
  /\ job[p] # None /\ job[p].op = "book" /\ HasRead(p) /\ cache # None
  /\ Goes(p, Priced([Known(job[p]) EXCEPT !.price = cache.price, !.excused = cache.excused \/ Dropping]))
  /\ UNCHANGED <<tables, cache, screen, judged, edits>>

Miss(p) ==
  /\ job[p] # None /\ job[p].op = "book" /\ HasRead(p) /\ cache = None
  /\ Goes(p, Known(job[p]))
  /\ UNCHANGED <<tables, cache, screen, judged, edits>>

\* Only active tariffs are quoted.
ReadQuoted(p) ==
  /\ At(p, "book", "quotes")
  /\ Goes(p, [job[p] EXCEPT !.pc = IF plan.active THEN "quote" ELSE "store"])
  /\ UNCHANGED <<tables, cache, screen, judged, edits>>

\* SET: a quote without the tariff when it was not active or has no price.
Store(p) ==
  /\ \/ At(p, "book", "store")
     \/ At(p, "book", "quote") /\ Complete(job[p].figures)
  /\ LET a == IF job[p].pc = "store" THEN None ELSE Resolve(job[p].figures)
     IN  /\ cache' = [price |-> a, excused |-> job[p].overtaken]
         /\ Goes(p, Priced([job[p] EXCEPT !.figures = Nothing, !.price = a]))
  /\ UNCHANGED <<tables, screen, judged, edits>>

\* The row is selected once more, and the booking made.
Book(p) ==
  /\ At(p, "book", "again") /\ plan.active
  /\ Ends(p)
  /\ UNCHANGED <<tables, cache, screen, judged, edits>>

\* The quote expires.
Expire ==
  /\ cache # None
  /\ cache' = None
  /\ UNCHANGED <<tables, job, screen, judged, edits>>

-----------------------------------------------------------------------------
(* Edits *)

\* bulkUpsert, fillRange and remove (DAY), replaceSeasons, setStandard.
WritePrices(p, e) ==
  /\ job[p] = None
  /\ prices' = [prices EXCEPT ![e.source] = e.amount]
  /\ job' = [Noted EXCEPT ![p] = Request("prices", "keys")]
  /\ UNCHANGED <<plan, docs, cache, judged>>
  /\ Edited

\* update reads the row: conditions of the partner that are not in the request are
\* later written as they were read.
ReadBefore(p, e) ==
  /\ job[p] = None
  /\ LET t == IF e.terms = None THEN plan.terms ELSE e.terms
     IN  Goes(p, [Request("plan", "write") EXCEPT !.edit = [e EXCEPT !.terms = t]])
  /\ UNCHANGED <<tables, cache, screen, judged, edits>>

WritePlan(p) ==
  /\ At(p, "plan", "write")
  /\ LET e == job[p].edit
     IN  plan' = [plan EXCEPT !.terms = e.terms, !.active = IF e.active = None THEN @ ELSE e.active]
  /\ job' = [Noted EXCEPT ![p] = Request("plan", "keys")]
  /\ UNCHANGED <<docs, prices, cache, judged>>
  /\ Edited

\* syncContractPrices, putContractPrices: the partner's annexes, in one transaction.
\* (Sending what there is changes nothing.)
SetDocs(d) ==
  /\ docs' = d
  /\ job' = Noted
  /\ UNCHANGED <<plan, prices, cache, judged>>
  /\ Edited

\* Nothing is dropped.
SlipKeys(p) ==
  /\ At(p, "prices", "keys") \/ At(p, "plan", "keys")
  /\ Ends(p)
  /\ UNCHANGED <<tables, cache, screen, judged, edits>>

\* dropPriceCache: KEYS, and DEL of what it found.
Keys(p) ==
  /\ At(p, "prices", "keys") \/ At(p, "plan", "keys")
  /\ IF cache # None THEN Goes(p, [job[p] EXCEPT !.pc = "del"]) ELSE Ends(p)
  /\ UNCHANGED <<tables, cache, screen, judged, edits>>

Del(p) ==
  /\ At(p, "prices", "del") \/ At(p, "plan", "del")
  /\ cache' = None
  /\ Ends(p)
  /\ UNCHANGED <<tables, screen, judged, edits>>

\* A request ends without more: it was refused or failed, or the process died.  An
\* edit that was committed has then dropped nothing.
Fails(p) ==
  /\ job[p] # None
  /\ cache' = IF job[p].pc \in {"keys", "del"} /\ cache # None THEN [cache EXCEPT !.excused = TRUE] ELSE cache
  /\ Ends(p)
  /\ UNCHANGED <<tables, screen, judged, edits>>

-----------------------------------------------------------------------------
Next ==
  \/ \E p \in Procs :
       \/ Look(p) \/ Ask(p) \/ ReadDocs(p) \/ ReadPrices(p) \/ ReadFigures(p) \/ Show(p)
       \/ \E v \in Verdicts : Decide(p, v)
       \/ ReadReviewed(p) \/ WriteVerdict(p)
       \/ Hit(p) \/ Miss(p) \/ ReadQuoted(p) \/ Store(p) \/ Book(p)
       \/ \E e \in PriceEdits : WritePrices(p, e)
       \/ \E e \in PlanEdits : ReadBefore(p, e)
       \/ WritePlan(p) \/ Keys(p) \/ Del(p) \/ Fails(p)
  \/ \E d \in (Docs \cup {None}) \ {docs} : SetDocs(d)
  \/ Expire

Spec == Init /\ [][Next]_vars

-----------------------------------------------------------------------------
(* Properties *)

\* An operator who is told that the prices have changed while the screen was open
\* is told the truth: the screen and the review compute the fingerprint from the
\* same things, and nobody is sent back for nothing (applyOperatorReview, the
\* comparison with seenFingerprint).
RefusalIsHonest ==
  \A p \in Procs : HaveChanged(p) => screen[p].changed

\* A quote in Redis is the price there is, unless an edit is about to drop it, died
\* before it did, or came between the reading and the storing of the quote
\* (priceByPlan and dropPriceCache).
StaleQuoteHasReason ==
  cache # None /\ ~cache.excused /\ ~Dropping => cache.price = IF plan.active THEN Resolve(prices) ELSE None

\* From the screen to the bill: a booking is charged the figures that were on the
\* screen of the operator who confirmed the tariff, unless something changed while
\* that screen was loading or while the booking was made, or Redis gave a stale quote.
ChargedAsShown ==
  \A p \in Procs :
    At(p, "book", "again") /\ ~job[p].overtaken /\ ~job[p].excused /\ ~job[p].judged.torn
      => job[p].price = Resolve(job[p].judged.figures)

\* What is confirmed was on the screen: the verdict is about the figures the
\* operator saw (comment in applyOperatorReview).
ConfirmedWasShown ==
  plan.verdict = "CONFIRMED" => plan.fp.prices = judged.figures

\* No booking is charged a price other than a confirmed one (head of
\* operator-tariff-status.ts).
ChargedAsConfirmed ==
  \A p \in Procs :
    At(p, "book", "again") /\ plan.active =>
      Applies(plan, Fingerprint(plan, docs, prices)) /\ job[p].price = Resolve(prices)
=============================================================================
