----------------------- MODULE CorporateTariffProofs -----------------------
(***************************************************************************)
(* Theorems about CorporateTariff and ContractTariffs, for every number of *)
(* requests, contents of rows and annexes, prices and edits, and for every *)
(* number of documents, tariffs and pages.                                 *)
(***************************************************************************)
EXTENDS CorporateTariff, ContractTariffs, RoomPlacesProofs, SequenceTheorems

(* The inductive invariant: what a request j has in hand *)

\* Its parts are there when they are needed.
Equipped(p, j) ==
  /\ j.op = "screen" => j.pc = "read"
  /\ j.op = "review" => j.pc \in {"plan", "read"} /\ j.verdict \in Verdicts /\ screen[p] # None
  /\ j.op = "book"   => j.pc \in {"read", "quotes", "quote", "store", "again"}
  /\ j.op \in {"prices", "plan"} => j.pc \in {"write", "keys", "del"}
  /\ j.pc = "plan"   => j.docs = Unread /\ j.prices = Nothing
  /\ j.pc = "read"   => j.plan \in Plan
  /\ j.pc = "write"  => j.edit \in PlanEdit /\ j.edit.terms \in Terms

\* What it has read of the prices, and for a fingerprint, is still so.
StillPrices(r) == \A s \in Sources : r[s] # Unread => r[s] = prices[s]

StillSo(j) ==
  /\ j.plan.terms = plan.terms
  /\ j.docs # Unread => j.docs = docs
  /\ StillPrices(j.prices)

\* A reader that was not overtaken.
UpToDate(j) ==
  j.op \in {"screen", "book"} /\ ~j.overtaken =>
    /\ j.pc = "read" => StillSo(j)
    /\ StillPrices(j.figures)
    /\ j.pc = "quote" => plan.active
    /\ j.pc = "store" => ~plan.active

\* A review of a screen nothing has changed behind.
Agrees(p, j) == j.op = "review" /\ j.pc = "read" /\ ~screen[p].changed => StillSo(j)

\* The figures behind a confirmation, k, are those of its fingerprint, unless the
\* screen was torn.
Backed(row, k) == row.verdict = "CONFIRMED" => k # None /\ row.fp # None /\ (~k.torn => row.fp.prices = k.figures)

\* A booking past the status of the tariff.
Priceworthy(j) ==
  j.op = "book" /\ j.pc # "read" =>
    /\ j.applies => j.judged # None
    /\ j.applies /\ ~j.overtaken /\ ~j.judged.torn => j.judged.figures = prices
    /\ j.pc = "again" => j.applies
    /\ j.pc = "again" /\ ~j.overtaken /\ ~j.excused => j.price = Resolve(prices)

InHand(p, j) ==
  j # None =>
    /\ Equipped(p, j)
    /\ UpToDate(j)
    /\ Agrees(p, j)
    /\ j.op = "book" /\ j.pc = "read" => Backed(j.plan, j.judged)
    /\ Priceworthy(j)

\* A screen nothing has changed behind shows what there is, and one that is not torn
\* shows the figures of its fingerprint.
ScreenOK(p) ==
  screen[p] # None =>
    /\ ~screen[p].changed => screen[p].fp = Fingerprint(plan, docs, prices)
    /\ ~screen[p].torn => screen[p].fp.prices = screen[p].figures

TariffInv ==
  /\ TypeOK
  /\ \A p \in Procs : InHand(p, job[p])
  /\ \A p \in Procs : ScreenOK(p)
  /\ StaleQuoteHasReason
  /\ Backed(plan, judged)

-----------------------------------------------------------------------------
(* Steps that change one request *)

DropsIn(j) == j # None /\ j.op \in {"prices", "plan"} /\ j.pc \in {"keys", "del"}

LEMMA DroppingMeans == Dropping <=> \E p \in Procs : DropsIn(job[p])
  BY SMT DEF Dropping, DropsIn, At

\* A request that goes on within its invariant, all else being as it was, keeps the
\* invariant.
LEMMA OneRequest ==
  ASSUME TariffInv, NEW p \in Procs, NEW j \in Job \cup {None}, Goes(p, j), InHand(p, j),
         DropsIn(job[p]) => DropsIn(j) \/ cache = None,
         UNCHANGED <<tables, cache, screen, judged, edits>>
  PROVE  TariffInv'
<1> USE ConstantsAssumption
<1>1. job' = [job EXCEPT ![p] = j] /\ job \in [Procs -> Job \cup {None}]
  BY DEF TariffInv, TypeOK, Goes
<1>2. TypeOK'
  BY <1>1 DEF TariffInv, TypeOK, tables
<1>3. \A q \in Procs : InHand(q, job[q])'
  <2> TAKE q \in Procs
  <2>1. job'[q] = IF q = p THEN j ELSE job[q]
    BY <1>1
  <2>2. InHand(q, job'[q])
    BY <2>1 DEF TariffInv
  <2>. QED
    BY <2>2 DEF InHand, Equipped, UpToDate, StillSo, StillPrices, Agrees, Backed, Priceworthy, tables
<1>4. \A q \in Procs : ScreenOK(q)'
  BY DEF TariffInv, ScreenOK, Fingerprint, tables
<1>5. StaleQuoteHasReason'
  <2>1. Dropping => Dropping' \/ cache = None
    BY <1>1, DroppingMeans DEF Dropping, DropsIn, At
  <2>. QED
    BY <2>1 DEF TariffInv, StaleQuoteHasReason, tables
<1>6. Backed(plan, judged)'
  BY DEF TariffInv, Backed, tables
<1>. QED
  BY <1>2, <1>3, <1>4, <1>5, <1>6 DEF TariffInv

-----------------------------------------------------------------------------
(* Types *)

Serves(p, op) == job[p] # None /\ job[p].op = op

LEMMA RequestTyped ==
  ASSUME NEW op \in Ops, NEW pc \in Pcs
  PROVE  Request(op, pc) \in Job
BY ConstantsAssumption DEF Request, Job, Nothing, Reading, Amount

LEMMA BareTyped == TypeOK => Bare \in Plan
BY DEF TypeOK, Bare, Plan

LEMMA CompleteIsTariff ==
  ASSUME NEW r \in Reading, Complete(r)
  PROVE  r \in Tariff
BY DEF Reading, Complete, Tariff

LEMMA NextSourceIsSource == \A r : NextSource(r) \in Sources
BY DEF NextSource, Sources

LEMMA ResolveTyped ==
  ASSUME NEW r \in Tariff
  PROVE  Resolve(r) \in Amount
BY DEF Tariff, Resolve, Sources

LEMMA FingerprintTyped ==
  ASSUME NEW row \in Plan, NEW d \in Docs \cup {None}, NEW r \in Tariff
  PROVE  Fingerprint(row, d, r) \in Fingerprints
BY DEF Plan, Fingerprint, Fingerprints

LEMMA NothingIsSo == StillPrices(Nothing)
BY DEF StillPrices, Nothing

LEMMA CompleteIsSo ==
  ASSUME TypeOK, NEW r \in Reading, Complete(r), StillPrices(r)
  PROVE  r = prices
BY DEF TypeOK, Reading, Tariff, StillPrices, Complete

-----------------------------------------------------------------------------
(* Reading *)

LEMMA LookKeeps ==
  ASSUME TariffInv, NEW p \in Procs, Look(p)
  PROVE  TariffInv'
<1> DEFINE j == [Request("screen", "read") EXCEPT !.plan = Bare]
<1>1. Bare \in Plan /\ Bare.terms = plan.terms
  BY BareTyped DEF TariffInv, TypeOK, Plan, Bare
<1>2. j \in Job
  BY <1>1, RequestTyped DEF Ops, Pcs, Job
<1>3. InHand(p, j)
  BY <1>1, NothingIsSo DEF InHand, Equipped, UpToDate, StillSo, Agrees, Priceworthy, Request
<1>. HIDE DEF j
<1>. QED
  BY <1>2, <1>3, OneRequest DEF Look, DropsIn, j

LEMMA AskKeeps ==
  ASSUME TariffInv, NEW p \in Procs, Ask(p)
  PROVE  TariffInv'
<1> DEFINE j == [Request("book", "read") EXCEPT !.plan = plan, !.judged = judged]
<1>1. plan \in Plan /\ judged \in Judged \cup {None} /\ Backed(plan, judged)
  BY DEF TariffInv, TypeOK
<1>2. Request("book", "read") \in Job
  BY RequestTyped DEF Ops, Pcs
<1>3. j \in Job
  BY <1>1, <1>2 DEF Job
<1>4. InHand(p, j)
  BY <1>1, NothingIsSo DEF InHand, Equipped, UpToDate, StillSo, Agrees, Priceworthy, Request
<1>. HIDE DEF j
<1>. QED
  BY <1>3, <1>4, OneRequest DEF Ask, DropsIn, j

LEMMA ReadDocsKeeps ==
  ASSUME TariffInv, NEW p \in Procs, ReadDocs(p)
  PROVE  TariffInv'
<1> DEFINE j == [job[p] EXCEPT !.docs = docs]
<1>1. job[p] \in Job /\ InHand(p, job[p])
  BY DEF TariffInv, TypeOK, ReadDocs
<1>2. j \in Job
  BY <1>1 DEF Job, TariffInv, TypeOK
<1>3. InHand(p, j)
  BY <1>1 DEF InHand, Equipped, UpToDate, StillSo, Agrees, Priceworthy, Job, ReadDocs
<1>4. ~DropsIn(job[p])
  BY DEF ReadDocs, DropsIn
<1>. HIDE DEF j
<1>. QED
  BY <1>2, <1>3, <1>4, OneRequest DEF ReadDocs, j

LEMMA ReadPricesKeeps ==
  ASSUME TariffInv, NEW p \in Procs, ReadPrices(p)
  PROVE  TariffInv'
<1> DEFINE r == job[p].prices
           n == [r EXCEPT ![NextSource(r)] = prices[NextSource(r)]]
           j == [job[p] EXCEPT !.prices = n]
<1>1. job[p] \in Job /\ r \in Reading /\ InHand(p, job[p])
  BY DEF TariffInv, TypeOK, ReadPrices, Job
<1>2. n \in Reading /\ (StillPrices(r) => StillPrices(n))
  BY <1>1, NextSourceIsSource DEF TariffInv, TypeOK, Reading, Tariff, StillPrices
<1>3. j \in Job
  BY <1>1, <1>2 DEF Job
<1>4. InHand(p, j)
  <2>. HIDE DEF n
  <2>. QED
    BY <1>1, <1>2 DEF InHand, Equipped, UpToDate, StillSo, Agrees, Priceworthy, Job, ReadPrices
<1>5. ~DropsIn(job[p])
  BY DEF ReadPrices, DropsIn
<1>6. Goes(p, j)
  BY <1>1 DEF ReadPrices, Goes
<1>. HIDE DEF j
<1>. QED
  BY <1>3, <1>4, <1>5, <1>6, OneRequest DEF ReadPrices

LEMMA ReadFiguresKeeps ==
  ASSUME TariffInv, NEW p \in Procs, ReadFigures(p)
  PROVE  TariffInv'
<1> DEFINE r == job[p].figures
           n == [r EXCEPT ![NextSource(r)] = prices[NextSource(r)]]
           j == [job[p] EXCEPT !.figures = n]
<1>1. job[p] \in Job /\ r \in Reading /\ InHand(p, job[p]) /\ job[p] # None
  BY DEF TariffInv, TypeOK, ReadFigures, Job, At
<1>2. n \in Reading /\ (StillPrices(r) => StillPrices(n))
  BY <1>1, NextSourceIsSource DEF TariffInv, TypeOK, Reading, Tariff, StillPrices
<1>3. j \in Job
  BY <1>1, <1>2 DEF Job
<1>4. InHand(p, j)
  <2>. HIDE DEF n
  <2>. QED
    BY <1>1, <1>2 DEF InHand, Equipped, UpToDate, StillSo, Agrees, Priceworthy, Job, ReadFigures
<1>5. ~DropsIn(job[p])
  BY DEF ReadFigures, DropsIn, At
<1>6. Goes(p, j)
  BY <1>1 DEF ReadFigures, Goes
<1>. HIDE DEF j
<1>. QED
  BY <1>3, <1>4, <1>5, <1>6, OneRequest DEF ReadFigures

-----------------------------------------------------------------------------
(* Reviews *)

LEMMA DecideKeeps ==
  ASSUME TariffInv, NEW p \in Procs, NEW v \in Verdicts, Decide(p, v)
  PROVE  TariffInv'
<1> DEFINE j == [Request("review", "plan") EXCEPT !.verdict = v]
<1>1. j \in Job
  BY RequestTyped DEF Ops, Pcs, Job
<1>2. InHand(p, j)
  BY DEF InHand, Equipped, UpToDate, Agrees, Priceworthy, Request, Decide
<1>. HIDE DEF j
<1>. QED
  BY <1>1, <1>2, OneRequest DEF Decide, DropsIn, j

LEMMA ReadReviewedKeeps ==
  ASSUME TariffInv, NEW p \in Procs, ReadReviewed(p)
  PROVE  TariffInv'
<1> DEFINE j == [job[p] EXCEPT !.plan = Bare, !.pc = "read"]
<1>1. job[p] \in Job /\ InHand(p, job[p])
  BY DEF TariffInv, TypeOK, ReadReviewed, At
<1>2. Bare \in Plan /\ Bare.terms = plan.terms
  BY BareTyped DEF TariffInv, TypeOK, Plan, Bare
<1>3. j \in Job
  BY <1>1, <1>2 DEF Job, Pcs
<1>4. InHand(p, j)
  BY <1>1, <1>2, NothingIsSo DEF InHand, Equipped, UpToDate, StillSo, Agrees, Priceworthy, ReadReviewed, At, Job
<1>5. ~DropsIn(job[p])
  BY DEF ReadReviewed, DropsIn, At
<1>. HIDE DEF j
<1>. QED
  BY <1>3, <1>4, <1>5, OneRequest DEF ReadReviewed, j

-----------------------------------------------------------------------------
(* Quotes and bookings *)

\* A booking whose tariff has been read and compared.
LEMMA KnownInHand ==
  ASSUME TariffInv, NEW p \in Procs, Serves(p, "book"), HasRead(p)
  PROVE  /\ Known(job[p]) \in Job
         /\ Known(job[p]).figures = Nothing
         /\ InHand(p, Known(job[p]))
<1> DEFINE j == job[p]
           k == Known(j)
           fp == FingerprintOf(j)
<1>1. j \in Job /\ InHand(p, j) /\ j.op = "book" /\ j.pc = "read" /\ j # None
  BY DEF Serves, HasRead, TariffInv, TypeOK
<1>2. j.judged \in Judged \cup {None} /\ j.overtaken \in BOOLEAN /\ j.prices \in Reading /\ Complete(j.prices)
  BY <1>1 DEF Job, HasRead
<1>3. Applies(j.plan, fp) \in BOOLEAN
  BY DEF Applies
<1>4. Request("book", "quotes") \in Job
  BY RequestTyped DEF Ops, Pcs
<1>5. k \in Job
  BY <1>2, <1>3, <1>4 DEF Known, Job
<1>6. /\ k.op = "book" /\ k.pc = "quotes" /\ k.figures = Nothing /\ k.overtaken = j.overtaken
      /\ k.applies = Applies(j.plan, fp)
      /\ k.applies => k.judged = j.judged
  BY DEF Known, Request
<1>7. ASSUME Applies(j.plan, fp)
      PROVE  /\ j.judged # None
             /\ ~j.overtaken /\ ~j.judged.torn => j.judged.figures = prices
  <2>1. Backed(j.plan, j.judged) /\ j.plan.verdict = "CONFIRMED" /\ j.plan.fp = fp
    BY <1>1, <1>7 DEF InHand, Applies
  <2>2. fp.prices = j.prices
    BY DEF FingerprintOf, Fingerprint
  <2>3. ~j.overtaken => j.prices = prices
    BY <1>1, <1>2, CompleteIsSo DEF InHand, UpToDate, StillSo, TariffInv
  <2>. QED
    BY <2>1, <2>2, <2>3 DEF Backed
<1>8. InHand(p, k)
  <2>. HIDE DEF k, fp
  <2>. QED
    BY <1>6, <1>7, NothingIsSo DEF InHand, Equipped, UpToDate, Agrees, Priceworthy
<1>. QED
  BY <1>5, <1>6, <1>8

LEMMA HitKeeps ==
  ASSUME TariffInv, NEW p \in Procs, Hit(p)
  PROVE  TariffInv'
<1> DEFINE k == [Known(job[p]) EXCEPT !.price = cache.price, !.excused = cache.excused \/ Dropping]
           j == Priced(k)
<1>1. /\ Known(job[p]) \in Job /\ InHand(p, Known(job[p]))
      /\ Known(job[p]).op = "book" /\ Known(job[p]).pc = "quotes" /\ Known(job[p]).figures = Nothing
  BY KnownInHand DEF Hit, Serves, Known, Request
<1>2. cache \in Quote /\ cache # None
  BY DEF Hit, TariffInv, TypeOK
<1>3. cache.price \in Amount /\ (cache.excused \/ Dropping) \in BOOLEAN
  BY <1>2 DEF Quote
<1>4. k \in Job
  BY <1>1, <1>3 DEF Job
<1>5. j \in Job \cup {None}
  <2>1. [k EXCEPT !.pc = "again"] \in Job
    <3> HIDE DEF k
    <3> QED BY <1>4 DEF Job, Pcs
  <2>2. j \in {None, [k EXCEPT !.pc = "again"]}
    BY DEF Priced
  <2> QED BY <2>1, <2>2
<1>6. k.price # None /\ ~k.excused => k.price = Resolve(prices)
  BY <1>1, <1>2, <1>3 DEF TariffInv, StaleQuoteHasReason, Job
<1>7. InHand(p, j)
  <2>1. Known(job[p]) # None
    BY <1>1, ConstantsAssumption
  <2>2. /\ k.op = "book" /\ k.pc = "quotes" /\ k.figures = Nothing /\ k.overtaken = Known(job[p]).overtaken
        /\ k.applies = Known(job[p]).applies /\ k.judged = Known(job[p]).judged
    BY <1>1 DEF Job
  <2>3. Priceworthy(k)
    BY <2>1, <2>2, <1>1 DEF InHand, Priceworthy
  <2>. HIDE DEF k
  <2>4. CASE k.applies /\ k.price # None
    <3>1. j = [k EXCEPT !.pc = "again"]
      BY <2>4 DEF Priced
    <3>2. /\ j.op = "book" /\ j.pc = "again" /\ j.figures = Nothing /\ j.overtaken = k.overtaken
          /\ j.applies = k.applies /\ j.judged = k.judged /\ j.price = k.price /\ j.excused = k.excused
      BY <1>4, <2>2, <3>1 DEF Job
    <3>. QED
      BY <2>2, <2>3, <2>4, <3>2, <1>6, NothingIsSo DEF InHand, Equipped, UpToDate, Agrees, Priceworthy
  <2>5. CASE ~(k.applies /\ k.price # None)
    BY <2>5 DEF Priced, InHand
  <2>. QED
    BY <2>4, <2>5
<1>8. ~DropsIn(job[p])
  BY DEF Hit, DropsIn
<1>. HIDE DEF j, k
<1>. QED
  BY <1>5, <1>7, <1>8, OneRequest DEF Hit, j, k

LEMMA MissKeeps ==
  ASSUME TariffInv, NEW p \in Procs, Miss(p)
  PROVE  TariffInv'
<1>1. Known(job[p]) \in Job /\ InHand(p, Known(job[p]))
  BY KnownInHand DEF Miss, Serves
<1>. QED
  BY <1>1, OneRequest DEF Miss

LEMMA ReadQuotedKeeps ==
  ASSUME TariffInv, NEW p \in Procs, ReadQuoted(p)
  PROVE  TariffInv'
<1> DEFINE j == [job[p] EXCEPT !.pc = IF plan.active THEN "quote" ELSE "store"]
<1>1. job[p] \in Job /\ InHand(p, job[p])
  BY DEF TariffInv, TypeOK, ReadQuoted, At
<1>2. j \in Job
  BY <1>1 DEF Job, Pcs
<1>3. InHand(p, j)
  BY <1>1 DEF InHand, Equipped, UpToDate, StillSo, Agrees, Priceworthy, ReadQuoted, At, Job
<1>4. ~DropsIn(job[p])
  BY DEF ReadQuoted, DropsIn, At
<1>. HIDE DEF j
<1>. QED
  BY <1>2, <1>3, <1>4, OneRequest DEF ReadQuoted, j

LEMMA BookKeeps ==
  ASSUME TariffInv, NEW p \in Procs, Book(p)
  PROVE  TariffInv'
BY OneRequest DEF Book, Ends, InHand, DropsIn, At

-----------------------------------------------------------------------------
(* Edits *)

LEMMA ReadBeforeKeeps ==
  ASSUME TariffInv, NEW p \in Procs, NEW e \in PlanEdits, ReadBefore(p, e)
  PROVE  TariffInv'
<1> DEFINE t == IF e.terms = None THEN plan.terms ELSE e.terms
           j == [Request("plan", "write") EXCEPT !.edit = [e EXCEPT !.terms = t]]
<1>1. e \in PlanEdit /\ t \in Terms /\ [e EXCEPT !.terms = t] \in PlanEdit
  BY ConstantsAssumption DEF PlanEdit, TariffInv, TypeOK, Plan
<1>2. j \in Job
  BY <1>1, RequestTyped DEF Ops, Pcs, Job
<1>3. InHand(p, j)
  BY <1>1 DEF InHand, Equipped, UpToDate, Agrees, Priceworthy, Request, PlanEdit
<1>. HIDE DEF j
<1>. QED
  BY <1>2, <1>3, OneRequest DEF ReadBefore, DropsIn, j

LEMMA KeysKeeps ==
  ASSUME TariffInv, NEW p \in Procs, Keys(p)
  PROVE  TariffInv'
<1>1. CASE cache = None
  BY <1>1, OneRequest DEF Keys, Ends, InHand
<1>2. CASE cache # None
  <2> DEFINE j == [job[p] EXCEPT !.pc = "del"]
  <2>1. job[p] \in Job /\ InHand(p, job[p]) /\ job[p] # None
    BY DEF TariffInv, TypeOK, Keys, At
  <2>2. j \in Job
    BY <2>1 DEF Job, Pcs
  <2>3. InHand(p, j)
    BY <2>1 DEF InHand, Equipped, UpToDate, StillSo, Agrees, Priceworthy, Keys, At, Job
  <2>4. DropsIn(j)
    BY <2>1, <2>2, ConstantsAssumption DEF DropsIn, Keys, At, Job
  <2>. HIDE DEF j
  <2>. QED
    BY <1>2, <2>2, <2>3, <2>4, OneRequest DEF Keys, j
<1>. QED
  BY <1>1, <1>2

-----------------------------------------------------------------------------
(* Steps that change a table, a screen or the quote *)

LEMMA ShowKeeps ==
  ASSUME TariffInv, NEW p \in Procs, Show(p)
  PROVE  TariffInv'
<1> USE ConstantsAssumption
<1> DEFINE j == job[p]
           s == [fp |-> FingerprintOf(j), figures |-> j.figures, torn |-> j.overtaken, changed |-> j.overtaken]
<1>1. /\ j \in Job /\ InHand(p, j) /\ j.op = "screen" /\ j.pc = "read" /\ j # None
      /\ j.docs # Unread /\ Complete(j.prices) /\ Complete(j.figures)
      /\ job' = [job EXCEPT ![p] = None] /\ screen' = [screen EXCEPT ![p] = s]
      /\ job \in [Procs -> Job \cup {None}] /\ screen \in [Procs -> Screen \cup {None}]
  BY DEF Show, HasRead, Ends, Goes, TariffInv, TypeOK
<1>2. /\ j.plan \in Plan /\ j.docs \in Docs \cup {None} /\ j.prices \in Reading /\ j.figures \in Reading
      /\ j.overtaken \in BOOLEAN
  BY <1>1 DEF Job, InHand, Equipped
<1>3. j.prices \in Tariff /\ j.figures \in Tariff
  BY <1>1, <1>2, CompleteIsTariff
<1>4. s \in Screen
  BY <1>2, <1>3, FingerprintTyped DEF FingerprintOf, Screen
<1>5. ~j.overtaken => /\ j.plan.terms = plan.terms /\ j.docs = docs
                      /\ j.prices = prices /\ j.figures = prices
  BY <1>1, <1>2, CompleteIsSo DEF InHand, UpToDate, StillSo, TariffInv
<1>6. TypeOK'
  BY <1>1, <1>4 DEF Show, tables, TariffInv, TypeOK
<1>7. \A q \in Procs : InHand(q, job[q])'
  <2> TAKE q \in Procs
  <2>1. CASE q = p
    BY <1>1, <2>1 DEF InHand
  <2>2. CASE q # p
    <3>1. job'[q] = job[q] /\ screen'[q] = screen[q] /\ InHand(q, job[q])
      BY <1>1, <2>2 DEF TariffInv
    <3>. QED
      BY <3>1 DEF InHand, Equipped, UpToDate, StillSo, StillPrices, Agrees, Backed, Priceworthy, Show, tables
  <2>. QED
    BY <2>1, <2>2
<1>8. \A q \in Procs : ScreenOK(q)'
  <2> TAKE q \in Procs
  <2>1. CASE q = p
    <3>1. screen'[q] = s
      BY <1>1, <2>1
    <3>2. s.fp.prices = j.prices
      BY DEF FingerprintOf, Fingerprint
    <3>3. ~j.overtaken => s.fp = Fingerprint(plan, docs, prices)
      BY <1>5 DEF FingerprintOf, Fingerprint
    <3>. QED
      BY <3>1, <3>2, <3>3, <1>5 DEF ScreenOK, Show, tables, Fingerprint
  <2>2. CASE q # p
    BY <1>1, <2>2 DEF ScreenOK, TariffInv, Show, tables, Fingerprint
  <2>. QED
    BY <2>1, <2>2
<1>9. StaleQuoteHasReason'
  <2>1. Dropping => Dropping'
    BY <1>1 DEF Dropping, At
  <2>. QED
    BY <2>1 DEF TariffInv, StaleQuoteHasReason, Show, tables
<1>10. Backed(plan, judged)'
  BY DEF TariffInv, Backed, Show, tables
<1>. QED
  BY <1>6, <1>7, <1>8, <1>9, <1>10 DEF TariffInv

LEMMA WriteVerdictKeeps ==
  ASSUME TariffInv, NEW p \in Procs, WriteVerdict(p)
  PROVE  TariffInv'
<1> USE ConstantsAssumption
<1> DEFINE j == job[p]
           fp == FingerprintOf(j)
<1>1. /\ j \in Job /\ InHand(p, j) /\ j.op = "review" /\ j.pc = "read" /\ j # None
      /\ j.docs # Unread /\ Complete(j.prices)
      /\ job' = [job EXCEPT ![p] = None]
      /\ job \in [Procs -> Job \cup {None}] /\ screen \in [Procs -> Screen \cup {None}] /\ plan \in Plan
  BY DEF WriteVerdict, HasRead, Ends, Goes, TariffInv, TypeOK
<1>2. /\ j.plan \in Plan /\ j.docs \in Docs \cup {None} /\ j.prices \in Reading
      /\ j.verdict \in Verdicts /\ screen[p] # None /\ screen[p] \in Screen
  BY <1>1 DEF Job, InHand, Equipped
<1>3. j.prices \in Tariff
  BY <1>1, <1>2, CompleteIsTariff
<1>4. fp \in Fingerprints /\ fp # None
  BY <1>2, <1>3, FingerprintTyped DEF FingerprintOf
<1>5. /\ plan' = [plan EXCEPT !.verdict = j.verdict, !.fp = fp]
      /\ judged' = IF j.verdict = "CONFIRMED" THEN Shown(screen[p]) ELSE None
      /\ screen[p].fp = fp
  BY DEF WriteVerdict, SeenIs
<1>6. plan' \in Plan /\ plan'.terms = plan.terms /\ plan'.active = plan.active
      /\ plan'.verdict = j.verdict /\ plan'.fp = fp
  <2>. HIDE DEF fp
  <2>. QED
    BY <1>1, <1>2, <1>4, <1>5 DEF Plan
<1>7. Shown(screen[p]) \in Judged
  BY <1>2 DEF Shown, Screen, Judged
<1>8. TypeOK'
  BY <1>1, <1>5, <1>6, <1>7 DEF WriteVerdict, TariffInv, TypeOK
<1>9. \A q \in Procs : InHand(q, job[q])'
  <2> TAKE q \in Procs
  <2>1. CASE q = p
    BY <1>1, <2>1 DEF InHand
  <2>2. CASE q # p
    <3>1. job'[q] = job[q] /\ screen'[q] = screen[q] /\ InHand(q, job[q]) /\ docs' = docs /\ prices' = prices
      BY <1>1, <2>2 DEF TariffInv, WriteVerdict
    <3>. QED
      BY <3>1, <1>6 DEF InHand, Equipped, UpToDate, StillSo, StillPrices, Agrees, Backed, Priceworthy
  <2>. QED
    BY <2>1, <2>2
<1>10. \A q \in Procs : ScreenOK(q)'
  BY <1>6 DEF ScreenOK, TariffInv, WriteVerdict, Fingerprint
<1>11. StaleQuoteHasReason'
  <2>1. Dropping => Dropping'
    BY <1>1 DEF Dropping, At
  <2>. QED
    BY <2>1, <1>6 DEF TariffInv, StaleQuoteHasReason, WriteVerdict
<1>12. Backed(plan, judged)'
  <2>1. ~screen[p].torn => fp.prices = screen[p].figures
    BY <1>2, <1>5 DEF TariffInv, ScreenOK
  <2>2. Shown(screen[p]).torn = screen[p].torn /\ Shown(screen[p]).figures = screen[p].figures
    BY DEF Shown
  <2>. HIDE DEF fp
  <2>. QED
    BY <1>4, <1>5, <1>6, <1>7, <2>1, <2>2 DEF Backed
<1>. QED
  BY <1>8, <1>9, <1>10, <1>11, <1>12 DEF TariffInv

LEMMA ExpireKeeps ==
  ASSUME TariffInv, Expire
  PROVE  TariffInv'
<1>1. TypeOK'
  BY DEF TariffInv, TypeOK, Expire, tables
<1>2. \A q \in Procs : InHand(q, job[q])'
  BY DEF TariffInv, Expire, tables, InHand, Equipped, UpToDate, StillSo, StillPrices, Agrees, Backed, Priceworthy
<1>3. \A q \in Procs : ScreenOK(q)'
  BY DEF TariffInv, Expire, tables, ScreenOK, Fingerprint
<1>4. StaleQuoteHasReason' /\ Backed(plan, judged)'
  BY DEF TariffInv, Expire, tables, StaleQuoteHasReason, Backed
<1>. QED
  BY <1>1, <1>2, <1>3, <1>4 DEF TariffInv

\* A request that ends or goes on, and a new quote.
LEMMA OneRequestAndQuote ==
  ASSUME TariffInv, NEW p \in Procs, NEW j \in Job \cup {None}, Goes(p, j), InHand(p, j),
         UNCHANGED <<tables, screen, judged, edits>>,
         cache' \in Quote \cup {None}, StaleQuoteHasReason'
  PROVE  TariffInv'
<1>1. job' = [job EXCEPT ![p] = j] /\ job \in [Procs -> Job \cup {None}]
  BY DEF TariffInv, TypeOK, Goes
<1>2. TypeOK'
  BY <1>1 DEF TariffInv, TypeOK, tables
<1>3. \A q \in Procs : InHand(q, job[q])'
  <2> TAKE q \in Procs
  <2>1. job'[q] = IF q = p THEN j ELSE job[q]
    BY <1>1
  <2>2. InHand(q, job'[q])
    BY <2>1 DEF TariffInv
  <2>. QED
    BY <2>2 DEF InHand, Equipped, UpToDate, StillSo, StillPrices, Agrees, Backed, Priceworthy, tables
<1>4. \A q \in Procs : ScreenOK(q)'
  BY DEF TariffInv, ScreenOK, Fingerprint, tables
<1>5. Backed(plan, judged)'
  BY DEF TariffInv, Backed, tables
<1>. QED
  BY <1>2, <1>3, <1>4, <1>5 DEF TariffInv

LEMMA StoreKeeps ==
  ASSUME TariffInv, NEW p \in Procs, Store(p)
  PROVE  TariffInv'
<1> USE ConstantsAssumption
<1> DEFINE i == job[p]
           a == IF i.pc = "store" THEN None ELSE Resolve(i.figures)
           k == [i EXCEPT !.figures = Nothing, !.price = a]
           j == Priced(k)
<1>1. i \in Job /\ InHand(p, i) /\ i.op = "book" /\ i.pc \in {"store", "quote"} /\ i # None
      /\ (i.pc = "quote" => Complete(i.figures))
  BY DEF Store, At, TariffInv, TypeOK
<1>2. i.figures \in Reading /\ i.overtaken \in BOOLEAN
  BY <1>1 DEF Job
<1>3. a \in Amount
  BY <1>1, <1>2, CompleteIsTariff, ResolveTyped DEF Amount
<1>4. ~i.overtaken => a = IF plan.active THEN Resolve(prices) ELSE None
  BY <1>1, <1>2, CompleteIsSo DEF InHand, UpToDate, TariffInv
<1>5. Nothing \in Reading
  BY DEF Nothing, Reading
<1>6. k \in Job
  BY <1>1, <1>3, <1>5 DEF Job
<1>7. /\ k.op = "book" /\ k.pc = i.pc /\ k.figures = Nothing /\ k.price = a /\ k.overtaken = i.overtaken
      /\ k.applies = i.applies /\ k.judged = i.judged /\ k.excused = i.excused
  BY <1>1 DEF Job
<1>8. Priceworthy(i)
  BY <1>1 DEF InHand
<1>. HIDE DEF a, k
<1>9. j \in Job \cup {None}
  BY <1>6 DEF Priced, Job, Pcs
<1>10. InHand(p, j)
  <2>1. CASE k.applies /\ k.price # None
    <3>1. j = [k EXCEPT !.pc = "again"]
      BY <2>1 DEF Priced
    <3>2. /\ j.op = "book" /\ j.pc = "again" /\ j.figures = Nothing /\ j.overtaken = k.overtaken
          /\ j.applies = k.applies /\ j.judged = k.judged /\ j.price = k.price
      BY <1>6, <1>7, <3>1 DEF Job
    <3>3. i.pc # "read"
      BY <1>1
    <3>. QED
      BY <2>1, <3>2, <3>3, <1>1, <1>4, <1>7, <1>8, NothingIsSo
         DEF InHand, Equipped, UpToDate, Agrees, Priceworthy
  <2>2. CASE ~(k.applies /\ k.price # None)
    BY <2>2 DEF Priced, InHand
  <2>. QED
    BY <2>1, <2>2
<1>11. Goes(p, j) /\ cache' = [price |-> a, excused |-> i.overtaken]
       /\ UNCHANGED <<tables, screen, judged, edits>>
  BY DEF Store, a, k
<1>12. cache' \in Quote
  BY <1>2, <1>3, <1>11 DEF Quote
<1>13. StaleQuoteHasReason'
  BY <1>4, <1>11 DEF StaleQuoteHasReason, tables
<1>. HIDE DEF j
<1>. QED
  BY <1>9, <1>10, <1>11, <1>12, <1>13, OneRequestAndQuote

LEMMA DelKeeps ==
  ASSUME TariffInv, NEW p \in Procs, Del(p)
  PROVE  TariffInv'
<1>1. InHand(p, None) /\ StaleQuoteHasReason'
  BY DEF InHand, StaleQuoteHasReason, Del
<1>. QED
  BY <1>1, OneRequestAndQuote DEF Del, Ends

LEMMA FailsKeeps ==
  ASSUME TariffInv, NEW p \in Procs, Fails(p)
  PROVE  TariffInv'
<1>1. InHand(p, None) /\ Goes(p, None) /\ job \in [Procs -> Job \cup {None}] /\ cache \in Quote \cup {None}
  BY DEF InHand, Fails, Ends, TariffInv, TypeOK
<1>2. cache' \in Quote \cup {None}
  BY <1>1 DEF Fails, Quote
<1>3. StaleQuoteHasReason'
  <2>1. CASE job[p].pc \in {"keys", "del"} /\ cache # None
    BY <1>1, <2>1 DEF Fails, StaleQuoteHasReason, Quote
  <2>2. CASE cache = None
    BY <2>2 DEF Fails, StaleQuoteHasReason
  <2>3. CASE job[p].pc \notin {"keys", "del"}
    <3>1. Dropping => Dropping'
      BY <1>1, <2>3 DEF Goes, Dropping, At
    <3>. QED
      BY <2>3, <3>1 DEF Fails, StaleQuoteHasReason, TariffInv, tables
  <2>. QED
    BY <2>1, <2>2, <2>3
<1>. QED
  BY <1>1, <1>2, <1>3, OneRequestAndQuote DEF Fails

-----------------------------------------------------------------------------
(* Edits of the tables *)

\* A request that has edited and is about to drop the quotes.
Edits(j) == j \in Job /\ j.op \in {"prices", "plan"} /\ j.pc = "keys" /\ j.edit = None

LEMMA NotedIs ==
  ASSUME TypeOK, NEW q \in Procs
  PROVE  /\ Noted[q] \in Job \cup {None}
         /\ job[q] = None => Noted[q] = None
         /\ job[q] # None /\ job[q].op \notin {"screen", "book"} => Noted[q] = job[q]
         /\ job[q] # None /\ job[q].op \in {"screen", "book"} =>
              Noted[q] = [job[q] EXCEPT !.overtaken = TRUE] /\ job[q] \in Job
<1>1. job[q] \in Job \cup {None}
  BY DEF TypeOK
<1>2. Noted[q] = IF job[q] # None /\ job[q].op \in {"screen", "book"} THEN [job[q] EXCEPT !.overtaken = TRUE] ELSE job[q]
  BY DEF Noted
<1>3. ASSUME NEW j \in Job PROVE [j EXCEPT !.overtaken = TRUE] \in Job
  BY DEF Job
<1> QED BY <1>1, <1>2, <1>3

\* Whoever edits, a reader is overtaken and a screen is changed if anything in a
\* fingerprint changes.
LEMMA OneEdit ==
  ASSUME TariffInv, Edited, UNCHANGED <<cache, judged>>,
         plan' \in Plan, plan'.verdict = plan.verdict, plan'.fp = plan.fp,
         docs' \in Docs \cup {None}, prices' \in Tariff,
         job' \in [Procs -> Job \cup {None}],
         \A q \in Procs : job'[q] = Noted[q] \/ Edits(job'[q]),
         StaleQuoteHasReason'
  PROVE  TariffInv'
<1> USE ConstantsAssumption
<1> DEFINE Same == plan'.terms = plan.terms /\ docs' = docs /\ prices' = prices
<1>1. TypeOK /\ screen \in [Procs -> Screen \cup {None}] /\ edits \in 0 .. MaxEdits
  BY DEF TariffInv, TypeOK
<1>2. \A q \in Procs : /\ screen[q] = None => screen'[q] = None
                       /\ screen[q] # None => screen[q] \in Screen /\ screen'[q] \in Screen
                       /\ screen[q] # None /\ Same => screen'[q] = screen[q]
                       /\ screen[q] # None /\ ~Same => screen'[q] = [screen[q] EXCEPT !.changed = TRUE]
  <2> SUFFICES ASSUME NEW q \in Procs
               PROVE  /\ screen[q] = None => screen'[q] = None
                      /\ screen[q] # None => screen[q] \in Screen /\ screen'[q] \in Screen
                      /\ screen[q] # None /\ Same => screen'[q] = screen[q]
                      /\ screen[q] # None /\ ~Same => screen'[q] = [screen[q] EXCEPT !.changed = TRUE]
    OBVIOUS
  <2>1. ASSUME NEW s \in Screen PROVE [s EXCEPT !.changed = TRUE] \in Screen
    BY DEF Screen
  <2>2. screen[q] \in Screen \cup {None}
    BY <1>1
  <2>3. CASE Same
    BY <2>2, <2>3 DEF Edited
  <2>4. CASE ~Same
    <3>1. screen'[q] = IF screen[q] = None THEN None ELSE [screen[q] EXCEPT !.changed = TRUE]
      BY <2>4 DEF Edited
    <3> QED BY <2>1, <2>2, <2>4, <3>1
  <2> QED BY <2>3, <2>4
<1>3. screen' \in [Procs -> Screen \cup {None}]
  BY <1>1, <1>2 DEF Edited
<1>4. TypeOK'
  BY <1>1, <1>3 DEF TypeOK, Edited
<1>5. \A q \in Procs : InHand(q, job[q])'
  <2> SUFFICES ASSUME NEW q \in Procs
               PROVE  InHand(q, job[q])'
    OBVIOUS
  <2>1. CASE Edits(job'[q])
    BY <2>1 DEF Edits, InHand, Equipped, UpToDate, Agrees, Priceworthy
  <2>2. CASE job'[q] = Noted[q] /\ job[q] = None
    BY <1>1, <2>2, NotedIs DEF InHand
  <2>3. CASE job'[q] = Noted[q] /\ job[q] # None /\ job[q].op \in {"screen", "book"}
    <3>1. job'[q] = [job[q] EXCEPT !.overtaken = TRUE] /\ job[q] \in Job /\ InHand(q, job[q])
      BY <1>1, <2>3, NotedIs DEF TariffInv
    <3>. QED
      BY <2>3, <3>1 DEF InHand, Equipped, UpToDate, Agrees, Priceworthy, Backed, Job
  <2>4. CASE job'[q] = Noted[q] /\ job[q] # None /\ job[q].op \notin {"screen", "book"}
    <3>1. job'[q] = job[q] /\ job[q] \in Job /\ InHand(q, job[q])
      BY <1>1, <2>4, NotedIs DEF TariffInv, TypeOK
    <3>2. Equipped(q, job[q])'
      BY <2>4, <3>1, <1>2 DEF InHand, Equipped
    <3>3. Agrees(q, job[q])'
      <4>1. ASSUME job[q].op = "review", job[q].pc = "read", ~screen'[q].changed
            PROVE  Same /\ ~screen[q].changed
        <5>1. screen[q] # None /\ screen[q] \in Screen
          BY <1>2, <2>4, <3>1, <4>1 DEF InHand, Equipped
        <5>. QED
          BY <5>1, <4>1, <1>2 DEF Screen
      <4>. QED
        BY <2>4, <3>1, <4>1 DEF InHand, Agrees, StillSo, StillPrices
    <3>. QED
      BY <2>4, <3>1, <3>2, <3>3 DEF InHand, UpToDate, Priceworthy
  <2>. QED
    BY <2>1, <2>2, <2>3, <2>4
<1>6. \A q \in Procs : ScreenOK(q)'
  <2> TAKE q \in Procs
  <2>1. CASE screen[q] = None
    BY <1>2, <2>1 DEF ScreenOK
  <2>2. CASE screen[q] # None /\ Same
    BY <1>2, <2>2 DEF ScreenOK, TariffInv, Fingerprint
  <2>3. CASE screen[q] # None /\ ~Same
    <3>1. screen'[q].changed /\ screen'[q].torn = screen[q].torn /\ screen'[q].fp = screen[q].fp
          /\ screen'[q].figures = screen[q].figures
      BY <1>2, <2>3 DEF Screen
    <3>. QED
      BY <2>3, <3>1 DEF ScreenOK, TariffInv
  <2>. QED
    BY <2>1, <2>2, <2>3
<1>7. Backed(plan, judged)'
  BY DEF TariffInv, Backed
<1>. QED
  BY <1>4, <1>5, <1>6, <1>7 DEF TariffInv

LEMMA EditsTyped ==
  ASSUME NEW op \in {"prices", "plan"}
  PROVE  Edits(Request(op, "keys"))
BY RequestTyped DEF Edits, Request, Ops, Pcs

LEMMA WritePricesKeeps ==
  ASSUME TariffInv, NEW p \in Procs, NEW e \in PriceEdits, WritePrices(p, e)
  PROVE  TariffInv'
<1> DEFINE k == Request("prices", "keys")
<1>1. e.source \in Sources /\ e.amount \in Amount
  BY ConstantsAssumption DEF PriceEdit
<1>2. TypeOK
  BY DEF TariffInv
<1>3. plan' \in Plan /\ plan' = plan /\ docs' \in Docs \cup {None} /\ prices' \in Tariff
  BY <1>1, <1>2 DEF WritePrices, TypeOK, Tariff
<1>4. Edits(k) /\ k.op = "prices" /\ k.pc = "keys"
  BY EditsTyped DEF Edits, Request
<1>5. job' = [Noted EXCEPT ![p] = k] /\ Noted \in [Procs -> Job \cup {None}]
  BY <1>2, NotedIs DEF WritePrices, Noted
<1>. HIDE DEF k
<1>6. job' \in [Procs -> Job \cup {None}] /\ job'[p] = k /\ \A q \in Procs : job'[q] = Noted[q] \/ Edits(job'[q])
  BY <1>4, <1>5 DEF Edits
<1>7. Dropping'
  BY <1>4, <1>6, ConstantsAssumption DEF Dropping, At, Edits
<1>8. StaleQuoteHasReason'
  BY <1>7 DEF StaleQuoteHasReason
<1>. QED
  BY <1>3, <1>6, <1>8, OneEdit DEF WritePrices

LEMMA WritePlanKeeps ==
  ASSUME TariffInv, NEW p \in Procs, WritePlan(p)
  PROVE  TariffInv'
<1> DEFINE k == Request("plan", "keys")
           e == job[p].edit
<1>1. TypeOK /\ plan \in Plan
  BY DEF TariffInv, TypeOK
<1>2. e \in PlanEdit /\ e.terms \in Terms
  BY DEF TariffInv, WritePlan, At, InHand, Equipped
<1>3. plan' \in Plan /\ plan'.verdict = plan.verdict /\ plan'.fp = plan.fp
  <2>1. plan' = [plan EXCEPT !.terms = e.terms, !.active = IF e.active = None THEN @ ELSE e.active]
    BY DEF WritePlan
  <2>2. e.active \in BOOLEAN \cup {None}
    BY <1>2 DEF PlanEdit
  <2>. QED
    BY <1>1, <1>2, <2>1, <2>2 DEF Plan
<1>4. docs' \in Docs \cup {None} /\ prices' \in Tariff
  BY <1>1 DEF WritePlan, TypeOK
<1>5. Edits(k) /\ k.op = "plan" /\ k.pc = "keys"
  BY EditsTyped DEF Edits, Request
<1>6. job' = [Noted EXCEPT ![p] = k] /\ Noted \in [Procs -> Job \cup {None}]
  BY <1>1, NotedIs DEF WritePlan, Noted
<1>. HIDE DEF k
<1>7. job' \in [Procs -> Job \cup {None}] /\ job'[p] = k /\ \A q \in Procs : job'[q] = Noted[q] \/ Edits(job'[q])
  BY <1>5, <1>6 DEF Edits
<1>8. Dropping'
  BY <1>5, <1>7, ConstantsAssumption DEF Dropping, At, Edits
<1>9. StaleQuoteHasReason'
  BY <1>8 DEF StaleQuoteHasReason
<1>. QED
  BY <1>3, <1>4, <1>7, <1>9, OneEdit DEF WritePlan

LEMMA SetDocsKeeps ==
  ASSUME TariffInv, NEW d \in Docs \cup {None}, SetDocs(d)
  PROVE  TariffInv'
<1>1. TypeOK
  BY DEF TariffInv
<1>2. plan' = plan /\ plan' \in Plan /\ docs' \in Docs \cup {None} /\ prices' = prices /\ prices' \in Tariff
  BY <1>1 DEF SetDocs, TypeOK
<1>3. job' = Noted /\ Noted \in [Procs -> Job \cup {None}]
  BY <1>1, NotedIs DEF SetDocs, Noted
<1>4. Dropping => Dropping'
  <2> SUFFICES ASSUME NEW p \in Procs, DropsIn(job[p])
               PROVE  DropsIn(job'[p])
    BY DEF Dropping, DropsIn, At
  <2>. QED
    BY <1>1, <1>3, NotedIs DEF DropsIn
<1>5. StaleQuoteHasReason'
  BY <1>2, <1>4 DEF StaleQuoteHasReason, SetDocs, TariffInv
<1>. QED
  BY <1>2, <1>3, <1>5, OneEdit DEF SetDocs

-----------------------------------------------------------------------------
(* The theorems *)

LEMMA InitTariffInv == Init => TariffInv
<1> SUFFICES ASSUME Init PROVE TariffInv
  OBVIOUS
<1>1. TypeOK
  BY ConstantsAssumption DEF Init, TypeOK, Plan, Tariff, Amount
<1>2. \A p \in Procs : InHand(p, job[p]) /\ ScreenOK(p)
  BY DEF Init, InHand, ScreenOK
<1>3. StaleQuoteHasReason /\ Backed(plan, judged)
  BY ConstantsAssumption DEF Init, StaleQuoteHasReason, Backed, Verdicts
<1>. QED
  BY <1>1, <1>2, <1>3 DEF TariffInv

LEMMA NextTariffInv == TariffInv /\ [Next]_vars => TariffInv'
<1> SUFFICES ASSUME TariffInv, [Next]_vars PROVE TariffInv'
  OBVIOUS
<1>1. CASE UNCHANGED vars
  <2>1. TypeOK' /\ StaleQuoteHasReason' /\ Backed(plan, judged)'
    BY <1>1 DEF vars, tables, TariffInv, TypeOK, StaleQuoteHasReason, Dropping, At, Backed
  <2>2. \A p \in Procs : InHand(p, job[p])' /\ ScreenOK(p)'
    BY <1>1 DEF vars, tables, TariffInv, InHand, Equipped, UpToDate, StillSo, StillPrices, Agrees, Backed,
                Priceworthy, ScreenOK
  <2>. QED
    BY <2>1, <2>2 DEF TariffInv
<1>2. ASSUME NEW p \in Procs,
             \/ Look(p) \/ Ask(p) \/ ReadDocs(p) \/ ReadPrices(p) \/ ReadFigures(p) \/ Show(p)
             \/ \E v \in Verdicts : Decide(p, v)
             \/ ReadReviewed(p) \/ WriteVerdict(p)
      PROVE  TariffInv'
  BY <1>2, LookKeeps, AskKeeps, ReadDocsKeeps, ReadPricesKeeps, ReadFiguresKeeps, ShowKeeps, DecideKeeps,
     ReadReviewedKeeps, WriteVerdictKeeps
<1>3. ASSUME NEW p \in Procs,
             \/ Hit(p) \/ Miss(p) \/ ReadQuoted(p) \/ Store(p) \/ Book(p)
             \/ \E e \in PriceEdits : WritePrices(p, e)
             \/ \E e \in PlanEdits : ReadBefore(p, e)
             \/ WritePlan(p) \/ Keys(p) \/ Del(p) \/ Fails(p)
      PROVE  TariffInv'
  BY <1>3, HitKeeps, MissKeeps, ReadQuotedKeeps, StoreKeeps, BookKeeps, WritePricesKeeps, ReadBeforeKeeps,
     WritePlanKeeps, KeysKeeps, DelKeeps, FailsKeeps
<1>4. ASSUME NEW d \in (Docs \cup {None}) \ {docs}, SetDocs(d)
      PROVE  TariffInv'
  BY <1>4, SetDocsKeeps
<1>5. CASE Expire
  BY <1>5, ExpireKeeps
<1>. QED
  BY <1>1, <1>2, <1>3, <1>4, <1>5 DEF Next

\* What a request holds at each statement is well typed, whatever the hotel, the
\* partner and the operators do meanwhile.
THEOREM TypeCorrect == Spec => []TypeOK
<1>1. TariffInv => TypeOK
  BY DEF TariffInv
<1>. QED
  BY <1>1, InitTariffInv, NextTariffInv, PTL DEF Spec

\* The refusal of a review, ``the prices have changed'', is honest: whoever gets it
\* looked at a screen behind which something changed (applyOperatorReview).
THEOREM RefusalsAreHonest == Spec => []RefusalIsHonest
<1>1. TariffInv => RefusalIsHonest
  <2> SUFFICES ASSUME TariffInv, NEW p \in Procs, HaveChanged(p), ~screen[p].changed
               PROVE  FALSE
    BY DEF RefusalIsHonest
  <2>1. job[p] \in Job /\ InHand(p, job[p]) /\ job[p].op = "review" /\ job[p].pc = "read" /\ job[p] # None
        /\ job[p].docs # Unread /\ Complete(job[p].prices)
    BY DEF HaveChanged, HasRead, TariffInv, TypeOK
  <2>2. screen[p] # None /\ StillSo(job[p])
    BY <2>1 DEF InHand, Equipped, Agrees
  <2>3. job[p].prices = prices
    BY <2>1, <2>2, CompleteIsSo DEF StillSo, TariffInv, Job
  <2>4. FingerprintOf(job[p]) = Fingerprint(plan, docs, prices)
    BY <2>1, <2>2, <2>3 DEF StillSo, FingerprintOf, Fingerprint
  <2>5. screen[p].fp = Fingerprint(plan, docs, prices)
    BY <2>2 DEF TariffInv, ScreenOK
  <2>. QED
    BY <2>4, <2>5 DEF HaveChanged, SeenIs
<1>. QED
  BY <1>1, InitTariffInv, NextTariffInv, PTL DEF Spec

\* A quote that outlives a change of the tariff does so for one of three reasons:
\* its drop is due, its drop was lost, or it was computed across the change
\* (priceByPlan, dropPriceCache).
THEOREM StaleQuotesHaveReasons == Spec => []StaleQuoteHasReason
<1>1. TariffInv => StaleQuoteHasReason
  BY DEF TariffInv
<1>. QED
  BY <1>1, InitTariffInv, NextTariffInv, PTL DEF Spec

\* From the screen of the operator to the bill of the partner the figures are the
\* same ones, if nothing changed while they were read and the quote was not stale.
THEOREM ChargesAreShown == Spec => []ChargedAsShown
<1>1. TariffInv => ChargedAsShown
  <2> SUFFICES ASSUME TariffInv, NEW p \in Procs, At(p, "book", "again"),
                      ~job[p].overtaken, ~job[p].excused, ~job[p].judged.torn
               PROVE  job[p].price = Resolve(job[p].judged.figures)
    BY DEF ChargedAsShown
  <2>1. InHand(p, job[p]) /\ job[p] # None /\ job[p].op = "book" /\ job[p].pc = "again"
    BY DEF TariffInv, At
  <2>. QED
    BY <2>1 DEF InHand, Priceworthy
<1>. QED
  BY <1>1, InitTariffInv, NextTariffInv, PTL DEF Spec

-----------------------------------------------------------------------------
(* Tariffs made from the contract *)

\* The slices of all documents there may ever be, and the tariffs for them.
AllSlices == UNION {SlicesOf(doc) : doc \in Pool}
AllTariffs == [contract : ContractNumbers, slice : AllSlices, code : Nat, active : BOOLEAN]
Page == [tariffs : SUBSET AllTariffs, used : SUBSET Nat, todo : Seq(AllSlices), next : Nat, crossed : BOOLEAN]

ContractTypeOK ==
  /\ sheets \in SUBSET Pool
  /\ tariffs \in SUBSET AllTariffs
  /\ pages \in [Tabs -> Page \cup {Nil}]

Distinct(list) == \A i, j \in 1 .. Len(list) : list[i] = list[j] => i = j

\* A page in the middle of a press that nobody crossed: it knows all tariffs there are
\* and their codes, and what it has still to make is not there.
KnowsAll(page) ==
  /\ page.tariffs = tariffs
  /\ \A p \in tariffs : p.code \in page.used
  /\ \A i \in 1 .. Len(page.todo) : PlanForSlice(tariffs, page.todo[i]) = {}

PageInv(page) ==
  /\ IsFiniteSet(page.used)
  /\ Distinct(page.todo)
  /\ page.todo # <<>> /\ ~page.crossed => KnowsAll(page)

ContractInv ==
  /\ ContractTypeOK
  /\ IsFiniteSet(sheets)
  /\ IsFiniteSet(tariffs)
  /\ \A t \in Tabs : pages[t] # Nil => /\ IsFiniteSet(pages[t].tariffs)
                                       /\ PageInv(pages[t])

\* The image of a finite set is finite.
LEMMA ImageIsFinite ==
  ASSUME NEW S, IsFiniteSet(S), NEW f
  PROVE  IsFiniteSet({f[x] : x \in S})
<1> DEFINE T == {f[x] : x \in S}
           g == [x \in S |-> f[x]]
<1>1. g \in [S -> T] /\ \A y \in T : \E x \in S : g[x] = y
  OBVIOUS
<1>2. g \in Surjection(S, T)
  BY <1>1 DEF Surjection
<1> HIDE DEF g
<1> QED BY <1>2, FS_Surjection

\* A document has a finite number of slices.
LEMMA SlicesAreFew ==
  ASSUME NEW doc \in Pool
  PROVE  IsFiniteSet(SlicesOf(doc))
<1> DEFINE rowAt == [i \in DOMAIN doc.rows |-> doc.rows[i]]
           rowSet == {row \in ToSet(doc.rows) : HasPrice(row)}
           Slice == [row \in rowSet |->
             [account |-> doc.account, customer |-> row.customer, kind |-> row.kind, meal |-> row.meal]]
<1>1. ToSet(doc.rows) = {rowAt[i] : i \in DOMAIN doc.rows}
  BY DEF ToSet
<1>2. IsFiniteSet(ToSet(doc.rows))
  <2> HIDE DEF rowAt
  <2> QED BY <1>1, ImageIsFinite, SheetsAssumption
<1>3. IsFiniteSet(rowSet)
  <2>1. rowSet \in SUBSET ToSet(doc.rows)
    OBVIOUS
  <2> QED BY <2>1, <1>2, FS_Subset
<1>4. SlicesOf(doc) = {Slice[row] : row \in rowSet}
  BY DEF SlicesOf
<1> HIDE DEF Slice, rowSet
<1> QED BY <1>3, <1>4, ImageIsFinite

\* So have all documents that came, and they are slices of the pool.
LEMMA ContractSlicesAreFew ==
  ASSUME sheets \in SUBSET Pool, IsFiniteSet(sheets)
  PROVE  IsFiniteSet(ContractSlices) /\ ContractSlices \in SUBSET AllSlices
<1> DEFINE Slices == [doc \in PlanDocs |-> SlicesOf(doc)]
           parts == {Slices[doc] : doc \in PlanDocs}
<1>1. PlanDocs \in SUBSET sheets /\ PlanDocs \in SUBSET Pool
  BY DEF PlanDocs
<1>2. IsFiniteSet(PlanDocs)
  BY <1>1, FS_Subset
<1>3. IsFiniteSet(parts)
  <2> HIDE DEF Slices
  <2> QED BY <1>2, ImageIsFinite
<1>4. \A T \in parts : IsFiniteSet(T)
  BY <1>1, SlicesAreFew
<1>5. ContractSlices = UNION parts
  BY DEF ContractSlices
<1>6. IsFiniteSet(UNION parts)
  <2> HIDE DEF parts
  <2> QED BY <1>3, <1>4, FS_UNION
<1>7. ContractSlices \in SUBSET AllSlices
  BY <1>1 DEF ContractSlices, AllSlices
<1> QED BY <1>5, <1>6, <1>7

\* SetToSeq lists every element of a finite set once.
LEMMA ListOfSet ==
  ASSUME NEW S, IsFiniteSet(S)
  PROVE  /\ SetToSeq(S) \in Seq(S)
         /\ \A i \in 1 .. Len(SetToSeq(S)) : SetToSeq(S)[i] \in S
         /\ Distinct(SetToSeq(S))
<1> DEFINE n == Cardinality(S)
           list == SetToSeq(S)
<1>1. n \in Nat /\ ExistsBijection(1 .. n, S)
  BY FS_CardinalityType
<1>2. PICK f : f \in [1 .. n -> S] /\ IsInjective(f)
  BY <1>1 DEF ExistsBijection, Bijection, Injection
<1>3. list \in [1 .. n -> S] /\ IsInjective(list)
  BY <1>2 DEF SetToSeq
<1> HIDE DEF n, list
<1>4. list \in Seq(S) /\ Len(list) = n
  BY <1>1, <1>3
<1>5. Distinct(list)
  BY <1>3, <1>4 DEF Distinct, IsInjective
<1>6. \A i \in 1 .. Len(list) : list[i] \in S
  BY <1>3, <1>4
<1> QED BY <1>4, <1>5, <1>6 DEF list

\* A code that was passed on is a number and none of those the page knows: among one
\* more numbers than there are codes in use one is free.
LEMMA FreeCodeIsFree ==
  ASSUME NEW page, page.used \in SUBSET Nat, page.next \in Nat, IsFiniteSet(page.used)
  PROVE  FreeCode(page) \in Nat /\ FreeCode(page) \notin page.used
<1> DEFINE n == page.next
           c == Cardinality(page.used)
           range == n .. n + c
           free == {k \in range : k \notin page.used}
<1>1. c \in Nat
  BY FS_CardinalityType
<1>2. IsFiniteSet(range) /\ Cardinality(range) = c + 1
  <2> HIDE DEF c
  <2> DEFINE top == n + c
  <2>1. n \in Int /\ top \in Int /\ ~(n > top) /\ top - n + 1 = c + 1
    BY <1>1
  <2> HIDE DEF n, top
  <2>2. IsFiniteSet(n .. top) /\ Cardinality(n .. top) = top - n + 1
    BY <2>1, FS_Interval
  <2> QED BY <2>1, <2>2 DEF top
<1>3. free # {}
  <2>1. SUFFICES ASSUME free = {} PROVE FALSE
    OBVIOUS
  <2>2. range \in SUBSET page.used
    BY <2>1
  <2>3. Cardinality(range) <= c
    <3> HIDE DEF range
    <3> QED BY <2>2, FS_Subset
  <2> HIDE DEF range, c
  <2> QED BY <2>3, <1>1, <1>2
<1>4. free \in SUBSET Nat
  BY <1>1
<1>5. First(free) \in free /\ \A q \in free : First(free) <= q
  <2> HIDE DEF free
  <2> QED BY <1>3, <1>4, FirstInSet
<1>6. FreeCode(page) = Earliest(free)
  BY DEF FreeCode
<1> HIDE DEF free
<1>7. Earliest(free) \in free
  BY <1>5 DEF Earliest
<1>8. free \subseteq Nat /\ \A k \in free : k \notin page.used
  BY <1>4 DEF free
<1> QED BY <1>6, <1>7, <1>8

\* The rest of a list without repetitions has none, and its first element is not in it.
LEMMA DistinctTail ==
  ASSUME NEW S, NEW list \in Seq(S), list # <<>>, Distinct(list)
  PROVE  /\ Tail(list) \in Seq(S) /\ Head(list) = list[1] /\ Head(list) \in S
         /\ Distinct(Tail(list))
         /\ \A i \in 1 .. Len(Tail(list)) :
              Tail(list)[i] # Head(list) /\ \E j \in 1 .. Len(list) : Tail(list)[i] = list[j]
<1>1. /\ Tail(list) \in Seq(S) /\ Head(list) \in S /\ Head(list) = list[1]
      /\ Len(Tail(list)) = Len(list) - 1 /\ Len(list) \in Nat /\ Len(list) >= 1
  BY HeadTailProperties, LenProperties, EmptySeq
<1>2. \A i \in 1 .. Len(Tail(list)) : Tail(list)[i] = list[i + 1] /\ i \in Int /\ i + 1 \in 1 .. Len(list) /\ i + 1 # 1
  BY HeadTailProperties, <1>1
<1>3. Distinct(Tail(list))
  BY <1>1, <1>2 DEF Distinct
<1>4. ASSUME NEW i \in 1 .. Len(Tail(list))
      PROVE  Tail(list)[i] # Head(list) /\ \E j \in 1 .. Len(list) : Tail(list)[i] = list[j]
  <2>1. 1 \in 1 .. Len(list)
    BY <1>1
  <2> QED BY <1>1, <1>2, <2>1 DEF Distinct
<1> QED BY <1>1, <1>3, <1>4

\* A page of the type is a record of its parts.
LEMMA PageParts ==
  ASSUME ContractTypeOK, NEW t \in Tabs, pages[t] # Nil
  PROVE  /\ pages[t] \in Page
         /\ pages[t].tariffs \in SUBSET AllTariffs /\ pages[t].used \in SUBSET Nat
         /\ pages[t].todo \in Seq(AllSlices) /\ pages[t].next \in Nat /\ pages[t].crossed \in BOOLEAN
<1>1. pages[t] \in Page
  BY DEF ContractTypeOK
<1> QED BY <1>1 DEF Page

\* A change of tariffs crosses the pages in the middle of a press, and touches nothing
\* else of them: they are as good as they were.
LEMMA CrossedPage ==
  ASSUME ContractInv, NEW q \in Tabs, pages'[q] = Crossed(q)
  PROVE  /\ Crossed(q) \in Page \cup {Nil}
         /\ pages'[q] # Nil => IsFiniteSet(pages[q].tariffs)' /\ PageInv(pages[q])'
<1>1. CASE pages[q] = Nil
  BY <1>1 DEF Crossed
<1>2. CASE pages[q] # Nil
  <2> DEFINE old == pages[q]
             new == pages'[q]
  <2>1. new = [old EXCEPT !.crossed = old.crossed \/ old.todo # <<>>]
    BY <1>2 DEF Crossed
  <2>2. old \in Page
    BY <1>2, PageParts DEF ContractInv
  <2>3. IsFiniteSet(old.tariffs) /\ IsFiniteSet(old.used) /\ Distinct(old.todo)
    BY <1>2 DEF ContractInv, PageInv
  <2> HIDE DEF old, new
  <2>4. /\ new \in Page
        /\ new.tariffs = old.tariffs /\ new.used = old.used /\ new.todo = old.todo
        /\ new.crossed = (old.crossed \/ old.todo # <<>>)
    BY <2>1, <2>2 DEF Page
  <2>5. IsFiniteSet(new.tariffs) /\ IsFiniteSet(new.used) /\ Distinct(new.todo)
    BY <2>3, <2>4
  <2>6. ~(new.todo # <<>> /\ ~new.crossed)
    BY <2>4
  <2> QED BY <2>4, <2>5, <2>6 DEF new, PageInv
<1> QED BY <1>1, <1>2

\* A page nobody touches, while the tariffs stay, is as good as it was.
LEMMA PageStays ==
  ASSUME ContractInv, NEW q \in Tabs, pages'[q] = pages[q], tariffs' = tariffs, pages[q] # Nil
  PROVE  IsFiniteSet(pages[q].tariffs)' /\ PageInv(pages[q])'
<1>1. IsFiniteSet(pages[q].tariffs) /\ PageInv(pages[q])
  BY DEF ContractInv
<1> QED BY <1>1 DEF PageInv, KnowsAll, PlanForSlice

LEMMA PutKeepsPages ==
  ASSUME ContractInv, NEW doc \in Pool, PutContractPrices(doc)
  PROVE  ContractInv'
<1>1. sheets' = sheets \cup {doc} /\ tariffs' = tariffs /\ pages' = pages
  BY DEF PutContractPrices
<1>2. ContractTypeOK' /\ IsFiniteSet(tariffs')
  BY <1>1 DEF ContractInv, ContractTypeOK
<1>3. IsFiniteSet(sheets')
  BY <1>1, FS_AddElement DEF ContractInv
<1>4. \A t \in Tabs : pages'[t] # Nil => IsFiniteSet(pages[t].tariffs)' /\ PageInv(pages[t])'
  BY <1>1, PageStays
<1> QED BY <1>2, <1>3, <1>4 DEF ContractInv

LEMMA LoadKeepsPages ==
  ASSUME ContractInv, NEW t \in Tabs, LoadTariffs(t)
  PROVE  ContractInv'
<1> DEFINE new == [tariffs |-> tariffs, used |-> {}, todo |-> <<>>, next |-> 1, crossed |-> FALSE]
<1>1. sheets' = sheets /\ tariffs' = tariffs /\ pages' = [pages EXCEPT ![t] = new]
  BY DEF LoadTariffs
<1>2. tariffs \in SUBSET AllTariffs /\ IsFiniteSet(tariffs) /\ pages \in [Tabs -> Page \cup {Nil}]
  BY DEF ContractInv, ContractTypeOK
<1>3. new \in Page
  BY <1>2 DEF Page
<1>4. new.tariffs = tariffs /\ new.used = {} /\ new.todo = <<>>
  OBVIOUS
<1> HIDE DEF new
<1>5. pages'[t] = new /\ \A q \in Tabs : q # t => pages'[q] = pages[q]
  BY <1>1, <1>2
<1>6. ContractTypeOK'
  BY <1>1, <1>2, <1>3 DEF ContractInv, ContractTypeOK
<1>7. IsFiniteSet(pages[t].tariffs)' /\ PageInv(pages[t])'
  <2>1. Distinct(new.todo)
    BY <1>4 DEF Distinct
  <2> QED BY <1>2, <1>4, <1>5, <2>1, FS_EmptySet DEF PageInv
<1>8. \A q \in Tabs : pages'[q] # Nil => IsFiniteSet(pages[q].tariffs)' /\ PageInv(pages[q])'
  BY <1>1, <1>5, <1>7, PageStays
<1> QED BY <1>1, <1>6, <1>8 DEF ContractInv

LEMMA PressKeepsPages ==
  ASSUME ContractInv, NEW t \in Tabs, CreateFromContract(t)
  PROVE  ContractInv'
<1> DEFINE page == pages[t]
           missing == {s \in ContractSlices : PlanForSlice(page.tariffs, s) = {}}
           codes == {p.code : p \in page.tariffs}
           list == SetToSeq(missing)
           new == [tariffs |-> page.tariffs, used |-> codes, next |-> 1,
                   todo |-> list, crossed |-> page.tariffs # tariffs]
<1>1. sheets' = sheets /\ tariffs' = tariffs /\ pages' = [pages EXCEPT ![t] = new] /\ page # Nil
  BY DEF CreateFromContract
<1>2. /\ page.tariffs \in SUBSET AllTariffs /\ IsFiniteSet(page.tariffs)
      /\ pages \in [Tabs -> Page \cup {Nil}]
      /\ sheets \in SUBSET Pool /\ IsFiniteSet(sheets)
  BY <1>1, PageParts DEF ContractInv, ContractTypeOK
<1>3. IsFiniteSet(missing) /\ missing \in SUBSET AllSlices
  <2>1. IsFiniteSet(ContractSlices) /\ ContractSlices \in SUBSET AllSlices
    BY <1>2, ContractSlicesAreFew
  <2>2. missing \in SUBSET ContractSlices
    OBVIOUS
  <2> QED BY <2>1, <2>2, FS_Subset
<1>4. /\ list \in Seq(missing) /\ Distinct(list)
      /\ \A i \in 1 .. Len(list) : list[i] \in ContractSlices /\ PlanForSlice(page.tariffs, list[i]) = {}
  <2>1. list \in Seq(missing) /\ Distinct(list) /\ \A i \in 1 .. Len(list) : list[i] \in missing
    <3> HIDE DEF missing
    <3> QED BY <1>3, ListOfSet
  <2> QED BY <2>1
<1>5. list \in Seq(AllSlices)
  <2> HIDE DEF missing, list
  <2> QED BY <1>3, <1>4, SeqMonotonic
<1>6. codes \in SUBSET Nat /\ IsFiniteSet(codes)
  <2> DEFINE Code == [p \in page.tariffs |-> p.code]
  <2>1. codes = {Code[p] : p \in page.tariffs}
    OBVIOUS
  <2>2. IsFiniteSet(codes)
    <3> HIDE DEF Code, codes, page
    <3> QED BY <1>2, <2>1, ImageIsFinite
  <2> QED BY <1>2, <2>2 DEF AllTariffs
<1> HIDE DEF list, missing
<1>7. new \in Page
  BY <1>2, <1>5, <1>6 DEF Page
<1>8. /\ new.tariffs = page.tariffs /\ new.used = codes /\ new.todo = list
      /\ new.crossed = (page.tariffs # tariffs)
  OBVIOUS
<1> HIDE DEF new
<1>9. pages'[t] = new /\ \A q \in Tabs : q # t => pages'[q] = pages[q]
  BY <1>1, <1>2
<1>10. ContractTypeOK'
  BY <1>1, <1>2, <1>7 DEF ContractInv, ContractTypeOK
<1>11. IsFiniteSet(pages[t].tariffs)' /\ PageInv(pages[t])'
  <2>1. IsFiniteSet(new.tariffs) /\ IsFiniteSet(new.used) /\ Distinct(new.todo)
    BY <1>2, <1>4, <1>6, <1>8
  <2>2. ASSUME ~new.crossed PROVE KnowsAll(pages[t])'
    <3>1. tariffs' = page.tariffs
      BY <1>1, <1>8, <2>2
    <3>2. \A i \in 1 .. Len(list) : PlanForSlice(tariffs', list[i]) = {}
      BY <1>4, <3>1
    <3>3. \A p \in tariffs' : p.code \in codes
      BY <3>1
    <3> QED BY <3>1, <3>2, <3>3, <1>8, <1>9 DEF KnowsAll, PlanForSlice
  <2> QED BY <2>1, <2>2, <1>9 DEF PageInv
<1>12. \A q \in Tabs : pages'[q] # Nil => IsFiniteSet(pages[q].tariffs)' /\ PageInv(pages[q])'
  BY <1>1, <1>9, <1>11, PageStays
<1> QED BY <1>1, <1>10, <1>12 DEF ContractInv

LEMMA CreateKeepsPages ==
  ASSUME ContractInv, NEW t \in Tabs, CreateNext(t)
  PROVE  ContractInv'
<1> DEFINE page == pages[t]
           code == FreeCode(page)
           slice == Head(page.todo)
           tariff == [contract |-> Contract, slice |-> slice, code |-> code, active |-> TRUE]
           new == [tariffs |-> tariffs', used |-> page.used \cup {code}, todo |-> Tail(page.todo),
                   next |-> code + 1, crossed |-> page.crossed]
<1>1. /\ page # Nil /\ page.todo # <<>>
      /\ sheets' = sheets /\ tariffs' = tariffs \cup {tariff}
      /\ pages' = [q \in Tabs |-> IF q # t THEN Crossed(q) ELSE new]
  BY DEF CreateNext
<1>2. /\ page.tariffs \in SUBSET AllTariffs /\ page.used \in SUBSET Nat /\ page.todo \in Seq(AllSlices)
      /\ page.next \in Nat /\ page.crossed \in BOOLEAN
      /\ tariffs \in SUBSET AllTariffs /\ IsFiniteSet(tariffs) /\ sheets \in SUBSET Pool /\ IsFiniteSet(sheets)
  BY <1>1, PageParts DEF ContractInv, ContractTypeOK
<1>3. PageInv(page) /\ IsFiniteSet(page.used) /\ Distinct(page.todo)
  BY <1>1 DEF ContractInv, PageInv
<1>4. code \in Nat /\ code \notin page.used
  <2> HIDE DEF page
  <2> QED BY <1>2, <1>3, FreeCodeIsFree
<1>5. /\ Tail(page.todo) \in Seq(AllSlices) /\ slice \in AllSlices /\ Distinct(Tail(page.todo))
      /\ \A i \in 1 .. Len(Tail(page.todo)) :
           Tail(page.todo)[i] # slice /\ \E j \in 1 .. Len(page.todo) : Tail(page.todo)[i] = page.todo[j]
  <2> HIDE DEF page
  <2> QED BY <1>1, <1>2, <1>3, DistinctTail
<1> HIDE DEF page, code, slice
<1>6. tariff \in AllTariffs
  BY <1>4, <1>5, SheetsAssumption DEF AllTariffs
<1>7. tariffs' \in SUBSET AllTariffs /\ IsFiniteSet(tariffs')
  <2> HIDE DEF tariff
  <2> QED BY <1>1, <1>2, <1>6, FS_AddElement
<1>8. new \in Page
  BY <1>2, <1>4, <1>5, <1>7 DEF Page
<1>9. /\ new.tariffs = tariffs' /\ new.used = page.used \cup {code} /\ new.todo = Tail(page.todo)
      /\ new.crossed = page.crossed
  OBVIOUS
<1>10. tariff.slice = slice /\ tariff.code = code
  OBVIOUS
<1> HIDE DEF new, tariff
<1>11. pages'[t] = new /\ \A q \in Tabs : q # t => pages'[q] = Crossed(q)
  BY <1>1
<1>12. \A q \in Tabs : q # t =>
         /\ pages'[q] \in Page \cup {Nil}
         /\ pages'[q] # Nil => IsFiniteSet(pages[q].tariffs)' /\ PageInv(pages[q])'
  BY <1>11, CrossedPage
<1>13. ContractTypeOK'
  BY <1>1, <1>2, <1>7, <1>8, <1>11, <1>12 DEF ContractTypeOK
<1>14. PageInv(pages[t])'
  <2>1. IsFiniteSet(new.used) /\ Distinct(new.todo)
    BY <1>3, <1>5, <1>9, FS_AddElement
  <2>2. ASSUME ~new.crossed PROVE KnowsAll(pages[t])'
    <3>1. KnowsAll(page)
      BY <1>1, <1>3, <1>9, <2>2 DEF PageInv
    <3>2. \A p \in tariffs' : p.code \in new.used
      BY <1>1, <1>9, <1>10, <3>1 DEF KnowsAll
    <3>3. ASSUME NEW i \in 1 .. Len(Tail(page.todo)) PROVE PlanForSlice(tariffs', Tail(page.todo)[i]) = {}
      BY <1>1, <1>5, <1>10, <3>1 DEF KnowsAll, PlanForSlice
    <3>4. pages'[t].todo = Tail(page.todo) /\ pages'[t].tariffs = tariffs' /\ pages'[t].used = new.used
      BY <1>9, <1>11
    <3>5. ASSUME NEW i \in 1 .. Len(Tail(page.todo)) PROVE PlanForSlice(tariffs', pages'[t].todo[i]) = {}
      BY <3>3, <3>4
    <3>6. \A i \in 1 .. Len(pages'[t].todo) : PlanForSlice(tariffs, pages[t].todo[i])' = {}
      BY ONLY <3>4, <3>5 DEF PlanForSlice
    <3> QED BY <3>2, <3>4, <3>6 DEF KnowsAll
  <2> QED BY <1>11, <2>1, <2>2 DEF PageInv
<1>15. IsFiniteSet(pages[t].tariffs)'
  BY <1>7, <1>9, <1>11
<1> QED BY <1>1, <1>2, <1>7, <1>12, <1>13, <1>14, <1>15 DEF ContractInv

LEMMA StopKeepsPages ==
  ASSUME ContractInv, NEW t \in Tabs, Stops(t)
  PROVE  ContractInv'
<1> DEFINE page == pages[t]
           new == [page EXCEPT !.todo = <<>>]
<1>1. page # Nil /\ sheets' = sheets /\ tariffs' = tariffs
  BY DEF Stops
<1>2. page \in Page /\ pages \in [Tabs -> Page \cup {Nil}]
  BY <1>1, PageParts DEF ContractInv, ContractTypeOK
<1>3. pages' = [pages EXCEPT ![t] = new]
  BY <1>2 DEF Stops
<1>4. IsFiniteSet(page.tariffs) /\ IsFiniteSet(page.used)
  BY <1>1 DEF ContractInv, PageInv
<1> HIDE DEF page
<1>5. new \in Page /\ new.tariffs = page.tariffs /\ new.used = page.used /\ new.todo = <<>>
  <2>1. <<>> \in Seq(AllSlices)
    BY EmptySeq
  <2> QED BY <1>2, <2>1 DEF Page
<1> HIDE DEF new
<1>6. pages'[t] = new /\ \A q \in Tabs : q # t => pages'[q] = pages[q]
  BY <1>2, <1>3
<1>7. ContractTypeOK'
  BY <1>1, <1>2, <1>3, <1>5 DEF ContractInv, ContractTypeOK
<1>8. IsFiniteSet(pages[t].tariffs)' /\ PageInv(pages[t])'
  <2>1. Distinct(new.todo)
    BY <1>5 DEF Distinct
  <2> QED BY <1>4, <1>5, <1>6, <2>1 DEF PageInv
<1>9. \A q \in Tabs : pages'[q] # Nil => IsFiniteSet(pages[q].tariffs)' /\ PageInv(pages[q])'
  BY <1>1, <1>6, <1>8, PageStays
<1> QED BY <1>1, <1>7, <1>9 DEF ContractInv

\* What is done by hand crosses every page in the middle of a press.
LEMMA ByHandKeepsPages ==
  ASSUME ContractInv, ByHand, tariffs' \in SUBSET AllTariffs, IsFiniteSet(tariffs')
  PROVE  ContractInv'
<1>1. sheets' = sheets /\ pages' = [q \in Tabs |-> Crossed(q)]
  BY DEF ByHand
<1>2. \A q \in Tabs :
        /\ pages'[q] \in Page \cup {Nil}
        /\ pages'[q] # Nil => IsFiniteSet(pages[q].tariffs)' /\ PageInv(pages[q])'
  BY <1>1, CrossedPage
<1>3. ContractTypeOK'
  BY <1>1, <1>2 DEF ContractInv, ContractTypeOK
<1> QED BY <1>1, <1>2, <1>3 DEF ContractInv

LEMMA ChangeKeepsPages ==
  ASSUME ContractInv, AddsTariff \/ \E p \in tariffs : ChangesTariff(p) \/ DeletesTariff(p)
  PROVE  ContractInv'
<1>1. tariffs \in SUBSET AllTariffs /\ IsFiniteSet(tariffs)
  BY DEF ContractInv, ContractTypeOK
<1>2. IsFiniteSet(ContractSlices) /\ ContractSlices \in SUBSET AllSlices /\ Cardinality(tariffs) \in Nat
  BY <1>1, ContractSlicesAreFew, FS_CardinalityType DEF ContractInv, ContractTypeOK
<1>3. ASSUME NEW p \in tariffs, DeletesTariff(p) PROVE ContractInv'
  <2>1. ByHand /\ tariffs' = tariffs \ {p}
    BY <1>3 DEF DeletesTariff
  <2>2. IsFiniteSet(tariffs')
    BY <1>1, <2>1, FS_RemoveElement
  <2> QED BY <1>1, <2>1, <2>2, ByHandKeepsPages
<1>4. ASSUME NEW kept \in SUBSET tariffs, NEW new \in AllTariffs, ByHand, tariffs' = kept \cup {new}
      PROVE  ContractInv'
  <2>1. IsFiniteSet(kept)
    BY <1>1, FS_Subset
  <2>2. IsFiniteSet(tariffs')
    BY <1>4, <2>1, FS_AddElement
  <2> QED BY <1>1, <1>4, <2>2, ByHandKeepsPages
<1>5. CASE AddsTariff
  <2>1. PICK number \in ContractNumbers, s \in ContractSlices, n \in 1 .. Cardinality(tariffs) + 1 :
          tariffs' = tariffs \cup {[contract |-> number, slice |-> s, code |-> n, active |-> TRUE]}
    BY <1>5 DEF AddsTariff
  <2>2. [contract |-> number, slice |-> s, code |-> n, active |-> TRUE] \in AllTariffs
    BY <1>2 DEF AllTariffs
  <2> QED BY <1>4, <1>5, <2>1, <2>2 DEF AddsTariff
<1>6. ASSUME NEW p \in tariffs, ChangesTariff(p) PROVE ContractInv'
  <2>1. PICK number \in ContractNumbers, s \in {p.slice} \cup ContractSlices, on \in BOOLEAN :
          tariffs' = (tariffs \ {p}) \cup {[contract |-> number, slice |-> s, code |-> p.code, active |-> on]}
    BY <1>6 DEF ChangesTariff
  <2>2. [contract |-> number, slice |-> s, code |-> p.code, active |-> on] \in AllTariffs
    BY <1>1, <1>2 DEF AllTariffs
  <2>3. ByHand /\ tariffs \ {p} \in SUBSET tariffs
    BY <1>6 DEF ChangesTariff
  <2> QED BY <1>4, <2>1, <2>2, <2>3
<1> QED BY <1>3, <1>5, <1>6

LEMMA ContractInvInit == TariffsInit => ContractInv
<1> SUFFICES ASSUME TariffsInit PROVE ContractInv
  OBVIOUS
<1>1. sheets = {} /\ tariffs = {} /\ pages = [t \in Tabs |-> Nil]
  BY DEF TariffsInit
<1> QED BY <1>1, FS_EmptySet DEF ContractInv, ContractTypeOK

LEMMA ContractInvNext == ContractInv /\ [ContractNext]_contractVars => ContractInv'
<1> SUFFICES ASSUME ContractInv, [ContractNext]_contractVars PROVE ContractInv'
  OBVIOUS
<1>1. CASE UNCHANGED contractVars
  BY <1>1 DEF contractVars, ContractInv, ContractTypeOK, PageInv, KnowsAll, PlanForSlice
<1>2. CASE \E doc \in Pool : PutContractPrices(doc)
  BY <1>2, PutKeepsPages
<1>3. CASE \E t \in Tabs : LoadTariffs(t) \/ CreateFromContract(t) \/ CreateNext(t) \/ Stops(t)
  BY <1>3, LoadKeepsPages, PressKeepsPages, CreateKeepsPages, StopKeepsPages
<1>4. CASE AddsTariff \/ \E p \in tariffs : ChangesTariff(p) \/ DeletesTariff(p)
  BY <1>4, ChangeKeepsPages
<1> QED BY <1>1, <1>2, <1>3, <1>4 DEF ContractNext, TariffsStep

\* What a page that knows all tariffs sends: the code is none of those in use, and the
\* first slice it has still to make has no tariff under this contract.
LEMMA KnownIsSent ==
  ASSUME ContractInv, NEW t \in Tabs, pages[t] # Nil, pages[t].todo # <<>>, ~pages[t].crossed
  PROVE  /\ CodeIsFree(FreeCode(pages[t]))
         /\ \A p \in Rivals(Head(pages[t].todo)) : p.contract # Contract
<1> DEFINE page == pages[t]
<1>1. page.used \in SUBSET Nat /\ page.next \in Nat /\ page.todo \in Seq(AllSlices)
  BY PageParts DEF ContractInv
<1>2. IsFiniteSet(page.used) /\ Distinct(page.todo) /\ KnowsAll(page)
  BY DEF ContractInv, PageInv
<1>3. page.todo # <<>>
  OBVIOUS
<1> HIDE DEF page
<1>4. FreeCode(page) \notin page.used
  BY <1>1, <1>2, FreeCodeIsFree
<1>5. Head(page.todo) = page.todo[1] /\ 1 \in 1 .. Len(page.todo)
  BY <1>1, <1>2, <1>3, DistinctTail, LenProperties, EmptySeq
<1>6. CodeIsFree(FreeCode(page))
  BY <1>2, <1>4 DEF KnowsAll, CodeIsFree
<1>7. \A p \in Rivals(Head(page.todo)) : p.contract # Contract
  BY <1>2, <1>5 DEF KnowsAll, Rivals, PlanForSlice
<1> QED BY <1>6, <1>7 DEF page

\* The button that makes the tariffs of a contract (createFromContract of the tariffs
\* page), pressed on a page that is up to date while nobody else changes tariffs, sends
\* free codes, and what it sends is refused (assertUniquePartnerScope) only for a tariff
\* of the partner in use for the same under another contract or none - whichever
\* documents come meanwhile and whatever was made, edited, switched off or deleted before.
THEOREM ButtonRefusedForAnotherContract == ContractSpec => []RefusedForAnotherContract
<1>1. ContractInv => RefusedForAnotherContract
  BY KnownIsSent DEF RefusedForAnotherContract
<1> QED BY <1>1, ContractInvInit, ContractInvNext, PTL DEF ContractSpec

=============================================================================
