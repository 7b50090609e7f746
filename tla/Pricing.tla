------------------------------ MODULE Pricing -------------------------------
(***************************************************************************)
(* What a night costs.  Two computations stand beside each other in the    *)
(* code: the offer to a partner (AvailabilityService.priceByPlan) and the  *)
(* quote of the cabinet (PricingService.quote, calculatePricing), which    *)
(* follows the parents of a tariff.  Both read the same three tables.      *)
(* Nothing here changes: the tables are arguments, for one category; and   *)
(* what a request makes of them is a function of them.                     *)
(***************************************************************************)
EXTENDS Integers, Sequences, FiniteSets, SequencesExt

CONSTANT None

(***************************************************************************)
(* book.daily:    rows [plan, day, guests, price]                          *)
(* book.seasons:  rows [plan, from, to, order, guests, price]              *)
(* book.standard: rows [plan, guests, price]                               *)
(* guests = 0 is "any number" in the last two.  What a list gives first,   *)
(* where nothing sorts it, is any of its rows: results are sets of prices, *)
(* empty when there is none.                                               *)
(***************************************************************************)
AnyParty == 0
PricesOf(rows) == {r.price : r \in rows}
Smallest(S) == {x \in S : \A y \in S : x <= y}

\* pickByOccupancy: the party asked for, then any party; another party's price only if none was named.
Pick(rows, guests) ==
  LET for(n) == {r \in rows : r.guests = n} IN
  IF guests # AnyParty /\ for(guests) # {} THEN for(guests)
  ELSE IF for(AnyParty) # {} THEN for(AnyParty)
  ELSE IF guests = AnyParty THEN {r \in rows : \A s \in rows : r.guests <= s.guests}
  ELSE {}

\* The covering season that began last, of the highest order; its rows of one window.
Covering(book, p, day) == {s \in book.seasons : s.plan = p /\ s.from <= day /\ day <= s.to}
OnTop(seasons) ==
  {s \in seasons : \A t \in seasons : t.from < s.from \/ (t.from = s.from /\ t.order <= s.order)}
Window(s, seasons) == {t \in seasons : t.from = s.from /\ t.to = s.to /\ t.order = s.order}

\* BaselineResolver.resolve: season, then standard price.
Baseline(book, p, day, guests) ==
  LET covering == Covering(book, p, day)
      seasonal == UNION {Pick(Window(s, covering), guests) : s \in OnTop(covering)}
  IN IF seasonal # {} THEN PricesOf(seasonal)
     ELSE PricesOf(Pick({r \in book.standard : r.plan = p}, guests))

Daily(book, p, day) == {r \in book.daily : r.plan = p /\ r.day = day}

-----------------------------------------------------------------------------
(***************************************************************************)
(* The tables after a request (RatesService).  One transaction writes all  *)
(* that a request names: of a day a price for a party, whatever it is; of  *)
(* the standard prices a price of nothing deletes the row; of the seasons  *)
(* the whole set, without rows of no price.                                *)
(***************************************************************************)
WithDays(book, p, items) ==
  LET named(r) == r.plan = p /\ \E i \in items : i.day = r.day /\ i.guests = r.guests
      rows == {[plan |-> p, day |-> i.day, guests |-> i.guests, price |-> i.price] : i \in items}
  IN [book EXCEPT !.daily = {r \in @ : ~named(r)} \cup rows]

WithStandard(book, p, items) ==
  LET named(r) == r.plan = p /\ \E i \in items : i.guests = r.guests
      rows == {[plan |-> p, guests |-> i.guests, price |-> i.price] : i \in {j \in items : j.price > 0}}
  IN [book EXCEPT !.standard = {r \in @ : ~named(r)} \cup rows]

WithSeasons(book, p, items) ==
  LET rows == {[plan |-> p, from |-> i.from, to |-> i.to, order |-> i.order,
                guests |-> i.guests, price |-> i.price] : i \in {j \in items : j.price > 0}}
  IN [book EXCEPT !.seasons = {r \in @ : r.plan # p} \cup rows]

-----------------------------------------------------------------------------
(***************************************************************************)
(* The offer: per-day price, baseline, and the base price of the category  *)
(* for a tariff of the hotel's own.                                        *)
(***************************************************************************)
DailyOffer(book, p, day, guests, strict) ==
  LET rows == Daily(book, p, day)
      for(n) == {r \in rows : r.guests = n}
  IN IF guests # AnyParty /\ for(guests) # {} THEN PricesOf(for(guests))
     ELSE IF guests # AnyParty /\ for(0) # {} THEN PricesOf(for(0))
     ELSE IF guests # AnyParty /\ strict THEN {}
     ELSE Smallest(PricesOf(rows))

NightOffer(book, p, day, guests, isPartnerPlan, basePrice) ==
  LET daily == DailyOffer(book, p, day, guests, isPartnerPlan)
      base == Baseline(book, p, day, guests)
  IN IF daily # {} THEN daily
     ELSE IF base # {} THEN base
     ELSE IF isPartnerPlan \/ basePrice = 0 THEN {}
     ELSE {basePrice}

-----------------------------------------------------------------------------
(***************************************************************************)
(* The quote: from the tariff up to the nearest ancestor with a price, and *)
(* down again, each tariff modifying what it inherits.                     *)
(***************************************************************************)
MaxDepth == 5

\* plans[p]: None or a record with parent, byGuests, inPercent, modifier.
Chain(plans, p) ==
  LET up[n \in 0..MaxDepth] ==
        IF n = 0 THEN <<p>>
        ELSE LET lower == up[n - 1]
                 parent == plans[Last(lower)].parent
             IN IF Len(lower) < n \/ parent = None \/ plans[parent] = None THEN lower
                ELSE Append(lower, parent)
  IN up[MaxDepth]

OwnPrice(book, plans, p, day, guests, baseGuests) ==
  LET at(n) == {r \in Daily(book, p, day) : r.guests = n}
      asked == IF plans[p].byGuests THEN guests ELSE baseGuests
  IN IF at(asked) # {} THEN PricesOf(at(asked))
     ELSE IF plans[p].byGuests /\ at(baseGuests) # {} THEN PricesOf(at(baseGuests))
     ELSE Baseline(book, p, day, guests)

\* Prices are whole numbers of the smallest coin; half of one is rounded up; never below zero.
Modified(price, plan) ==
  LET v == plan.modifier
      changed == IF plan.inPercent THEN (price * (100 + v) + 50) \div 100 ELSE price + v
  IN IF changed < 0 THEN 0 ELSE changed

NightQuote(book, plans, p, day, guests, baseGuests) ==
  LET chain == Chain(plans, p)
      priced == {i \in DOMAIN chain : OwnPrice(book, plans, chain[i], day, guests, baseGuests) # {}}
      nearest == CHOOSE i \in priced : \A j \in priced : i <= j
      down(price) == FoldRight(LAMBDA q, x : Modified(x, plans[q]), SubSeq(chain, 1, nearest - 1), price)
  IN IF priced = {} THEN {}
     ELSE {down(x) : x \in OwnPrice(book, plans, chain[nearest], day, guests, baseGuests)}
=============================================================================
