---------------------------- MODULE PriceEditor -----------------------------
(***************************************************************************)
(* The prices of a tariff as the hotel edits them (Tariffs.jsx): standard  *)
(* prices, seasons and the calendar, each a tab with a draft of its own.   *)
(* A screen shows what its lists loaded last and forgets a tab that is     *)
(* left; a save sends what was typed, and the answer finds the screen as   *)
(* it is by then.  One tariff and one category; a season is named alike.   *)
(***************************************************************************)
EXTENDS Pricing

CONSTANTS
  Screens, Tariff,
  Beds,        \* guests the category takes
  Typed,       \* prices that are typed, besides nothing and zero
  FinalDay,    \* bound: the days of the calendar
  MaxSeasons,  \* bound: seasons of a list
  MaxWrites    \* bound: requests of all screens

ASSUME EditorAssumption ==
  /\ Beds \in Nat \ {0} /\ Typed \subseteq Nat \ {0} /\ FinalDay \in Nat
  /\ None \notin Nat

VARIABLES
  ofPartner,  \* is the tariff made for a partner?
  tables,     \* its prices
  loaded,     \* Screens -> the tables as the lists of the screen have them
  panel,      \* Screens -> the tab that is open, and what was typed there
  sending,    \* Screens -> None or the request under way
  writes

editorVars == <<ofPartner, tables, loaded, panel, sending, writes>>

Calendar == 0..FinalDay
\* A tariff of the hotel's own has one price for all, one of a partner has one by the guests as well.
Columns == IF ofPartner THEN 0..Beds ELSE {0}
\* What the calendar is asked for: the guests chosen, of its own tariff nothing.
Asked(guests) == IF ofPartner THEN guests ELSE AnyParty
\* The server's default where a request names no guests.
PartyOf(guests) == IF ofPartner THEN guests ELSE 2

-----------------------------------------------------------------------------
(***************************************************************************)
(* What a screen makes of the tables.                                      *)
(***************************************************************************)
\* The price of a column: the row's, or nothing.
ByColumn(rows) == [c \in Columns |-> IF \E r \in rows : r.guests = c THEN (CHOOSE r \in rows : r.guests = c).price ELSE 0]
StandardShown(t) == ByColumn(t.standard)

\* Rows back into seasons, in their order: the i-th has i - 1 before it.
SeasonOf(r) == [order |-> r.order, from |-> r.from, to |-> r.to]
SeasonsOf(rows) == {SeasonOf(r) : r \in rows}
Before(k, keys) == {l \in keys : l.order < k.order}
SeasonsShown(t) ==
  [i \in 1..Cardinality(SeasonsOf(t.seasons)) |->
     LET k == CHOOSE k \in SeasonsOf(t.seasons) : Cardinality(Before(k, SeasonsOf(t.seasons))) = i - 1
     IN [from |-> k.from, to |-> k.to, order |-> k.order, prices |-> ByColumn({r \in t.seasons : SeasonOf(r) = k})]]

\* Seasons are numbered by their place in the list; no price is no row.
SeasonItems(list) ==
  {[from |-> list[i].from, to |-> list[i].to, order |-> i - 1, guests |-> c, price |-> list[i].prices[c]] :
     i \in DOMAIN list, c \in Columns}

\* pickOccupancy: rows for the guests; for any number where its group has none for them.
SameGroup(r, s) == [r EXCEPT !.guests = 0, !.price = 0] = [s EXCEPT !.guests = 0, !.price = 0]
PickOccupancy(rows, guests) ==
  IF guests = AnyParty THEN rows
  ELSE {r \in rows : r.guests = guests \/ (r.guests = 0 /\ \A s \in rows : SameGroup(r, s) => s.guests # guests)}

\* Slip: the last day of a season is not of it.
SlipBaselineShown(t, day, guests) ==
  LET covering == {s \in PickOccupancy(t.seasons, guests) : s.from <= day /\ day < s.to}
  IN IF covering # {} THEN PricesOf(OnTop(covering))
     ELSE PricesOf(PickOccupancy(t.standard, guests))
\* buildResolver: covering season, then standard price.
BaselineShown(t, day, guests) ==
  LET covering == {s \in PickOccupancy(t.seasons, guests) : s.from <= day /\ day <= s.to}
  IN IF covering # {} THEN PricesOf(OnTop(covering))
     ELSE PricesOf(PickOccupancy(t.standard, guests))

\* useRates and overrideMap: the day's own price.
Override(t, day, guests) ==
  PricesOf({r \in t.daily : r.day = day /\ (Asked(guests) = AnyParty \/ r.guests = guests)})
\* cellInfo, where nothing is typed.
CellShown(t, day, guests) ==
  IF Override(t, day, guests) # {} THEN Override(t, day, guests) ELSE BaselineShown(t, day, Asked(guests))

-----------------------------------------------------------------------------
(***************************************************************************)
(* Tabs.  A list that comes back with something else wipes the draft made  *)
(* from it; what is typed into the calendar stays.                         *)
(***************************************************************************)
Opened(tab, t) ==
  CASE tab = "standard" -> [tab |-> tab, draft |-> StandardShown(t)]
    [] tab = "seasons"  -> [tab |-> tab, list |-> SeasonsShown(t)]
    [] tab = "calendar" -> [tab |-> tab, guests |-> 1, pending |-> <<>>, cell |-> None]

EditorInit ==
  /\ ofPartner \in BOOLEAN
  /\ tables = [daily |-> {}, seasons |-> {}, standard |-> {}]
  /\ loaded = [d \in Screens |-> tables]
  /\ panel = [d \in Screens |-> Opened("standard", tables)]
  /\ sending = [d \in Screens |-> None]
  /\ writes = 0

Shows(d, tab) == panel[d].tab = tab
Turns(d, p) == panel' = [panel EXCEPT ![d] = p]
Only == UNCHANGED <<ofPartner, tables, loaded, sending, writes>>

Fetch(d, table) ==
  LET now == [loaded[d] EXCEPT ![table] = tables[table]]
  IN /\ now # loaded[d]
     /\ loaded' = [loaded EXCEPT ![d] = now]
     /\ IF Shows(d, table) THEN Turns(d, Opened(table, now)) ELSE UNCHANGED panel
     /\ UNCHANGED <<ofPartner, tables, sending, writes>>

\* The request goes on, but nobody waits for its answer.
OpenTab(d, tab) ==
  /\ ~Shows(d, tab) /\ Turns(d, Opened(tab, loaded[d]))
  /\ sending' = [sending EXCEPT ![d] = IF @ = None THEN None ELSE [@ EXCEPT !.awaited = FALSE]]
  /\ UNCHANGED <<ofPartner, tables, loaded, writes>>

MaySend(d) == sending[d] = None /\ writes < MaxWrites
Send(d, what, items) ==
  /\ MaySend(d) /\ writes' = writes + 1
  /\ sending' = [sending EXCEPT ![d] = [what |-> what, items |-> items, awaited |-> TRUE, written |-> FALSE]]
  /\ UNCHANGED <<ofPartner, tables, loaded, panel>>

(* Standard prices *)
TypeStandard(d, c, price) ==
  /\ Shows(d, "standard") /\ Turns(d, [panel[d] EXCEPT !.draft[c] = price]) /\ Only
\* "Reset"; the button to save is there for what differs.
Differs(d) == Shows(d, "standard") /\ panel[d].draft # StandardShown(loaded[d])
ResetStandard(d) == Differs(d) /\ Turns(d, Opened("standard", loaded[d])) /\ Only
SaveStandard(d) ==
  /\ Differs(d)
  /\ Send(d, "standard", {[guests |-> c, price |-> panel[d].draft[c]] : c \in Columns})

(* Seasons *)
Rewrites(d, list) == Shows(d, "seasons") /\ Turns(d, [panel[d] EXCEPT !.list = list]) /\ Only
AddSeason(d) ==
  /\ Shows(d, "seasons") /\ Len(panel[d].list) < MaxSeasons
  /\ Rewrites(d, Append(panel[d].list, [from |-> 0, to |-> 0, order |-> Len(panel[d].list), prices |-> [c \in Columns |-> 0]]))
RemoveSeason(d, i) == Shows(d, "seasons") /\ i \in DOMAIN panel[d].list /\ Rewrites(d, RemoveAt(panel[d].list, i))
DateSeason(d, i, from, to) ==
  /\ Shows(d, "seasons") /\ i \in DOMAIN panel[d].list
  /\ Rewrites(d, [panel[d].list EXCEPT ![i].from = from, ![i].to = to])
PriceSeason(d, i, c, price) ==
  /\ Shows(d, "seasons") /\ i \in DOMAIN panel[d].list
  /\ Rewrites(d, [panel[d].list EXCEPT ![i].prices[c] = price])
ListDiffers(d) == Shows(d, "seasons") /\ panel[d].list # SeasonsShown(loaded[d])
CancelSeasons(d) == ListDiffers(d) /\ Rewrites(d, SeasonsShown(loaded[d]))
SaveSeasons(d) ==
  /\ ListDiffers(d)
  /\ \A i \in DOMAIN panel[d].list : panel[d].list[i].from <= panel[d].list[i].to
  /\ Send(d, "seasons", SeasonItems(panel[d].list))

(* The calendar.  A cell that was opened is to be saved, typed in or not. *)
Pends(d, pending, cell) == Turns(d, [panel[d] EXCEPT !.pending = pending, !.cell = cell]) /\ Only
Without(d, day) == Restrict(panel[d].pending, DOMAIN panel[d].pending \ {day})
With(d, day, price) == [e \in DOMAIN panel[d].pending \cup {day} |-> IF e = day THEN price ELSE panel[d].pending[e]]
Dirty(d) == DOMAIN panel[d].pending # {}

\* What was typed before was typed for other guests.
SlipForgets(d, guests) == [panel[d] EXCEPT !.guests = guests]
Forgets(d, guests) == [panel[d] EXCEPT !.guests = guests, !.pending = <<>>]
ChooseGuests(d, guests) ==
  /\ Shows(d, "calendar") /\ ofPartner /\ panel[d].cell = None /\ guests # panel[d].guests
  /\ Turns(d, Forgets(d, guests)) /\ Only
StartEdit(d, day) ==
  /\ Shows(d, "calendar") /\ panel[d].cell = None
  /\ IF day \in DOMAIN panel[d].pending THEN Pends(d, panel[d].pending, day)
     ELSE \E price \in Override(loaded[d], day, panel[d].guests) \cup {None} :
            /\ price = None => Override(loaded[d], day, panel[d].guests) = {}
            /\ Pends(d, With(d, day, [price |-> price, for |-> panel[d].guests]), day)
\* By Enter, Tab or the mouse elsewhere; nothing typed is nothing to save.
CommitCell(d, price) ==
  /\ Shows(d, "calendar") /\ panel[d].cell # None
  /\ IF price = None THEN Pends(d, Without(d, panel[d].cell), None)
     ELSE Pends(d, With(d, panel[d].cell, [price |-> price, for |-> panel[d].guests]), None)
Escape(d) == Shows(d, "calendar") /\ panel[d].cell # None /\ Pends(d, Without(d, panel[d].cell), None)
CancelDays(d) == Shows(d, "calendar") /\ panel[d].cell = None /\ Dirty(d) /\ Pends(d, <<>>, None)
DayItems(d) ==
  {[day |-> day, guests |-> PartyOf(panel[d].guests), price |-> panel[d].pending[day].price,
    for |-> panel[d].pending[day].for] : day \in DOMAIN panel[d].pending}
SaveDays(d) == Shows(d, "calendar") /\ panel[d].cell = None /\ Dirty(d) /\ Send(d, "days", DayItems(d))
\* "Fill a range": while nothing is pending.
FillDays(d, from, to, price) ==
  /\ Shows(d, "calendar") /\ ~Dirty(d) /\ from <= to
  /\ Send(d, "fill", {[day |-> day, guests |-> PartyOf(panel[d].guests), price |-> price, for |-> panel[d].guests] : day \in from..to})

-----------------------------------------------------------------------------
(* The server, and its answer *)
TablesAfter(r) ==
  CASE r.what = "standard" -> WithStandard(tables, Tariff, r.items)
    [] r.what = "seasons"  -> WithSeasons(tables, Tariff, r.items)
    [] r.what \in {"days", "fill"} -> WithDays(tables, Tariff, r.items)
WritesPrices(d) ==
  /\ sending[d] # None /\ ~sending[d].written
  /\ tables' = TablesAfter(sending[d])
  /\ sending' = [sending EXCEPT ![d].written = TRUE]
  /\ UNCHANGED <<ofPartner, loaded, panel, writes>>
\* All that pends is taken for saved, what was typed meanwhile with it.
HearsAnswer(d) ==
  /\ sending[d] # None /\ sending[d].written
  /\ sending' = [sending EXCEPT ![d] = None]
  /\ IF sending[d].awaited /\ sending[d].what = "days" THEN Turns(d, [panel[d] EXCEPT !.pending = <<>>]) ELSE UNCHANGED panel
  /\ UNCHANGED <<ofPartner, tables, loaded, writes>>
\* The request does not arrive, or its answer does not: the draft stays.
SaveFails(d) ==
  /\ sending[d] # None
  /\ sending' = [sending EXCEPT ![d] = None]
  /\ UNCHANGED <<ofPartner, tables, loaded, panel, writes>>

StandardStep(d) ==
  \/ (\E c \in Columns, price \in Typed \cup {0} : TypeStandard(d, c, price))
  \/ ResetStandard(d) \/ SaveStandard(d)
SeasonsStep(d) ==
  \/ AddSeason(d) \/ CancelSeasons(d) \/ SaveSeasons(d)
  \/ \E i \in 1..MaxSeasons : \/ RemoveSeason(d, i)
                              \/ (\E from, to \in Calendar : DateSeason(d, i, from, to))
                              \/ (\E c \in Columns, price \in Typed \cup {0} : PriceSeason(d, i, c, price))
CalendarOfPricesStep(d) ==
  \/ (\E guests \in 1..Beds : ChooseGuests(d, guests))
  \/ (\E day \in Calendar : StartEdit(d, day))
  \/ (\E price \in Typed \cup {0, None} : CommitCell(d, price))
  \/ Escape(d) \/ CancelDays(d) \/ SaveDays(d)
  \/ (\E from, to \in Calendar, price \in Typed \cup {0} : FillDays(d, from, to, price))
EditorStep == \E d \in Screens :
  \/ (\E table \in {"daily", "seasons", "standard"} : Fetch(d, table))
  \/ (\E tab \in {"standard", "seasons", "calendar"} : OpenTab(d, tab))
  \/ StandardStep(d) \/ SeasonsStep(d) \/ CalendarOfPricesStep(d)
  \/ WritesPrices(d) \/ HearsAnswer(d) \/ SaveFails(d)
EditorSpec == EditorInit /\ [][EditorStep]_editorVars

-----------------------------------------------------------------------------
(***************************************************************************)
(* Of a tariff of a partner a price that was typed for some guests is      *)
(* saved for them, whatever number of guests the calendar was turned to.   *)
(***************************************************************************)
SavedForItsGuests ==
  \A d \in Screens : ofPartner /\ sending[d] # None /\ sending[d].what = "days" =>
    \A i \in sending[d].items : i.guests = i.for

(***************************************************************************)
(* "The calendar shows the price of every day as it comes out": with the   *)
(* lists up to date it shows what a night is offered for, to so many       *)
(* guests -- so long as the season that counts has a price for them.       *)
(***************************************************************************)
PricedOnTop(t, day, guests) ==
  LET covering == Covering(t, Tariff, day)
  IN covering = {} \/ \E s \in OnTop(covering) : s.guests \in {0, guests}
ShowsOffer(t, day, guests) == CellShown(t, day, guests) = NightOffer(t, Tariff, day, guests, ofPartner, 0)
CalendarShowsOffer ==
  \A day \in Calendar, guests \in 1..Beds : PricedOnTop(tables, day, guests) => ShowsOffer(tables, day, guests)

(***************************************************************************)
(* "Baseline resolver -- mirrors backend: covering season, standard price, *)
(* null": without that condition.                                          *)
(***************************************************************************)
CalendarMirrorsBackend ==
  \A day \in Calendar, guests \in 1..Beds : ShowsOffer(tables, day, guests)

(***************************************************************************)
(* A list of seasons comes back as it was saved, less those without any    *)
(* price: whatever was added, removed and dated before.                    *)
(***************************************************************************)
SeasonsReturn ==
  \A d \in Screens : Shows(d, "seasons") =>
    LET kept == SelectSeq(panel[d].list, LAMBDA s : \E c \in Columns : s.prices[c] > 0)
        back == SeasonsShown(WithSeasons(tables, Tariff, SeasonItems(panel[d].list)))
    IN /\ Len(back) = Len(kept)
       /\ \A i \in DOMAIN kept : \A f \in {"from", "to", "prices"} : back[i][f] = kept[i][f]

(***************************************************************************)
(* "0 to clear, or > 0 to set a price": a range filled with nothing has no *)
(* price of its own any more.                                              *)
(***************************************************************************)
FillZeroClears ==
  [][\A d \in Screens :
       sending[d] # None /\ sending[d].what = "fill" /\ ~sending[d].written /\ sending'[d] # None /\ sending'[d].written =>
         \A i \in sending[d].items : i.price = 0 =>
           ~\E r \in tables'.daily : r.day = i.day /\ r.guests = i.guests]_editorVars
=============================================================================
