-------------------------- MODULE RevenueCalendar --------------------------
(***************************************************************************)
(* The page of revenue (Revenue.jsx): two calendars of a month of one      *)
(* category, its grid of rooms and its rules, each with a dialog for a     *)
(* day.  A dialog takes its fields from the row the calendar found for the *)
(* day and sends them all, whichever was changed.                          *)
(***************************************************************************)
EXTENDS StayRules

CONSTANTS
  Closed,   \* no dialog is open
  Blocks,   \* numbers of blocked rooms that are typed
  Lengths   \* least stays that are typed

VARIABLES
  seen,     \* seen[k]: the rules the page of k has loaded
  dialog    \* dialog[k]: its open dialog, or Closed

calendarVars == <<ruleVars, seen, dialog>>

CalendarInit ==
  /\ RulesInit
  /\ seen = [k \in Desks |-> {}]
  /\ dialog = [k \in Desks |-> Closed]

Load(k) ==
  /\ seen' = [seen EXCEPT ![k] = rules]
  /\ UNCHANGED <<ruleVars, dialog>>

-----------------------------------------------------------------------------
(***************************************************************************)
(* The grid.  A row of the answer is dated by an instant (getGrid hands    *)
(* out Date, JSON spells it with its time); the calendar looks its days up *)
(* by their names.                                                         *)
(***************************************************************************)
Instant(day) == <<day, "T00:00:00.000Z">>
DayName(day) == <<day>>
RowMap(key) == IF \E d \in Days : key = Instant(d) THEN grid[CHOOSE d \in Days : key = Instant(d)] ELSE Unset

OpenGridDay(k, day) ==
  LET row == RowMap(DayName(day))
  IN /\ dialog[k] = Closed
     /\ dialog' = [dialog EXCEPT ![k] =
          [of |-> "grid", day |-> day, typed |-> {},
           blocked |-> IF row = Unset THEN 0 ELSE row.blocked, stop |-> row # Unset /\ row.stop]]
     /\ UNCHANGED <<ruleVars, seen>>

Is(k, of) == dialog[k] # Closed /\ dialog[k].of = of
Typing(k, d) == dialog' = [dialog EXCEPT ![k] = d] /\ UNCHANGED <<ruleVars, seen>>
Untyped(k, field) == field \notin dialog[k].typed
TypeBlocked(k, n) ==
  /\ Is(k, "grid") /\ Untyped(k, "blocked") /\ n # dialog[k].blocked
  /\ Typing(k, [dialog[k] EXCEPT !.blocked = n, !.typed = @ \cup {"blocked"}])
ToggleStop(k) ==
  /\ Is(k, "grid") /\ Untyped(k, "stop")
  /\ Typing(k, [dialog[k] EXCEPT !.stop = ~@, !.typed = @ \cup {"stop"}])

SaveGridDay(k) ==
  /\ Is(k, "grid")
  /\ BulkUpdate(dialog[k].day, [total |-> Unset, blocked |-> dialog[k].blocked, stop |-> dialog[k].stop])
  /\ dialog' = [dialog EXCEPT ![k] = Closed]
  /\ UNCHANGED seen

-----------------------------------------------------------------------------
(***************************************************************************)
(* The rules.  The calendar asks for those of the category, of whatever    *)
(* tariff, and of the rows of a day keeps the last of the answer; the      *)
(* answer is sorted by the day alone.                                      *)
(***************************************************************************)
NoRule == [closed |-> FALSE, cta |-> FALSE, ctd |-> FALSE, stop |-> FALSE, minLos |-> Unset, maxLos |-> Unset,
           minLosArrival |-> Unset, maxLosArrival |-> Unset, minAdvance |-> Unset, maxAdvance |-> Unset]
Shown(k, day) == LET of == {r \in seen[k] : r.day = day} IN IF of = {} THEN {Unset} ELSE of

OpenRule(k, day) ==
  /\ dialog[k] = Closed
  /\ \E r \in Shown(k, day) :
       dialog' = [dialog EXCEPT ![k] =
          [of |-> "rule", day |-> day, typed |-> {}, row |-> r, says |-> IF r = Unset THEN NoRule ELSE r.says]]
  /\ UNCHANGED <<ruleVars, seen>>

ToggleClosed(k) ==
  /\ Is(k, "rule") /\ Untyped(k, "closed")
  /\ Typing(k, [dialog[k] EXCEPT !.says.closed = ~@, !.typed = @ \cup {"closed"}])
TypeMinLos(k, n) ==
  /\ Is(k, "rule") /\ Untyped(k, "minLos") /\ n # dialog[k].says.minLos
  /\ Typing(k, [dialog[k] EXCEPT !.says.minLos = n, !.typed = @ \cup {"minLos"}])

\* The button is off while a save is under way; the rule is sent as one of all tariffs.
SaveRule(k) ==
  /\ Is(k, "rule")
  /\ FindRule(k, Unset, dialog[k].day, dialog[k].says)
  /\ UNCHANGED <<seen, dialog>>

\* The dialog that is open when the answer comes is closed, be it of another day.
RuleSaved(k) ==
  LET refused == desk[k].found # Unset /\ \A r \in rules : r.id # desk[k].found
  IN /\ desk[k] # Unset
     /\ WriteRule(k)
     /\ dialog' = IF Is(k, "rule") /\ ~refused THEN [dialog EXCEPT ![k] = Closed] ELSE dialog
     /\ UNCHANGED seen

\* A row that is gone already is an error, and the dialog stays.
DeleteRule(k) ==
  /\ Is(k, "rule") /\ dialog[k].row # Unset
  /\ \E r \in rules : r.id = dialog[k].row.id /\ RemoveRule(r)
  /\ dialog' = [dialog EXCEPT ![k] = Closed]
  /\ UNCHANGED seen

CloseDialog(k) ==
  /\ dialog[k] # Closed
  /\ dialog' = [dialog EXCEPT ![k] = Closed]
  /\ UNCHANGED <<ruleVars, seen>>

\* A rule of one tariff: the page has none, the interface has.
SaveTariffRule(plan, day, says) ==
  /\ saves < MaxSaves /\ RowsOf(plan, day) = {}
  /\ rules' = rules \cup {[id |-> saves, plan |-> plan, day |-> day, says |-> says]}
  /\ saves' = saves + 1
  /\ UNCHANGED <<grid, rooms, desk, crossed, seen, dialog>>

CalendarStep ==
  \/ \E k \in Desks :
       \/ Load(k)
       \/ \E day \in Days : OpenGridDay(k, day) \/ OpenRule(k, day)
       \/ (\E n \in Blocks : TypeBlocked(k, n))
       \/ (\E n \in Lengths : TypeMinLos(k, n))
       \/ ToggleStop(k) \/ ToggleClosed(k)
       \/ SaveGridDay(k) \/ SaveRule(k) \/ RuleSaved(k) \/ DeleteRule(k) \/ CloseDialog(k)
  \/ \E plan \in Tariffs, day \in Days, says \in Bodies : SaveTariffRule(plan, day, says)

CalendarSpec == CalendarInit /\ [][CalendarStep]_calendarVars

-----------------------------------------------------------------------------
(***************************************************************************)
(* "Preserves stop-sell when only blocked rooms change": a save of the     *)
(* grid dialog in which nothing but the blocked rooms was typed lifts no   *)
(* stop-sale.                                                              *)
(***************************************************************************)
StopSaleKept ==
  [][\A k \in Desks : Is(k, "grid") /\ dialog[k].typed = {"blocked"} /\ dialog'[k] = Closed =>
       \A d \in Days : Stopped(d) => grid'[d].stop]_calendarVars

(***************************************************************************)
(* A rule of all tariffs says after a save of the page only what its own   *)
(* dialog showed or what was typed there, never what one tariff asks for.  *)
(***************************************************************************)
TariffRuleStaysItsOwn ==
  [][\A k \in Desks : Is(k, "rule") /\ dialog[k].row # Unset /\ dialog[k].row.plan # Unset =>
       \A r \in rules' \ rules : r.plan = Unset /\ r.day = dialog[k].day =>
         \A f \in DOMAIN NoRule \ dialog[k].typed : r.says[f] = NoRule[f]]_calendarVars
=============================================================================
