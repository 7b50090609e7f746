----------------------------- MODULE StayRules -----------------------------
(***************************************************************************)
(* The rules of sale of one category by the day, its grid of rooms, and    *)
(* the two computations that read them: the check of a stay                *)
(* (RestrictionsService.check) and its availability (AvailabilityService). *)
(* A rule is of one tariff or of all; the unique index of the database     *)
(* does not see two rules of all tariffs as the same.                      *)
(***************************************************************************)
EXTENDS Integers

CONSTANTS
  Unset,
  Tariffs,    \* tariffs that may have rules of their own
  LastDay,    \* days are 0..LastDay
  Desks,      \* requests that save a rule at a time
  Bodies,     \* what a saved rule may say
  GridBodies, \* what a saved day of the grid may say
  MaxRooms,   \* bound: active rooms of the category
  MaxSaves    \* bound: rules and days of the grid saved

Number == {Unset} \cup Nat
RuleBody == [closed : BOOLEAN, cta : BOOLEAN, ctd : BOOLEAN, stop : BOOLEAN, minLos : Number, maxLos : Number,
             minLosArrival : Number, maxLosArrival : Number, minAdvance : Number, maxAdvance : Number]
GridBody == [total : Number, blocked : Number, stop : {Unset} \cup BOOLEAN]

ASSUME RulesAssumption ==
  /\ Unset \notin Tariffs \cup Nat
  /\ Bodies \subseteq RuleBody /\ GridBodies \subseteq GridBody
  /\ LastDay \in Nat /\ MaxRooms \in Nat /\ MaxSaves \in Nat

VARIABLES
  rules,   \* the table restriction: a row [id, plan, day, says]
  grid,    \* the table inventory: a day's row, Unset where there is none
  rooms,   \* active rooms of the category
  desk,    \* saves under way
  saves,   \* saves begun, for the bound; names the rows
  crossed  \* two saves of one rule were under way at once

ruleVars == <<rules, grid, rooms, desk, saves, crossed>>

Days == 0..LastDay
Stays == {s \in [plan : Tariffs \cup {Unset}, arrival : Days, departure : Days] : s.arrival < s.departure}
NightsOf(s) == s.arrival..(s.departure - 1)
LengthOf(s) == s.departure - s.arrival

RulesInit ==
  /\ rules = {}
  /\ grid = [d \in Days |-> Unset]
  /\ rooms = 1
  /\ desk = [k \in Desks |-> Unset]
  /\ saves = 0
  /\ crossed = FALSE

-----------------------------------------------------------------------------
(***************************************************************************)
(* upsert: look for the row, then write it, in one transaction that holds  *)
(* no lock on a row that is not there.                                     *)
(***************************************************************************)
RowsOf(plan, day) == {r \in rules : r.plan = plan /\ r.day = day}

FindRule(k, plan, day, says) ==
  /\ desk[k] = Unset /\ saves < MaxSaves
  /\ \E found \in IF RowsOf(plan, day) = {} THEN {Unset} ELSE {r.id : r \in RowsOf(plan, day)} :
       desk' = [desk EXCEPT ![k] =
                  [id |-> saves, plan |-> plan, day |-> day, says |-> says, found |-> found]]
  /\ saves' = saves + 1
  /\ crossed' = (crossed \/ \E h \in Desks : desk[h] # Unset /\ desk[h].plan = plan /\ desk[h].day = day)
  /\ UNCHANGED <<rules, grid, rooms>>

\* The index over the tariff, the category and the day; NULLs are distinct.
IndexRefuses(plan, day) == plan # Unset /\ RowsOf(plan, day) # {}

WriteRule(k) ==
  LET s == desk[k]
      row(id) == [id |-> id, plan |-> s.plan, day |-> s.day, says |-> s.says]
      old == {r \in rules : r.id = s.found}
  IN /\ s # Unset
     /\ rules' = IF s.found # Unset /\ old # {} THEN (rules \ old) \cup {row(s.found)}
                 ELSE IF s.found = Unset /\ ~IndexRefuses(s.plan, s.day) THEN rules \cup {row(s.id)}
                 ELSE rules
     /\ desk' = [desk EXCEPT ![k] = Unset]
     /\ UNCHANGED <<grid, rooms, saves, crossed>>

RemoveRule(r) ==
  /\ rules' = rules \ {r}
  /\ UNCHANGED <<grid, rooms, desk, saves, crossed>>

\* The rules of a tariff go with it.
TariffGone(plan) ==
  /\ rules' = {r \in rules : r.plan # plan}
  /\ UNCHANGED <<grid, rooms, desk, saves, crossed>>

-----------------------------------------------------------------------------
(***************************************************************************)
(* The grid: a day keeps what is not named; a new one has all rooms.       *)
(***************************************************************************)
OrElse(value, default) == IF value = Unset THEN default ELSE value

BulkUpdate(day, b) ==
  LET new == [total |-> OrElse(b.total, rooms), blocked |-> OrElse(b.blocked, 0), stop |-> OrElse(b.stop, FALSE)]
      old == grid[day]
      kept == [total |-> OrElse(b.total, old.total), blocked |-> OrElse(b.blocked, old.blocked), stop |-> OrElse(b.stop, old.stop)]
  IN /\ saves < MaxSaves
     /\ grid' = [grid EXCEPT ![day] = IF old = Unset THEN new ELSE kept]
     /\ saves' = saves + 1
     /\ UNCHANGED <<rules, rooms, desk, crossed>>

\* A room joins or leaves the category; the grid keeps what it holds.
RoomsChange ==
  /\ saves < MaxSaves
  /\ rooms' \in (0..MaxRooms) \ {rooms}
  /\ saves' = saves + 1
  /\ UNCHANGED <<rules, grid, desk, crossed>>

-----------------------------------------------------------------------------
(***************************************************************************)
(* The check.  Of the rows of a day that of the tariff asked for is taken; *)
(* of twins either: a result is a set of the violations there may be.      *)
(***************************************************************************)
RowsFor(s, day) == RowsOf(Unset, day) \cup (IF s.plan = Unset THEN {} ELSE RowsOf(s.plan, day))
Preferred(s, day) ==
  LET own == {r \in RowsFor(s, day) : r.plan # Unset} IN IF own # {} THEN own ELSE RowsFor(s, day)
\* Of the day of departure the rule of all: NULL comes first in a descending order.
OnDeparture(s, day) ==
  LET ofAll == {r \in RowsFor(s, day) : r.plan = Unset} IN IF ofAll # {} THEN ofAll ELSE RowsFor(s, day)
Picks(candidates(_), days) ==
  LET rowsOrNone(d) == IF candidates(d) = {} THEN {Unset} ELSE {r.says : r \in candidates(d)}
  IN {f \in [days -> UNION {rowsOrNone(d) : d \in days}] : \A d \in days : f[d] \in rowsOrNone(d)}

TooShort(s, least) == least # Unset /\ LengthOf(s) < least
TooLong(s, most) == most # Unset /\ LengthOf(s) > most
Today == 0

NightViolations(s, says) ==
  IF says = Unset THEN {}
  ELSE {v \in {"CLOSED", "STOP_SELL", "MIN_LOS", "MAX_LOS"} :
          CASE v = "CLOSED" -> says.closed
            [] v = "STOP_SELL" -> says.stop
            [] v = "MIN_LOS" -> TooShort(s, says.minLos)
            [] v = "MAX_LOS" -> TooLong(s, says.maxLos)}
ArrivalViolations(s, says) ==
  IF says = Unset THEN {}
  ELSE {v \in {"CTA", "MIN_LOS_ARRIVAL", "MAX_LOS_ARRIVAL", "MIN_ADVANCE", "MAX_ADVANCE"} :
          CASE v = "CTA" -> says.cta
            [] v = "MIN_LOS_ARRIVAL" -> TooShort(s, says.minLosArrival)
            [] v = "MAX_LOS_ARRIVAL" -> TooLong(s, says.maxLosArrival)
            [] v = "MIN_ADVANCE" -> says.minAdvance # Unset /\ s.arrival - Today < says.minAdvance
            [] v = "MAX_ADVANCE" -> says.maxAdvance # Unset /\ s.arrival - Today > says.maxAdvance}
DepartureViolations(says) == IF says # Unset /\ says.ctd THEN {"CTD"} ELSE {}

\* check: a set of violations for each way to pick the rows.
Violations(s) ==
  LET read(d) == IF d = s.departure THEN OnDeparture(s, d) ELSE Preferred(s, d)
  IN {(UNION {NightViolations(s, f[d]) : d \in NightsOf(s)})
        \cup ArrivalViolations(s, f[s.arrival]) \cup DepartureViolations(f[s.departure])
      : f \in Picks(read, s.arrival..s.departure)}

-----------------------------------------------------------------------------
(***************************************************************************)
(* Availability: the grid, or the rooms there are; of the rows of a day    *)
(* the one the database gave last, be it of the tariff or of all.          *)
(***************************************************************************)
FreeOn(day) == LET g == grid[day] IN IF g = Unset THEN rooms ELSE g.total - g.blocked
Stopped(day) == grid[day] # Unset /\ grid[day].stop

Most(a, b) == IF a > b THEN a ELSE b
\* Slip: the least stay of an arrival is asked on any day but that.
SlipMinLos(s, day, says) ==
  Most(OrElse(says.minLos, 0), IF day # s.arrival THEN OrElse(says.minLosArrival, 0) ELSE 0)
MinLos(s, day, says) ==
  Most(OrElse(says.minLos, 0), IF day = s.arrival THEN OrElse(says.minLosArrival, 0) ELSE 0)
MaxLos(says) == OrElse(says.maxLos, says.maxLosArrival)

Allows(s, day, says) ==
  \/ says = Unset
  \/ /\ ~says.closed
     /\ ~(says.cta /\ day = s.arrival)
     /\ LengthOf(s) >= MinLos(s, day, says)
     /\ ~TooLong(s, MaxLos(says))

\* bookable, for each way to pick the rows.
Bookable(s) ==
  LET any(d) == RowsFor(s, d)
  IN {\A d \in NightsOf(s) : FreeOn(d) >= 1 /\ ~Stopped(d) /\ Allows(s, d, f[d]) : f \in Picks(any, NightsOf(s))}

-----------------------------------------------------------------------------
RulesNext ==
  \/ \E k \in Desks : \/ \E plan \in Tariffs \cup {Unset}, day \in Days, says \in Bodies :
                           FindRule(k, plan, day, says)
                      \/ WriteRule(k)
  \/ \E r \in rules : RemoveRule(r)
  \/ \E plan \in Tariffs : TariffGone(plan)
  \/ \E day \in Days, b \in GridBodies : BulkUpdate(day, b)
  \/ RoomsChange

RulesSpec == RulesInit /\ [][RulesNext]_ruleVars

-----------------------------------------------------------------------------
(***************************************************************************)
(* A day has one rule of a tariff always, and one of all tariffs unless    *)
(* two saves of it were under way at once.                                 *)
(***************************************************************************)
OneRuleUnlessCrossed ==
  \A r, t \in rules : r # t /\ r.plan = t.plan /\ r.day = t.day => r.plan = Unset /\ crossed

(***************************************************************************)
(* What availability calls bookable the check of the hotel's rules passes, *)
(* but for the rules availability does not read: stop-sale, closed         *)
(* departure, the window before arrival and the longest stay of an arrival *)
(* where a longest stay is set too.                                        *)
(***************************************************************************)
Unread == {"STOP_SELL", "CTD", "MIN_ADVANCE", "MAX_ADVANCE", "MAX_LOS_ARRIVAL"}
BookableKnowsRules ==
  ~crossed => \A s \in Stays : s.plan = Unset /\ TRUE \in Bookable(s) =>
    \A violations \in Violations(s) : violations \subseteq Unread

(***************************************************************************)
(* "When both a row with ratePlanId = X and ratePlanId = NULL exist for    *)
(* the same (roomType, date), the plan-specific one wins": a tariff that   *)
(* lets its guests leave on a day is not refused for the rule of all.      *)
(***************************************************************************)
PlanRuleWins ==
  \A s \in Stays : \A r \in rules :
    s.plan # Unset /\ r.plan = s.plan /\ r.day = s.departure /\ ~r.says.ctd
      => \A violations \in Violations(s) : "CTD" \notin violations
-----------------------------------------------------------------------------
\* Rows and saves under way have names of their own, a save knows the rule it
\* writes, and unless saves crossed the rule one did not find is still not there.
Saving == {k \in Desks : desk[k] # Unset}
RowsAreNamed ==
  /\ \A r \in rules : r.id \in 0..(saves - 1) /\ r.says \in RuleBody
  /\ \A r, t \in rules : r.id = t.id => r = t
SavesAreNamed ==
  \A k \in Saving : LET s == desk[k] IN
    /\ s.id \in 0..(saves - 1) /\ s.says \in RuleBody
    /\ s.found \in {Unset} \cup 0..(saves - 1)
    /\ \A r \in rules : r.id # s.id /\ (r.id = s.found => r.plan = s.plan /\ r.day = s.day)
    /\ \A h \in Saving : desk[h].id # s.found /\ (h # k => desk[h].id # s.id)
FoundIsSo ==
  ~crossed => \A k \in Saving : LET s == desk[k] IN
    /\ s.found = Unset => RowsOf(s.plan, s.day) = {}
    /\ \A h \in Saving \ {k} : ~(desk[h].plan = s.plan /\ desk[h].day = s.day)
RulesInv ==
  /\ saves \in Nat /\ desk = [k \in Desks |-> desk[k]]
  /\ RowsAreNamed /\ SavesAreNamed /\ FoundIsSo /\ OneRuleUnlessCrossed
=============================================================================
