----------------------------- MODULE MCSelling -----------------------------
(***************************************************************************)
(* What a hotel sells and how: its tariffs, the page their prices are      *)
(* typed on, the rules of a category by the day, the contract tariffs come *)
(* from, the dispatcher of the partner who sells stays, and the text that  *)
(* describes the hotel.  No step is a step of two of these, so a behaviour *)
(* is of one of them: the scene.                                           *)
(***************************************************************************)
EXTENDS RatePlans, RevenueCalendar, PartnerDesk, PriceEditor, ContractTariffs, TLC
VARIABLES
  scene,
  today,                  \* of the contract
  text, page, last, steps \* the hotel's text
CONSTANTS
  Scenes,   \* the scenes of the run
  a, client, other, r1, r2, b1, b2, single, double

Priced(customer, kind, types, guests, price) ==
  [customer |-> customer, kind |-> kind, meal |-> "none", types |-> types, guests |-> guests,
   perPerson |-> kind # Nil, price |-> price]
Doc(account, from, to, says) ==
  [contract |-> "ours", account |-> account, from |-> from, to |-> to, rows |-> says, fill |-> <<>>]
Main == Doc("llc", 0, Nil, <<Priced(Nil, Nil, {single, double}, 0, 4), Priced(Nil, Nil, {double}, 2, 6)>>)
Crew == Doc("llc", 1, 2, <<Priced(Nil, "crew", {double}, 1, 1), Priced("su", Nil, {double}, 2, 3)>>)
\* An amendment with a category that is no more and a cell left empty, and another side's.
Later == Doc("llc", 2, Nil, <<Priced(Nil, Nil, {double, "gone"}, 2, 5),
                               [Priced(Nil, Nil, {single}, 0, Nil) EXCEPT !.meal = "bb"]>>)
Alien == Doc("inc", 3, 3, <<Priced(Nil, "crew", {single}, 0, 2)>>)
\* The grid the partner computed itself, once for all guests, and its correction.
Grid(from, keys, price) ==
  [Doc("llc", from, Nil, <<>>) EXCEPT !.fill =
     <<[from |-> from, slices |-> {[customer |-> Nil, kind |-> Nil, meal |-> "none",
                                    cells |-> {[key |-> k, price |-> price] : k \in keys}]}]>>]
Sliced == {Main, Crew, Later}
MCPool == Sliced \cup {Alien, Grid(2, {<<double, 2>>, <<single, 2>>}, 7), Grid(1, {<<double, 2>>}, 8), [Main EXCEPT !.contract = "theirs"]}
MCNumbers == {"ours", Nil}
Contracts == INSTANCE ContractSheets WITH Types <- {single, double},
  MaxOccupancy <- single :> 1 @@ double :> 2, LastDay <- 3

MCOwnerOf == a :> Kars @@ client :> Kars
Unnamed == [partner |-> Same, account |-> Same, customer |-> Same, kind |-> Same, forOperator |-> Same,
            meal |-> Same, active |-> Same, parent |-> Same, byGuests |-> Same, inPercent |-> Same, modifier |-> Same]
\* A tariff of the partner for anyone, one for an account, one of the hotel's own.
MCCreates ==
  {[Unnamed EXCEPT !.partner = Kars],
   [Unnamed EXCEPT !.partner = Kars, !.account = a],
   [Unnamed EXCEPT !.modifier = 10]}
MCUpdates ==
  {[Unnamed EXCEPT !.account = a],
   [Unnamed EXCEPT !.forOperator = TRUE],
   [Unnamed EXCEPT !.partner = other],
   [Unnamed EXCEPT !.meal = "full"],
   [Unnamed EXCEPT !.active = FALSE]}
  \cup {[Unnamed EXCEPT !.parent = p] : p \in Plans}
MCLists == {{}, {a, client}}
MCDailyEdits == {[days |-> {1}, guests |-> 2, price |-> 300]}
MCStandardEdits == {[guests |-> 0, price |-> 200], [guests |-> 0, price |-> 0]}
MCSeasonEdits == {{}, {[from |-> 1, to |-> 2, order |-> 0, guests |-> 1, price |-> 150]}}
MCPartners == {Kars, other}

\* A rule that says nothing, and rules that say one thing or two.
Open == [closed |-> FALSE, cta |-> FALSE, ctd |-> FALSE, stop |-> FALSE, minLos |-> Unset, maxLos |-> Unset,
         minLosArrival |-> Unset, maxLosArrival |-> Unset, minAdvance |-> Unset, maxAdvance |-> Unset]
MCBodies ==
  {Open,
   [Open EXCEPT !.closed = TRUE, !.cta = TRUE, !.ctd = TRUE, !.maxLosArrival = 1],
   [Open EXCEPT !.minLosArrival = 2],
   [Open EXCEPT !.minLos = 2, !.minLosArrival = 1, !.minAdvance = 1]}
MCGridBodies ==
  {[total |-> Unset, blocked |-> 1, stop |-> Unset],
   [total |-> Unset, blocked |-> Unset, stop |-> TRUE]}

Line(label, words) == [label |-> label, words |-> words]
\* A text from before the editor, with words of two dictionaries and the hotel's own;
\* and what is typed: words a dictionary knows, lines that sound like a section.
Text == INSTANCE HotelAbout WITH Lists <- {"infrastructure", "rooms"},
  Means <- [infrastructure |-> "park" :> "park" @@ "sad" :> "park", rooms |-> "tv" :> "tv"],
  Pages <- Workers, NoPage <- None, MaxSteps <- 3,
  Texts <- {<<Line("laundry", <<"neither">>), Line("infrastructure", <<"sad", "mine">>), Line("other", <<"mine">>)>>},
  TypedWords <- {<<"sad", "mine">>, <<"both">>},
  TypedLines <- {<<Line("free", <<"ad">>), Line("rooms", <<"tv">>)>>, <<Line("laundry", <<"laundry">>)>>},
  stored <- text

\* An empty book, or a booking of the partner's before and after the arrival.  One
\* call at a time looks for a room; of the others, orders of meals may cross.
OurRow(status) ==
  [room |-> r1, place |-> 1, from |-> 0, to |-> 2, guests |-> 1, status |-> status, partner |-> TRUE, version |-> 1]
Empty == b1 :> Nothing @@ b2 :> Nothing
MCStarts == {Empty, [Empty EXCEPT ![b1] = OurRow("CONFIRMED")], [Empty EXCEPT ![b1] = OurRow("CHECKED_IN")]}
MCNumber == r1 :> 1 @@ r2 :> 2
MCCapacity == r1 :> 2 @@ r2 :> 1
Alone(w) == \A v \in Workers \ {w} : call[v] = Nothing
AtMeals(w) == \A v \in Workers \ {w} :
  call'[v] # Nothing /\ call'[w] # Nothing => call'[v].op = "meals" /\ call'[w].op = "meals"

\* One page at a time is used, for one day, and a tariff's rule is a short one.
OfOneDay ==
  /\ \E k \in Desks : \A j \in Desks \ {k} : seen'[j] = {} /\ dialog'[j] = Closed /\ desk'[j] = Unset
  /\ \A k \in Desks : dialog'[k] # Closed => dialog'[k].day = 1
  /\ \A r \in rules' : r.day = 1 /\ (r.plan # Unset => r.says = [Open EXCEPT !.minLosArrival = 2])

\* Bounds of the page of prices: two prices in a list of seasons, which is worked at before
\* anything is saved; one among the standard prices, one day of the calendar; on a screen
\* that waits only the calendar is worked in.  The last request of all is sent from
\* lists that are up to date, and nothing is typed after it.
Rests(d) == panel'[d] \in {panel[d], Opened(panel'[d].tab, loaded'[d])}
Few ==
  \A d \in Screens :
    /\ panel'[d].tab = "standard" => Cardinality({c \in Columns : panel'[d].draft[c] > 0}) <= 1
    /\ panel'[d].tab = "seasons" =>
         Cardinality({x \in (DOMAIN panel'[d].list) \X Columns : panel'[d].list[x[1]].prices[x[2]] > 0}) <= 2
    /\ panel'[d].tab = "calendar" => Cardinality(DOMAIN panel'[d].pending) <= 1
    /\ panel'[d].tab # "calendar" /\ (sending'[d] # None \/ (panel'[d].tab = "seasons" /\ writes > 0)) => Rests(d)
    /\ writes = MaxWrites => Rests(d) \/ (sending[d] # None /\ sending'[d] = None)
    /\ writes' = MaxWrites => writes = MaxWrites \/ loaded[d] = tables

sheetVars == <<contractVars, today>>
textVars == <<text, page, last, steps>>
ownVars == <<sheetVars, textVars>>
sellingVars == <<planVars, calendarVars, ownVars, deskVars, editorVars, scene>>
MCInit ==
  /\ scene \in Scenes
  /\ PlansInit /\ CalendarInit /\ Contracts!SheetsInit /\ Text!AboutInit /\ DeskInit /\ EditorInit
  /\ scene \notin {"rooms", "stays"} => rows = Empty /\ ~multiPlace
  /\ scene # "text" => text.tags = {}
  /\ scene # "prices" => ofPartner
MCNext ==
  /\ UNCHANGED scene
  /\ \/ scene = "tariffs" /\ PlansNext /\ UNCHANGED <<calendarVars, ownVars, deskVars, editorVars>>
     \/ /\ scene \in {"rules", "calendar"} /\ UNCHANGED <<planVars, ownVars, deskVars, editorVars>>
        /\ \/ scene = "rules" /\ RulesNext /\ UNCHANGED <<seen, dialog>>
           \/ scene = "calendar" /\ CalendarStep /\ OfOneDay
     \/ /\ scene \in {"sheets", "slices"} /\ UNCHANGED <<planVars, calendarVars, textVars, deskVars, editorVars>>
        /\ \/ scene = "sheets" /\ Contracts!SheetsStep
           \/ scene = "slices" /\ (TariffsStep \/ \E doc \in Sliced : PutContractPrices(doc)) /\ UNCHANGED today
     \/ scene = "text" /\ Text!AboutStep /\ UNCHANGED <<planVars, calendarVars, sheetVars, deskVars, editorVars>>
     \/ scene = "prices" /\ EditorStep /\ Few /\ UNCHANGED <<planVars, calendarVars, ownVars, deskVars>>
     \/ /\ scene \in {"rooms", "stays"} /\ UNCHANGED <<planVars, calendarVars, ownVars, editorVars>>
        /\ \/ HotelStep /\ (scene = "rooms" => changes = 0)
           \/ \E w \in Calls : scene = "rooms" /\ Alone(w) /\ FindingStep(w)
           \/ \E w \in Calls : scene = "stays" /\ KeepingStep(w) /\ AtMeals(w)
MCSpec == MCInit /\ [][MCNext]_sellingVars

Alike == Permutations(Plans) \cup Permutations(Workers) \cup Permutations(Desks)

\* The properties of the contract and of the text, under the names they have in their
\* modules; what is said of the prices of a contract is looked at where it changes.
ContractIsFilledIn == scene = "sheets" => Contracts!CellsAreRight /\ Contracts!FilledIsContract
NothingIsLost == Text!NothingIsLost
EditIsSaved == Text!EditIsSaved
=============================================================================
