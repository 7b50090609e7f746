---------------------------- MODULE PartnerDesk -----------------------------
(***************************************************************************)
(* A dispatcher of the partner at work (ConnectivityService): asks what is *)
(* free, books a room of the list or leaves the choice to the hotel,       *)
(* changes and cancels the booking, reports arrivals and departures, and   *)
(* orders meals by the day.  A call is several transactions: it reads in   *)
(* one and acts on that in the next, while other calls and the hotel's own *)
(* people do the same.  Each transaction is a step here, the two halves of *)
(* an order of meals apart; what happens between the statements of the     *)
(* others is the subject of module Reservations, tariffs and prices are    *)
(* that of CorporateTariff.  One category of rooms.                        *)
(***************************************************************************)
EXTENDS RoomPlaces

CONSTANTS
  Rooms,
  DoorNumber,    \* DoorNumber[r]: the number on the door, by which rooms are chosen
  Capacity,
  MaxOccupancy,  \* guests a booking of the category may have
  Bookings,
  Calls,         \* calls of the partner under way at a time
  PartySizes,    \* numbers of guests asked for
  Orders,        \* sets of days meals are ordered for
  Starts,        \* the book the model begins with
  Horizon,
  Nothing,
  MaxChanges     \* bound: changes of the book and of the rooms

VARIABLES
  multiPlace,  \* does the hotel sell places?
  open,        \* active rooms
  shut,        \* nights a rule or the grid takes the category off sale
  rows,        \* rows[b]: the booking, or Nothing
  meals,       \* days with portions, each with the days it was ordered with
  call,        \* call[w]: the call of the partner, or Nothing
  mixed,       \* bookings two orders of meals were under way for at once
  changes

Dates == 0..Horizon
Visits == {s \in [from : Dates, to : Dates] : s.from < s.to}
RowStatuses == {"NEW", "CONFIRMED", "CHECKED_IN", "CHECKED_OUT", "CANCELLED", "NO_SHOW"}
\* A row of the book.
BookRow ==
  [room : Rooms, place : Int, from : Dates, to : Dates, guests : PartySizes,
   status : RowStatuses, partner : BOOLEAN, version : Nat]

ASSUME DeskAssumption ==
  /\ Nothing \notin Rooms \cup Bookings
  /\ DoorNumber \in [Rooms -> Nat] /\ Capacity \in [Rooms -> Nat]
  /\ MaxOccupancy \in Nat /\ PartySizes \subseteq Nat \ {0}
  /\ Starts \subseteq [Bookings -> BookRow \cup {Nothing}]

deskVars == <<multiPlace, open, shut, rows, meals, call, mixed, changes>>

Booked == {b \in Bookings : rows[b] # Nothing}
OfPartner == {b \in Booked : rows[b].partner}

DeskInit ==
  /\ multiPlace \in BOOLEAN
  /\ open = Rooms /\ shut = {}
  /\ rows \in Starts
  /\ meals = {} /\ mixed = {}
  /\ call = [w \in Calls |-> Nothing]
  /\ changes = 0

-----------------------------------------------------------------------------
(***************************************************************************)
(* Two places ask who holds a room: the partner's list and choice of rooms *)
(* (roomsFitByPlaces), and the book itself (overlapping).                  *)
(***************************************************************************)
Released == {"CANCELLED", "NO_SHOW"}
Crosses(b, s) == rows[b].from < s.to /\ rows[b].to > s.from
HoldersAmong(bs, room) ==
  {[place |-> rows[b].place, guests |-> rows[b].guests] : b \in {x \in bs : rows[x].room = room}}

\* Slip: a guest who has left holds nothing.
SlipPartnerHolders(room, s) ==
  HoldersAmong({b \in Booked : Crosses(b, s) /\ rows[b].status \notin Released \cup {"CHECKED_OUT"}}, room)
PartnerHolders(room, s) == HoldersAmong({b \in Booked : Crosses(b, s) /\ rows[b].status \notin Released}, room)
RoomFitsByPlaces(room, s, guests) == roomFits(Capacity[room], multiPlace, guests, PartnerHolders(room, s))

Overlapping(room, s, self) ==
  HoldersAmong({b \in Booked \ {self} : Crosses(b, s) /\ rows[b].status \notin Released}, room)
Allocated(room, s, guests, self) == allocatePlace(Capacity[room], multiPlace, guests, Overlapping(room, s, self))

\* Rooms to sell on a night: those of the grid less those booked there.  Nothing
\* ever writes a booking into the grid, so none is taken away.
Available(night) == IF night \in shut THEN 0 ELSE Cardinality(open)
Offered(s, guests) == guests <= MaxOccupancy /\ \A n \in s.from..(s.to - 1) : Available(n) >= 1
ListedFree(s) == {r \in open : RoomFitsByPlaces(r, s, 1)}

-----------------------------------------------------------------------------
(* What a step leaves behind in the calls under way *)

\* The book or the rooms have changed: what the others were shown is old.
Outdated == [w \in Calls |-> IF call[w] # Nothing /\ call[w].op = "book" THEN [call[w] EXCEPT !.fresh = FALSE] ELSE call[w]]
Puts(w, c) == call' = [call EXCEPT ![w] = c]
Refused(w) == Puts(w, [call[w] EXCEPT !.step = "refused"])
AtStep(w, op, step) == call[w] # Nothing /\ call[w].op = op /\ call[w].step = step
Reads == UNCHANGED <<multiPlace, open, shut, rows, meals, mixed, changes>>
Changes == changes < MaxChanges /\ changes' = changes + 1

\* The row is written, and the call of w, if it is of one, is answered.
Wrote(b, row) == rows' = [rows EXCEPT ![b] = row] /\ Changes /\ UNCHANGED <<multiPlace, open, shut, meals, mixed>>
EndsCall(w) == call' = [Outdated EXCEPT ![w] = Nothing]

-----------------------------------------------------------------------------
(* Finding a room *)

\* availabilityFor: an offer of the category with its rooms, or none.
Ask(w, s, guests) ==
  /\ call[w] = Nothing
  /\ Puts(w, [op |-> "book", step |-> "shown", stay |-> s, guests |-> guests, room |-> Nothing,
              rooms |-> IF Offered(s, guests) THEN ListedFree(s) ELSE {}, fresh |-> TRUE])
  /\ Reads

\* createReservation names a room, or none.
Book(w, room) ==
  /\ AtStep(w, "book", "shown")
  /\ IF call[w].guests > MaxOccupancy THEN Refused(w)
     ELSE Puts(w, [call[w] EXCEPT !.step = "choose", !.room = room])
  /\ Reads

\* resolvePinnedRoom.
PinnedFits(w) == call[w].room \in open /\ RoomFitsByPlaces(call[w].room, call[w].stay, call[w].guests)
\* pickAvailableRoom: by number the first that takes the party.
Fitting(w) == {r \in open : RoomFitsByPlaces(r, call[w].stay, call[w].guests)}
FirstByNumber(S) == CHOOSE r \in S : \A q \in S : DoorNumber[r] <= DoorNumber[q]

ChooseRoom(w) ==
  /\ AtStep(w, "book", "choose")
  /\ \/ call[w].room # Nothing /\ PinnedFits(w) /\ Puts(w, [call[w] EXCEPT !.step = "create"])
     \/ /\ call[w].room = Nothing /\ Fitting(w) # {}
        /\ Puts(w, [call[w] EXCEPT !.step = "create", !.room = FirstByNumber(Fitting(w))])
     \/ /\ IF call[w].room # Nothing THEN ~PinnedFits(w) ELSE Fitting(w) = {}
        /\ Refused(w)
  /\ Reads

Fresh(room, place, s, guests, partner) ==
  [room |-> room, place |-> place, from |-> s.from, to |-> s.to, guests |-> guests,
   status |-> "CONFIRMED", partner |-> partner, version |-> 1]

\* create, in a transaction of its own.
CreateReservation(w) ==
  LET place == Allocated(call[w].room, call[w].stay, call[w].guests, Nothing)
  IN /\ AtStep(w, "book", "create")
     /\ IF call[w].room \in open /\ place # NoPlace
        THEN \E b \in Bookings \ Booked :
               /\ Wrote(b, Fresh(call[w].room, place, call[w].stay, call[w].guests, TRUE))
               /\ EndsCall(w)
        ELSE Refused(w) /\ Reads

-----------------------------------------------------------------------------
(***************************************************************************)
(* A booking of its own.  Each call looks at it first (getReservation).    *)
(***************************************************************************)
FactFrom == [CHECKED_IN |-> {"NEW", "CONFIRMED"}, CHECKED_OUT |-> {"CHECKED_IN"}]
Done == [CHECKED_IN |-> {"CHECKED_IN", "CHECKED_OUT"}, CHECKED_OUT |-> {"CHECKED_OUT"}]

\* updateReservation: where none is named, the version is that of now.
LookToChange(w, b, room, s) ==
  /\ call[w] = Nothing /\ b \in OfPartner
  /\ Puts(w, [op |-> "change", step |-> "write", b |-> b, version |-> rows[b].version, room |-> room, stay |-> s])
  /\ Reads

\* The place the booking gets: its own if that is free, else the first there is.
Resolved(b, room, s) ==
  LET row == rows[b]
      stays == room = row.room
               /\ spanFree(row.place, Capacity[room], multiPlace, row.guests, Overlapping(room, s, b))
  IN IF stays THEN row.place ELSE Allocated(room, s, row.guests, b)
Moved(b, room, s) ==
  [rows[b] EXCEPT !.room = room, !.from = s.from, !.to = s.to,
                  !.place = Resolved(b, room, s), !.version = @ + 1]
MayMove(b, room, s) == room \in open /\ Resolved(b, room, s) # NoPlace

Change(w) ==
  LET c == call[w]
      room == IF c.room = Nothing THEN rows[c.b].room ELSE c.room
  IN /\ AtStep(w, "change", "write")
     /\ IF rows[c.b].version = c.version /\ MayMove(c.b, room, c.stay)
        THEN Wrote(c.b, Moved(c.b, room, c.stay)) /\ EndsCall(w)
        ELSE Refused(w) /\ Reads

\* recordStayFact: what is done already is answered at once.
LookToReport(w, b, fact) ==
  /\ call[w] = Nothing /\ b \in OfPartner
  /\ rows[b].status \notin Done[fact]
  /\ Puts(w, [op |-> "fact", step |-> "write", b |-> b, fact |-> fact, owes |-> FALSE])
  /\ Reads

WithStatus(b, status) == [rows[b] EXCEPT !.status = status, !.version = @ + 1]

\* recordFact; of a departure the folio may say that something is owed.
RecordFact(w) ==
  LET c == call[w]
  IN /\ AtStep(w, "fact", "write")
     /\ \/ rows[c.b].status \in FactFrom[c.fact] /\ Wrote(c.b, WithStatus(c.b, c.fact)) /\ EndsCall(w)
        \/ rows[c.b].status \notin FactFrom[c.fact] /\ Refused(w) /\ Reads
        \/ /\ c.fact = "CHECKED_OUT" /\ rows[c.b].status = "CHECKED_IN"
           /\ Puts(w, [c EXCEPT !.step = "refused", !.owes = TRUE]) /\ Reads

\* cancelReservation looks only whose the booking is.
MayCancel(b) == rows[b].status \notin {"CANCELLED", "CHECKED_OUT"}
CancelReservation(w, b) ==
  /\ call[w] = Nothing /\ b \in OfPartner /\ MayCancel(b)
  /\ Wrote(b, WithStatus(b, "CANCELLED")) /\ call' = Outdated

\* setReservationMeals: days of the stay as it is now, the day of departure with them.
LookToOrder(w, b, days) ==
  /\ call[w] = Nothing /\ b \in OfPartner
  /\ days \subseteq rows[b].from..rows[b].to
  /\ Puts(w, [op |-> "meals", step |-> "erase", b |-> b, days |-> days, erased |-> {}])
  /\ mixed' = IF \E v \in Calls : call[v] # Nothing /\ call[v].op = "meals" /\ call[v].b = b /\ call[v].step # "refused"
              THEN mixed \cup {b} ELSE mixed
  /\ UNCHANGED <<multiPlace, open, shut, rows, meals, changes>>

\* Slip: the new order is added to the old one.
SlipErased(b) == {}
\* deleteMany sees the rows that are committed.
Erased(b) == {m \in meals : m.b = b}
EraseMeals(w) ==
  /\ AtStep(w, "meals", "erase")
  /\ Puts(w, [call[w] EXCEPT !.step = "insert", !.erased = Erased(call[w].b)])
  /\ Reads

\* createMany and COMMIT; a day that has a row already is refused by the index.
InsertMeals(w) ==
  LET c == call[w]
      kept == meals \ c.erased
      ordered == {[b |-> c.b, day |-> d, order |-> c.days] : d \in c.days}
      twice == \E m \in kept : m.b = c.b /\ m.day \in c.days
  IN /\ AtStep(w, "meals", "insert")
     /\ meals' = IF twice THEN meals ELSE kept \cup ordered
     /\ IF twice THEN Refused(w) ELSE Puts(w, Nothing)
     /\ UNCHANGED <<multiPlace, open, shut, rows, mixed, changes>>

\* The dispatcher reads the answer, or puts the list away.
Ends(w) ==
  /\ call[w] # Nothing /\ call[w].step \in {"shown", "refused"}
  /\ Puts(w, Nothing)
  /\ Reads

\* getMealsForDay: what the kitchen cooks.
Cooked(day) == {m \in meals : m.day = day /\ rows[m.b].status \notin Released}

-----------------------------------------------------------------------------
(* The hotel's own people *)

HotelBooks(b, room, s, guests) ==
  /\ b \notin Booked /\ room \in open
  /\ Allocated(room, s, guests, Nothing) # NoPlace
  /\ Wrote(b, Fresh(room, Allocated(room, s, guests, Nothing), s, guests, FALSE)) /\ call' = Outdated
HotelMoves(b, room, s) ==
  /\ b \in Booked /\ MayMove(b, room, s)
  /\ Wrote(b, Moved(b, room, s)) /\ call' = Outdated
HotelReports(b, fact) ==
  /\ b \in Booked /\ rows[b].status \in FactFrom[fact]
  /\ Wrote(b, WithStatus(b, fact)) /\ call' = Outdated
HotelCancels(b) ==
  /\ b \in Booked \ OfPartner /\ MayCancel(b)
  /\ Wrote(b, WithStatus(b, "CANCELLED")) /\ call' = Outdated
\* A room is archived when nobody is expected in it, and restored.
RoomCloses(room) ==
  /\ room \in open
  /\ \A b \in Booked : rows[b].room = room => rows[b].status \in Released \cup {"CHECKED_OUT"}
  /\ open' = open \ {room} /\ call' = Outdated /\ Changes
  /\ UNCHANGED <<multiPlace, shut, rows, meals, mixed>>
RoomOpens(room) ==
  /\ room \notin open
  /\ open' = open \cup {room} /\ call' = Outdated /\ Changes
  /\ UNCHANGED <<multiPlace, shut, rows, meals, mixed>>
Shuts(night) ==
  /\ night < Horizon
  /\ shut' = (shut \ {night}) \cup ({night} \ shut)
  /\ Changes
  /\ UNCHANGED <<multiPlace, open, rows, meals, call, mixed>>

HotelStep ==
  \/ \E b \in Bookings : \/ \E room \in Rooms, s \in Visits : HotelMoves(b, room, s) \/ \E g \in PartySizes : HotelBooks(b, room, s, g)
                         \/ (\E fact \in DOMAIN FactFrom : HotelReports(b, fact))
                         \/ HotelCancels(b)
  \/ \E room \in Rooms : RoomCloses(room) \/ RoomOpens(room)
  \/ \E night \in Dates : Shuts(night)

\* The two matters of a dispatcher: finding a room, and the bookings there are.
FindingStep(w) ==
  \/ (\E s \in Visits, guests \in PartySizes : Ask(w, s, guests))
  \/ (\E room \in Rooms \cup {Nothing} : Book(w, room))
  \/ ChooseRoom(w) \/ CreateReservation(w) \/ Ends(w)
KeepingStep(w) ==
  \/ \E b \in Bookings : \/ \E room \in Rooms \cup {Nothing}, s \in Visits : LookToChange(w, b, room, s)
                         \/ (\E fact \in DOMAIN FactFrom : LookToReport(w, b, fact))
                         \/ (\E days \in Orders : LookToOrder(w, b, days))
                         \/ CancelReservation(w, b)
  \/ Change(w) \/ RecordFact(w) \/ EraseMeals(w) \/ InsertMeals(w) \/ Ends(w)

DeskStep == HotelStep \/ \E w \in Calls : FindingStep(w) \/ KeepingStep(w)
DeskSpec == DeskInit /\ [][DeskStep]_deskVars

-----------------------------------------------------------------------------
(***************************************************************************)
(* A room the partner was shown as free is refused to a party it has place *)
(* for only if something changed in the house since: the list, the choice  *)
(* of a room and the booking count its holders alike.                      *)
(***************************************************************************)
RefusedOnlyIfChanged ==
  \A w \in Calls : AtStep(w, "book", "refused") =>
    LET c == call[w]
        shown == IF c.room = Nothing THEN c.rooms # {} ELSE c.room \in c.rooms
    IN shown /\ c.guests <= MaxOccupancy /\ (c.guests = 1 \/ ~multiPlace) => ~c.fresh

(***************************************************************************)
(* "A replacement, not an addition: a booking has one order of meals" --   *)
(* unless two were sent for it at once.                                    *)
(***************************************************************************)
MealsAreOneOrder ==
  \A m, n \in meals : m.b = n.b /\ m.b \notin mixed => m.order = n.order

(***************************************************************************)
(* "available: rooms that can be booked": no more of them on a night than  *)
(* have a place free.                                                      *)
(***************************************************************************)
AvailableCanBeBooked ==
  \A n \in 0..(Horizon - 1) : Available(n) <= Cardinality(ListedFree([from |-> n, to |-> n + 1]))

(***************************************************************************)
(* "Dates outside the stay are not accepted: one day those portions would   *)
(* be cooked": nothing is cooked for a day the guest is not there.         *)
(***************************************************************************)
CookedForTheStay == \A d \in Dates : \A m \in Cooked(d) : d \in rows[m.b].from..rows[m.b].to

(***************************************************************************)
(* "A repeat is no error": a report of what has been recorded is refused   *)
(* for nothing but what is owed.                                           *)
(***************************************************************************)
RepeatIsNoError ==
  \A w \in Calls : AtStep(w, "fact", "refused") => call[w].owes \/ rows[call[w].b].status \notin Done[call[w].fact]
=============================================================================
