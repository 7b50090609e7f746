------------------------------ MODULE Chessboard ------------------------------
(***************************************************************************)
(* The chessboard at the desk: a booking is dragged to other days, another *)
(* place or another room, or opened in a form; what the dialog or the form *)
(* shows is confirmed and sent.  A screen acts on the bookings it loaded   *)
(* last.  A request is one step here: what happens inside it is in         *)
(* Reservations.                                                           *)
(***************************************************************************)
EXTENDS RoomPlaces
LOCAL INSTANCE FiniteSetsExt

CONSTANTS
  Bookings, Rooms, Desks, Nil,
  Capacity, Rack,  \* Rooms -> places, price of a night of the room's category
  Starts,          \* what the hotel may have at first: Bookings -> row or Nil
  Contacts, Blank, \* telephone numbers typed into a form, the empty one
  LastDay, MaxChanges \* bounds: the calendar, changes of all bookings

VARIABLES
  multiPlace, \* the hotel sells places
  stays,      \* Bookings -> Nil, or [room, place, from, to, guests, status, price, contact, version]
  board,      \* Desks -> stays, as the screen loaded them last
  hand        \* Desks -> Nil, or what is dragged, asked, or open in the form

boardVars == <<multiPlace, stays, board, hand>>

Shown == {"CONFIRMED", "CHECKED_IN", "CHECKED_OUT"}
StayRow ==
  [room : Rooms, place : Int, from : Int, to : Int, guests : Nat \ {0}, status : Shown \cup {"CANCELLED"},
   price : Int \cup {Nil}, contact : STRING, version : Nat]

ASSUME BoardAssumption ==
  /\ Nil \notin Bookings /\ Nil \notin Int /\ Nil \notin STRING /\ Nil \notin StayRow
  /\ Capacity \in [Rooms -> Nat] /\ Rack \in [Rooms -> Nat]
  /\ Starts \subseteq [Bookings -> StayRow \cup {Nil}]
  /\ Contacts \subseteq STRING /\ Blank \in STRING /\ LastDay \in Nat

Crosses(row, from, to) == row.from < to /\ row.to > from

\* The bookings of a list that hold a place of the room on these nights.
Overlapping(list, room, from, to, except) ==
  {list[i] : i \in {i \in Bookings \ {except} :
     list[i] # Nil /\ list[i].room = room /\ list[i].status \in Shown /\ Crosses(list[i], from, to)}}

Doing(d, s) == hand[d] # Nil /\ hand[d].at = s
Takes(d, what) == hand' = [hand EXCEPT ![d] = what]
Lets(d) == hand' = [hand EXCEPT ![d] = Nil]

BoardInit ==
  /\ multiPlace \in BOOLEAN
  /\ stays \in {s \in Starts : ~multiPlace => \A i \in Bookings : s[i] # Nil =>
                 s[i].place = 1 /\ Overlapping(s, s[i].room, s[i].from, s[i].to, i) = {}}
  /\ board = [d \in Desks |-> stays]
  /\ hand = [d \in Desks |-> Nil]

Load(d) ==
  /\ board' = [board EXCEPT ![d] = stays]
  /\ UNCHANGED <<multiPlace, stays, hand>>

(***************************************************************************)
(* The server.                                                             *)
(***************************************************************************)
Places(room, from, to, except) ==
  {[place |-> o.place, guests |-> o.guests] : o \in Overlapping(stays, room, from, to, except)}
Allocated(room, from, to, guests, except) ==
  allocatePlace(Capacity[room], multiPlace, guests, Places(room, from, to, except))
Free(place, room, from, to, b) ==
  spanFree(place, Capacity[room], multiPlace, stays[b].guests, Places(room, from, to, b))

\* The place a change gets: the one named, if it is free, or the one it has, or any.
Resolved(b, c) ==
  IF c.place # Nil THEN (IF Free(c.place, c.room, c.from, c.to, b) THEN c.place ELSE NoPlace)
  ELSE IF c.room = stays[b].room /\ Free(stays[b].place, c.room, c.from, c.to, b) THEN stays[b].place
  ELSE Allocated(c.room, c.from, c.to, stays[b].guests, b)

MayChange(n) == n + MapThenSumSet(LAMBDA b : stays[b].version, {b \in Bookings : stays[b] # Nil}) <= MaxChanges

Accepts(b, seen, c) == stays[b].version = seen /\ c.from < c.to /\ Resolved(b, c) # NoPlace

Update(b, seen, c) ==
  /\ Accepts(b, seen, c) /\ MayChange(1)
  /\ stays' = [stays EXCEPT ![b] =
       [stays[b] EXCEPT !.room = c.room, !.from = c.from, !.to = c.to, !.place = Resolved(b, c),
                        !.price = IF c.price = Nil THEN stays[b].price ELSE c.price,
                        !.contact = IF c.contact = Nil THEN stays[b].contact ELSE c.contact,
                        !.version = stays[b].version + 1]]

Swaps(a, seenA, b, seenB) ==
  /\ stays[a].version = seenA /\ stays[b].version = seenB /\ stays[a].room = stays[b].room
  /\ MayChange(2)
  /\ stays' = [stays EXCEPT ![a].place = stays[b].place, ![a].version = @ + 1,
                          ![b].place = stays[a].place, ![b].version = @ + 1]

(***************************************************************************)
(* Dragging.                                                               *)
(***************************************************************************)
\* A copy of the booking is taken up; one that left is only looked at.
HandleBookingMouseDown(d, b, type) ==
  /\ hand[d] = Nil /\ board[d][b] # Nil /\ board[d][b].status \in Shown \ {"CHECKED_OUT"}
  /\ Takes(d, [at |-> "drag", id |-> b, was |-> board[d][b], type |-> type])
  /\ UNCHANGED <<multiPlace, stays, board>>

\* Where the mouse can leave it: moved by whole days, with the place under the mouse
\* or, over a room that is folded up, its own; or longer or shorter at one end.
Ghosts(was, type) ==
  LET nights == was.to - was.from
  IN IF type = "move"
     THEN {[room |-> r, place |-> p, from |-> f, to |-> f + nights] :
             r \in Rooms, p \in {was.place} \cup UNION {1 .. Capacity[s] : s \in Rooms}, f \in 0 .. LastDay - nights}
     ELSE IF type = "resize-right"
     THEN {[room |-> was.room, place |-> was.place, from |-> was.from, to |-> t] : t \in was.from + 1 .. LastDay}
     ELSE {[room |-> was.room, place |-> was.place, from |-> f, to |-> was.to] : f \in 0 .. was.to - 1}
Reachable(was, g) == g.place = was.place \/ g.place <= Capacity[g.room]

\* A place that is taken is changed for the first free one, not its own; in its own
\* room, when there is none, a swap is offered; in another the server will refuse.
Dropped(d, g) ==
  LET was == hand[d].was
      there == Overlapping(board[d], g.room, g.from, g.to, hand[d].id)
      free == {p \in 1 .. Capacity[g.room] :
                 p \notin {o.place : o \in there} /\ ~(g.room = was.room /\ p = was.place)}
  IN IF hand[d].type # "move" \/ g.place \notin {o.place : o \in there} THEN [place |-> g.place, swap |-> FALSE]
     ELSE IF free # {} THEN [place |-> First(free), swap |-> FALSE]
     ELSE [place |-> g.place, swap |-> g.room = was.room /\ g.place # was.place]
\* The booking to swap with: one that holds the place.
Occupants(d, g) ==
  {i \in Bookings \ {hand[d].id} : board[d][i] # Nil
     /\ board[d][i] \in Overlapping(board[d], g.room, g.from, g.to, hand[d].id) /\ board[d][i].place = g.place}

HandleMouseUp(d, g) ==
  /\ Doing(d, "drag") /\ g \in Ghosts(hand[d].was, hand[d].type) /\ Reachable(hand[d].was, g)
  /\ LET was == hand[d].was
         to == Dropped(d, g)
         shown == [g EXCEPT !.place = to.place]
     IN IF shown = [room |-> was.room, place |-> was.place, from |-> was.from, to |-> was.to]
        THEN Lets(d)
        ELSE \E i \in IF to.swap THEN Occupants(d, g) ELSE {Nil} :
               Takes(d, [at |-> "confirm", id |-> hand[d].id, was |-> was, shown |-> shown,
                         swap |-> i, swapVersion |-> IF i = Nil THEN 0 ELSE board[d][i].version])
  /\ UNCHANGED <<multiPlace, stays, board>>

\* As if the place were always named.
SlipPatch(h) == [room |-> h.shown.room, from |-> h.shown.from, to |-> h.shown.to,
  place |-> h.was.place, price |-> Nil, contact |-> Nil]
\* Only what changed is sent; a place is named only if its number changed.
Patch(h) == [room |-> h.shown.room, from |-> h.shown.from, to |-> h.shown.to,
  place |-> IF h.shown.place = h.was.place THEN Nil ELSE h.shown.place, price |-> Nil, contact |-> Nil]

\* Refused, the dialog stays with the same version.
ConfirmDrag(d) ==
  /\ Doing(d, "confirm")
  /\ LET h == hand[d]
     IN IF h.swap = Nil THEN Update(h.id, h.was.version, Patch(h))
        ELSE Swaps(h.id, h.was.version, h.swap, h.swapVersion)
  /\ Lets(d)
  /\ UNCHANGED <<multiPlace, board>>
\* Also while the request is under way.
CancelDrag(d) ==
  /\ Doing(d, "confirm") /\ Lets(d)
  /\ UNCHANGED <<multiPlace, stays, board>>

(***************************************************************************)
(* The form.                                                               *)
(***************************************************************************)
OpenEditForm(d, b) ==
  /\ hand[d] = Nil /\ board[d][b] # Nil /\ board[d][b].status \in Shown
  /\ LET was == board[d][b]
     IN Takes(d, [at |-> "form", id |-> b, was |-> was, room |-> was.room, from |-> was.from, to |-> was.to,
                  contact |-> was.contact, status |-> was.status])
  /\ UNCHANGED <<multiPlace, stays, board>>
\* Days marked on the grid open the form of a new booking.
OpenNewForm(d, b, room, from, to) ==
  /\ hand[d] = Nil /\ stays[b] = Nil /\ from < to
  /\ \A e \in Desks : hand[e] # Nil => hand[e].id # b
  /\ Takes(d, [at |-> "form", id |-> b, was |-> Nil, room |-> room, from |-> from, to |-> to,
               contact |-> Blank, status |-> "CONFIRMED"])
  /\ UNCHANGED <<multiPlace, stays, board>>
FormChanged(f) ==
  f.room # f.was.room \/ f.from # f.was.from \/ f.to # f.was.to \/ f.contact # f.was.contact
\* All that is typed before the form is sent.
EditForm(d, room, from, to, contact) ==
  /\ Doing(d, "form") /\ hand[d].was # Nil /\ ~FormChanged(hand[d])
  /\ Takes(d, [hand[d] EXCEPT !.room = room, !.from = from, !.to = to, !.contact = contact])
  /\ UNCHANGED <<multiPlace, stays, board>>
CloseForm(d) ==
  /\ Doing(d, "form") /\ Lets(d)
  /\ UNCHANGED <<multiPlace, stays, board>>

\* All places of the room are held, as far as the screen knows; dates in a wrong
\* order are no conflict, the server refuses them.
GetConflict(d, room, from, to, except) ==
  /\ from < to
  /\ Cardinality({o.place : o \in Overlapping(board[d], room, from, to, except)}) >= Capacity[room]
CanSave(d) == ~GetConflict(d, hand[d].room, hand[d].from, hand[d].to, hand[d].id)

SlipTotalPrice(f) == (IF f.to > f.from THEN f.to - f.from ELSE 0) * Rack[f.room]
\* What the booking has, so long as its room and its dates are what they were.
TotalPrice(f) ==
  IF f.was # Nil /\ f.was.price # Nil /\ f.room = f.was.room /\ f.from = f.was.from /\ f.to = f.was.to
  THEN f.was.price
  ELSE (IF f.to > f.from THEN f.to - f.from ELSE 0) * Rack[f.room]

\* Everything is sent but the place; a price of nothing and an emptied telephone are
\* not sent, and stay.
HandleFormSave(d) ==
  /\ Doing(d, "form") /\ CanSave(d)
  /\ LET f == hand[d]
         c == [room |-> f.room, from |-> f.from, to |-> f.to, place |-> Nil,
               price |-> IF TotalPrice(f) = 0 THEN Nil ELSE TotalPrice(f),
               contact |-> IF f.contact = Blank THEN Nil ELSE f.contact]
     IN IF f.was # Nil THEN Update(f.id, f.was.version, c)
        ELSE LET place == Allocated(c.room, c.from, c.to, 1, f.id)
             IN /\ c.from < c.to /\ place # NoPlace /\ MayChange(1)
                /\ stays' = [stays EXCEPT ![f.id] = [room |-> c.room, place |-> place, from |-> c.from, to |-> c.to,
                     guests |-> 1, status |-> "CONFIRMED", price |-> c.price, contact |-> f.contact, version |-> 1]]
  /\ Lets(d)
  /\ UNCHANGED <<multiPlace, board>>

\* The two buttons of the form send the id alone.
Becomes(b, status) == stays' = [stays EXCEPT ![b].status = status, ![b].version = @ + 1]
ConfirmCancel(d) ==
  /\ Doing(d, "form") /\ hand[d].was # Nil
  /\ stays[hand[d].id].status \in Shown \ {"CHECKED_OUT"} /\ MayChange(1)
  /\ Becomes(hand[d].id, "CANCELLED") /\ Lets(d)
  /\ UNCHANGED <<multiPlace, board>>
HandleRecordCheckout(d) ==
  /\ Doing(d, "form") /\ hand[d].was # Nil /\ hand[d].was.status = "CHECKED_IN" /\ ~FormChanged(hand[d])
  /\ stays[hand[d].id].status = "CHECKED_IN" /\ MayChange(1)
  /\ Becomes(hand[d].id, "CHECKED_OUT") /\ Lets(d)
  /\ UNCHANGED <<multiPlace, board>>

\* Another screen, or Kars Avia, moves a booking to other nights or calls it off.
Elsewhere(b) ==
  /\ stays[b] # Nil /\ stays[b].status \in Shown \ {"CHECKED_OUT"}
  /\ \/ \E from, to \in 0 .. LastDay :
          Update(b, stays[b].version, [room |-> stays[b].room, from |-> from, to |-> to, place |-> Nil, price |-> Nil, contact |-> Nil])
     \/ MayChange(1) /\ Becomes(b, "CANCELLED")
  /\ UNCHANGED <<multiPlace, board, hand>>

BoardStep == (\E b \in Bookings : Elsewhere(b)) \/ \E d \in Desks :
  \/ Load(d) \/ ConfirmDrag(d) \/ CancelDrag(d)
  \/ CloseForm(d) \/ HandleFormSave(d) \/ ConfirmCancel(d) \/ HandleRecordCheckout(d)
  \/ \E b \in Bookings :
       \/ \E type \in {"move", "resize-left", "resize-right"} : HandleBookingMouseDown(d, b, type)
       \/ OpenEditForm(d, b)
       \/ \E room \in Rooms, from, to \in 0 .. LastDay : OpenNewForm(d, b, room, from, to)
  \/ Doing(d, "drag") /\ \E g \in Ghosts(hand[d].was, hand[d].type) : HandleMouseUp(d, g)
  \/ \E room \in Rooms, from, to \in 0 .. LastDay, contact \in Contacts : EditForm(d, room, from, to, contact)
BoardSpec == BoardInit /\ [][BoardStep]_boardVars

(***************************************************************************)
(* Properties.                                                             *)
(***************************************************************************)
\* What is confirmed is done, to the booking that was shown: a drag that succeeded
\* gives it the room, the nights and, if one was named, the place of the dialog, and
\* leaves price and telephone; a swap exchanges two places and nothing else; a saved
\* form gives it the room, the nights and the telephone it shows, but for a telephone
\* that was emptied. Of a form's price only PriceStays speaks, of its status nothing
\* does; e-mail and notes are not in the model.
ConfirmedIsDone ==
  [][\A d \in Desks : hand[d] # Nil /\ hand'[d] = Nil /\ stays' # stays =>
       LET h == hand[d]
           now == stays'[h.id]
       IN /\ h.at = "confirm" /\ h.swap = Nil =>
               /\ stays[h.id] = h.was
               /\ now.room = h.shown.room /\ now.from = h.shown.from /\ now.to = h.shown.to
               /\ h.shown.place # h.was.place => now.place = h.shown.place
               /\ now.price = h.was.price /\ now.contact = h.was.contact
          /\ h.at = "confirm" /\ h.swap # Nil =>
               /\ stays[h.id] = h.was
               /\ now = [h.was EXCEPT !.place = h.shown.place, !.version = @ + 1]
               /\ stays'[h.swap].place = h.was.place
          /\ h.at = "form" /\ now.status = h.status =>
               /\ h.was # Nil => stays[h.id] = h.was
               /\ now.room = h.room /\ now.from = h.from /\ now.to = h.to
               /\ now.contact # h.contact => h.contact = Blank /\ now.contact = h.was.contact]_boardVars

\* "Opening an existing booking shows its real tariff price and saving it does not
\* overwrite that with the rack rate": an agreed price changes with room or nights only.
PriceStays ==
  [][\A b \in Bookings : stays[b] # Nil /\ stays[b].price # Nil /\ stays'[b].price # stays[b].price =>
       stays'[b].room # stays[b].room \/ stays'[b].from # stays[b].from \/ stays'[b].to # stays[b].to]_boardVars

\* A form on a screen that is up to date refuses nothing the server would take.
NoFalseConflict ==
  \A d \in Desks : Doing(d, "form") /\ board[d] = stays /\ ~CanSave(d) =>
    LET f == hand[d]
    IN IF f.was = Nil THEN Allocated(f.room, f.from, f.to, 1, f.id) = NoPlace
       ELSE Resolved(f.id, [room |-> f.room, from |-> f.from, to |-> f.to, place |-> Nil]) = NoPlace
===============================================================================
