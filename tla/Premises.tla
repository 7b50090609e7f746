------------------------------ MODULE Premises ------------------------------
(***************************************************************************)
(* The rooms of a hotel and their categories.  Nothing is erased: a room   *)
(* or a category goes into the archive, switched off, and a room comes     *)
(* back with its category.  A desk fills a form from what its screen       *)
(* showed; the server checks in one transaction and writes in another.     *)
(***************************************************************************)
EXTENDS FiniteSets, Functions, Naturals, SequencesExt

CONSTANTS
  RoomIds, TypeIds,
  Numbers,   \* room numbers, unique in a hotel, archived rooms included
  Codes,     \* category codes, unique likewise
  Statuses,  \* what a room can be besides "DIRTY"
  Bookings,
  Desks,
  NoRow,
  MaxTails   \* how often one category is archived under one code

VARIABLES
  category,  \* TypeIds -> NoRow or a row
  room,      \* RoomIds -> NoRow or a row
  booking,   \* Bookings -> where, and whether yet to come, live or left
  job,       \* Desks -> NoRow, or the form and its request
  overlapped \* has a request written what another had changed behind its back?

premisesVars == <<category, room, booking, job, overlapped>>

Rows(t) == {x \in DOMAIN t : t[x] # NoRow}
LiveTypes == {c \in Rows(category) : ~category[c].archived}
LiveRooms == {r \in Rows(room) : ~room[r].archived}
\* A code, followed by a tail for each time it was archived and not freed again.  The
\* tail is the time in the code; the category tells two of them apart just as well.
NewType(code) == [code |-> <<code>>, active |-> TRUE, archived |-> FALSE]
NewRoom(n, c, s) == [number |-> n, type |-> c, active |-> TRUE, archived |-> FALSE, status |-> s]
StatusSet == Statuses \cup {"DIRTY"}

PremisesInit ==
  /\ category = [c \in TypeIds |-> NoRow]
  /\ room = [r \in RoomIds |-> NoRow]
  /\ booking = [b \in Bookings |-> [room |-> NoRow, status |-> "none"]]
  /\ job = [d \in Desks |-> NoRow]
  /\ overlapped = FALSE

LiveBooking(r) == \E b \in Bookings : booking[b] = [room |-> r, status |-> "live"]
NumberTaken(n) == \E r \in Rows(room) : room[r].number = n
CodeTaken(code, but) == \E c \in Rows(category) \ {but} : category[c].code = code

\* Desks but d work on with what they saw; d is done.
Ends(d) == [e \in Desks |-> IF e = d \/ job[e] = NoRow THEN NoRow ELSE [job[e] EXCEPT !.fresh = FALSE]]
Outdates == [e \in Desks |-> IF job[e] = NoRow THEN NoRow ELSE [job[e] EXCEPT !.fresh = FALSE]]
Goes(d, j) == job' = [job EXCEPT ![d] = j]
Wrote(d) == /\ job' = Ends(d)
            /\ overlapped' = (overlapped \/ ~job[d].fresh)
Quits(d) == /\ Goes(d, NoRow)
            /\ UNCHANGED <<category, room, booking, overlapped>>
At(d, op, step) == job[d] # NoRow /\ job[d].op = op /\ job[d].step = step
Job(op, step, x, draft) == [op |-> op, step |-> step, of |-> x, draft |-> draft, fresh |-> TRUE]

(***************************************************************************)
(* Forms.  One field of a row is edited at a time; the form sends them all.*)
(***************************************************************************)
Edits(row) ==
  {[row EXCEPT !.number = n] : n \in Numbers}
    \cup {[row EXCEPT !.type = c] : c \in LiveTypes}
    \cup {[row EXCEPT !.status = s] : s \in StatusSet}
NewRows == {NewRoom(n, c, s) : n \in Numbers, c \in LiveTypes, s \in {"CLEAN"}}

OpenRoomForm(d) ==
  /\ job[d] = NoRow
  /\ \E r \in LiveRooms : \E x \in Edits(room[r]) : Goes(d, Job("editRoom", "form", r, x))
  /\ UNCHANGED <<category, room, booking, overlapped>>
OpenNewRooms(d) ==
  /\ job[d] = NoRow
  /\ \/ \E x \in NewRows : Goes(d, Job("newRoom", "form", NoRow, x))
     \/ \E x \in NewRows : Goes(d, Job("newRooms", "form", Numbers, x))
  /\ UNCHANGED <<category, room, booking, overlapped>>
OpenTypeForm(d) ==
  /\ job[d] = NoRow
  /\ \/ \E c \in LiveTypes : Goes(d, Job("editType", "form", c, [code |-> category[c].code]))
     \/ \E code \in Codes : Goes(d, Job("newType", "form", NoRow, [code |-> <<code>>]))
  /\ UNCHANGED <<category, room, booking, overlapped>>
Cancel(d) == job[d] # NoRow /\ Quits(d)

(***************************************************************************)
(* Rooms.                                                                  *)
(***************************************************************************)
\* The category is only asked to exist; an archived one passes.
CheckType(d) == \E op \in {"newRoom", "newRooms"} :
  /\ At(d, op, "form")
  /\ Goes(d, [job[d] EXCEPT !.step = IF op = "newRoom" THEN "write" ELSE "sort"])
  /\ UNCHANGED <<category, room, booking, overlapped>>

Create(d) ==
  /\ At(d, "newRoom", "write")
  /\ IF NumberTaken(job[d].draft.number) THEN Quits(d)
     ELSE \E r \in RoomIds \ Rows(room) :
            /\ room' = [room EXCEPT ![r] = job[d].draft]
            /\ Wrote(d)
            /\ UNCHANGED <<category, booking>>

\* The numbers of a batch that are not taken yet, archived rooms counted.
SortNumbers(d) ==
  /\ At(d, "newRooms", "sort")
  /\ LET free == {n \in job[d].of : ~NumberTaken(n)} IN
     Goes(d, IF free = {} THEN NoRow ELSE [job[d] EXCEPT !.step = "write", !.of = free])
  /\ UNCHANGED <<category, room, booking, overlapped>>

\* All of the batch or none of it.
CreateMany(d) ==
  /\ At(d, "newRooms", "write")
  /\ IF \E n \in job[d].of : NumberTaken(n) THEN Quits(d)
     ELSE \E f \in Injection(job[d].of, RoomIds \ Rows(room)) :
            /\ room' = [r \in RoomIds |-> IF \E n \in job[d].of : f[n] = r
                          THEN [job[d].draft EXCEPT !.number = CHOOSE n \in job[d].of : f[n] = r]
                          ELSE room[r]]
            /\ Wrote(d)
            /\ UNCHANGED <<category, booking>>

CheckRoom(d) ==
  /\ At(d, "editRoom", "form")
  /\ IF room[job[d].of].archived THEN Quits(d)
     ELSE /\ Goes(d, [job[d] EXCEPT !.step = "write"])
          /\ UNCHANGED <<category, room, booking, overlapped>>

Edited(row, draft) == [row EXCEPT !.number = draft.number, !.type = draft.type, !.status = draft.status]

Update(d) ==
  /\ At(d, "editRoom", "write")
  /\ LET j == job[d] IN
     IF \E r \in Rows(room) \ {j.of} : room[r].number = j.draft.number THEN Quits(d)
     ELSE /\ room' = [room EXCEPT ![j.of] = Edited(@, j.draft)]
          /\ Wrote(d)
          /\ UNCHANGED <<category, booking>>

SetStatus(r, s) ==
  /\ room[r] # NoRow
  /\ room' = [room EXCEPT ![r].status = s]
  /\ job' = Outdates
  /\ UNCHANGED <<category, booking, overlapped>>

\* One room or a batch: those with a live booking stay, the rest go.
Archive(rs) ==
  /\ LET gone == {r \in rs \cap LiveRooms : ~LiveBooking(r)} IN
     /\ gone # {}
     /\ room' = [r \in RoomIds |->
          IF r \in gone THEN [room[r] EXCEPT !.active = FALSE, !.archived = TRUE] ELSE room[r]]
  /\ job' = Outdates
  /\ UNCHANGED <<category, booking, overlapped>>

\* The category of a restored room comes back, under its code if nobody has it now.
RestoredType(c) ==
  LET own == IF Len(category[c].code) > 1 THEN Front(category[c].code) ELSE category[c].code
      taken == \E x \in LiveTypes : category[x].code = own
  IN IF ~category[c].archived THEN category[c]
     ELSE [code |-> IF taken THEN category[c].code ELSE own, active |-> TRUE, archived |-> FALSE]

Restore(r) ==
  /\ room[r] # NoRow /\ room[r].archived
  /\ LET c == room[r].type IN
     /\ ~CodeTaken(RestoredType(c).code, c)
     /\ category' = [category EXCEPT ![c] = RestoredType(c)]
     /\ room' = [room EXCEPT ![r].active = TRUE, ![r].archived = FALSE]
  /\ job' = Outdates
  /\ UNCHANGED <<booking, overlapped>>

(***************************************************************************)
(* Categories.                                                             *)
(***************************************************************************)
CreateType(d) ==
  /\ At(d, "newType", "form")
  /\ IF CodeTaken(job[d].draft.code, NoRow) THEN Quits(d)
     ELSE \E c \in TypeIds \ Rows(category) :
            /\ category' = [category EXCEPT ![c] = NewType(job[d].draft.code[1])]
            /\ Wrote(d)
            /\ UNCHANGED <<room, booking>>

\* The occupancies are read and compared; the archive is not asked about.
CheckOccupancy(d) ==
  /\ At(d, "editType", "form")
  /\ Goes(d, [job[d] EXCEPT !.step = "write"])
  /\ UNCHANGED <<category, room, booking, overlapped>>
UpdateType(d) ==
  /\ At(d, "editType", "write")
  /\ LET j == job[d] IN
     IF CodeTaken(j.draft.code, j.of) THEN Quits(d)
     ELSE /\ category' = [category EXCEPT ![j.of].code = j.draft.code]
          /\ Wrote(d)
          /\ UNCHANGED <<room, booking>>

\* Refused while a room of the category is live; an archived room does not hold it.
HoldsRooms(c) == \E r \in LiveRooms : room[r].type = c

CountRooms(d, c) ==
  /\ job[d] = NoRow /\ c \in LiveTypes
  /\ ~HoldsRooms(c)
  /\ Goes(d, Job("removeType", "write", c, [code |-> category[c].code]))
  /\ UNCHANGED <<category, room, booking, overlapped>>
ArchiveType(d) ==
  /\ At(d, "removeType", "write")
  /\ Len(job[d].draft.code) <= MaxTails
  /\ category' = [category EXCEPT ![job[d].of] =
       [code |-> Append(job[d].draft.code, job[d].of), active |-> FALSE, archived |-> TRUE]]
  /\ Wrote(d)
  /\ UNCHANGED <<room, booking>>

(***************************************************************************)
(* Bookings, as far as rooms feel them: taken, moved, left, and a departed *)
(* one put back by the form of the booking.                                *)
(***************************************************************************)
Sold(r) == room[r] # NoRow /\ room[r].active
Book(b, r) ==
  /\ booking[b].status = "none" /\ Sold(r)
  /\ booking' = [booking EXCEPT ![b] = [room |-> r, status |-> "live"]]
  /\ UNCHANGED <<category, room, job, overlapped>>
MoveBooking(b, r) ==
  /\ booking[b].status = "live" /\ Sold(r)
  /\ booking' = [booking EXCEPT ![b].room = r]
  /\ UNCHANGED <<category, room, job, overlapped>>
CheckOut(b) ==
  /\ booking[b].status = "live"
  /\ booking' = [booking EXCEPT ![b].status = "left"]
  /\ room' = [room EXCEPT ![booking[b].room].status = "DIRTY"]
  /\ job' = Outdates
  /\ UNCHANGED <<category, overlapped>>
Revive(b) ==
  /\ booking[b].status = "left" /\ Sold(booking[b].room)
  /\ booking' = [booking EXCEPT ![b].status = "live"]
  /\ UNCHANGED <<category, room, job, overlapped>>

DeskStep(d) ==
  \/ OpenRoomForm(d) \/ OpenNewRooms(d) \/ OpenTypeForm(d) \/ Cancel(d)
  \/ CheckType(d) \/ Create(d) \/ SortNumbers(d) \/ CreateMany(d) \/ CheckRoom(d) \/ Update(d)
  \/ CreateType(d) \/ CheckOccupancy(d) \/ UpdateType(d) \/ ArchiveType(d)
  \/ \E c \in TypeIds : CountRooms(d, c)
CatalogStep ==
  \/ \E d \in Desks : DeskStep(d)
  \/ \E rs \in SUBSET RoomIds : Archive(rs)
  \/ \E r \in RoomIds : Restore(r)

\* Unless some request wrote over a change it had not seen, the archive is
\* closed: what is in it is off the market, a room on the market is of a
\* category on the market, and a code in the archive stands in nobody's way.
ArchiveIsClosed ==
  ~overlapped =>
    /\ \A r \in Rows(room) : room[r].archived => ~room[r].active
    /\ \A r \in LiveRooms : room[r].type \in LiveTypes
    /\ \A c \in Rows(category) \ LiveTypes : ~category[c].active /\ Len(category[c].code) > 1
=============================================================================
