---------------------------- MODULE Reservations ----------------------------
(***************************************************************************)
(* The reservation book of one hotel: ReservationsService, the part of     *)
(* FolioService a departure consults, and the archiving of rooms.          *)
(*                                                                         *)
(* Every operation of the services is one interactive transaction at the   *)
(* isolation level READ COMMITTED, without locks: each SELECT sees what    *)
(* was committed when it ran, the checks are made in memory, and the       *)
(* UPDATE that ends the transaction is keyed by the row's id alone.  A     *)
(* request being served is a job; each statement of its transaction is an  *)
(* action, so that the statements of different jobs interleave.  The       *)
(* writing statement and the commit are one action: between them the row   *)
(* lock keeps other writers out and nobody sees the new values.            *)
(*                                                                         *)
(* With a single job at a time (Procs a singleton) the module is the       *)
(* sequential program; with two it is the program as Node and PostgreSQL   *)
(* run it.                                                                 *)
(***************************************************************************)
EXTENDS RoomPlaces

CONSTANTS
  Procs,       \* requests that can be served at the same time
  Rooms,       \* rooms of the hotel
  Ids,         \* identifiers of bookings
  Days,        \* calendar days, a set of integers
  Guests,      \* possible numbers of guests of a booking (adults + children)
  Capacity,    \* Capacity[r]: places in room r
  MultiPlace,  \* tenant.multi_place_enabled: the hotel sells places, not rooms
  Requests,    \* the requests that clients send
  MaxVersion,  \* bound on the version of a row (model checking only)
  None         \* an absent value: undefined in a request, no row in the table

VARIABLES
  rows,   \* rows[i]: the row of booking i, or None
  rooms,  \* rooms[r]: is the room archived, is it dirty
  debt,   \* debt[i]: the folio of booking i has an outstanding balance
  job     \* job[p]: the request p serves and how far its transaction is

vars == <<rows, rooms, debt, job>>

-----------------------------------------------------------------------------
(* Statuses and the rules about them *)

Statuses == {"NEW", "CONFIRMED", "CHECKED_IN", "CHECKED_OUT", "CANCELLED", "NO_SHOW"}

(* Definitions named Slip... are plausible mistakes in the definition that      *)
(* follows; no action uses them.  They show what the properties notice.        *)

\* A guest leaves a booking nobody arrived at.
SlipFactFrom == [ CHECKED_IN  |-> {"NEW", "CONFIRMED"},
                  CHECKED_OUT |-> {"CHECKED_IN", "CONFIRMED"},
                  NO_SHOW     |-> {"NEW", "CONFIRMED"} ]

\* Arrival, departure and no-show, with the statuses each may follow.
FactFrom == [ CHECKED_IN  |-> {"NEW", "CONFIRMED"},
              CHECKED_OUT |-> {"CHECKED_IN"},
              NO_SHOW     |-> {"NEW", "CONFIRMED"} ]
Facts == DOMAIN FactFrom

\* A booking with this status may take the fact.
AdmitsFact(status, fact) == status \in FactFrom[fact]

\* Statuses in which a booking holds no place, and those of an expected or
\* present guest (LIVE_RESERVATION_STATUSES).
Released == {"CANCELLED", "NO_SHOW"}
Live     == {"NEW", "CONFIRMED", "CHECKED_IN"}

Row == [ room : Rooms, from : Days, to : Days, status : Statuses, place : Int,
         guests : Guests, channel : BOOLEAN, arrived : BOOLEAN, version : Nat ]

\* cancelRefusal answers null
CancelAllowed(row, fromChannel) ==
  /\ row.channel => fromChannel
  /\ row.status \notin {"CANCELLED", "CHECKED_OUT"}

\* The client saw the row as it is.
SeenIs(row, seen) == row.version = seen

\* The number of guests is the partner's to change.
PartyLocked(row, fromChannel) == row.channel /\ ~fromChannel

-----------------------------------------------------------------------------
(* Requests.  An absent field is None.  `channel' is "sent by the partner". *)

Ops == {"create", "update", "swap", "fact", "cancel", "archive"}

Request == [ op : Ops, room : Rooms \cup {None}, from : Days \cup {None},
             to : Days \cup {None}, place : {None} \cup Int,
             guests : Guests \cup {None}, status : Statuses \cup {None},
             channel : BOOLEAN ]

Or(x, y) == IF x = None THEN y ELSE x       \* x ?? y

\* The request names something the place in the room depends on.
Touches(r) ==
  \/ r.place # None
  \/ r.room # None
  \/ r.from # None
  \/ r.to # None
  \/ r.guests # None

\* The values an update would write, the place aside.
Merged(r, cur) ==
  [cur EXCEPT !.room   = Or(r.room, cur.room),
              !.from   = Or(r.from, cur.from),
              !.to     = Or(r.to, cur.to),
              !.guests = Or(r.guests, cur.guests),
              !.status = Or(r.status, cur.status)]

\* The row a create would insert, its place still to be allocated.
Fresh(r) ==
  [ room |-> r.room, from |-> r.from, to |-> r.to,
    status |-> Or(r.status, "CONFIRMED"), place |-> NoPlace,
    guests |-> r.guests, channel |-> r.channel, arrived |-> FALSE, version |-> 1 ]

\* What a client has to send with each kind of request (the DTOs' validators).
WellFormed(r) ==
  /\ r.op = "create" => r.room # None /\ r.from # None /\ r.to # None /\ r.guests # None
  /\ r.op = "fact" => r.status \in Facts
  /\ r.op = "archive" => r.room # None

ASSUME ConstantsAssumption ==
  /\ Days \subseteq Int
  /\ Guests \subseteq Nat \ {0}
  /\ Capacity \in [Rooms -> Nat]
  /\ MultiPlace \in BOOLEAN
  /\ None \notin Ids /\ None \notin Row
  /\ Requests \subseteq Request
  /\ \A r \in Requests : WellFormed(r)

-----------------------------------------------------------------------------
(* Jobs *)

NoJob == [ pc |-> "idle", req |-> None, id |-> None, other |-> None,
           seen |-> 0, seenOther |-> 0, cur |-> None, new |-> None ]

Steps == {"read", "folio", "room", "places", "type", "write"}

Job == [ pc : Steps, req : Requests, id : Ids \cup {None}, other : Ids \cup {None},
         seen : Nat, seenOther : Nat, cur : Row \cup {None}, new : Row \cup {None} ]

TypeOK ==
  /\ rows \in [Ids -> Row \cup {None}]
  /\ rooms \in [Rooms -> [archived : BOOLEAN, dirty : BOOLEAN]]
  /\ debt \in [Ids -> BOOLEAN]
  /\ job \in [Procs -> Job \cup {NoJob}]

Init ==
  /\ rows = [i \in Ids |-> None]
  /\ rooms = [r \in Rooms |-> [archived |-> FALSE, dirty |-> FALSE]]
  /\ debt = [i \in Ids |-> FALSE]
  /\ job = [p \in Procs |-> NoJob]

At(p, op, pc) ==
  /\ job[p] # NoJob
  /\ job[p].req.op = op
  /\ job[p].pc = pc

Booked == {i \in Ids : rows[i] # None}

\* Only bookings within the nights are seen, not those that stick out of them.
SlipOverlapping(room, from, to, except) ==
  {i \in Booked \ {except} :
     /\ rows[i].room = room
     /\ rows[i].from >= from
     /\ rows[i].to <= to
     /\ rows[i].status \notin Released}

\* Ids of the bookings that hold places of the room in part of the nights
\* from .. to - 1, the booking `except' aside.
Overlapping(room, from, to, except) ==
  {i \in Booked \ {except} :
     /\ rows[i].room = room
     /\ rows[i].from < to
     /\ rows[i].to > from
     /\ rows[i].status \notin Released}

Holders(S) == {[place |-> rows[i].place, guests |-> rows[i].guests] : i \in S}

-----------------------------------------------------------------------------
(* A request arrives.  The client of an update or a swap names the version *)
(* of each row it last saw.                                                *)

\* Job p goes on as j.
Goes(p, j) == job' = [job EXCEPT ![p] = j]

\* Job p ends: its transaction is committed, or was rolled back.
Done(p) == Goes(p, NoJob)

BeginCreate(p) ==
  /\ job[p] = NoJob
  /\ \E r \in Requests :
       /\ r.op = "create"
       /\ r.from < r.to
       /\ Goes(p, [NoJob EXCEPT !.pc = "room", !.req = r, !.new = Fresh(r)])
  /\ UNCHANGED <<rows, rooms, debt>>

Begin(p) ==
  /\ job[p] = NoJob
  /\ \E r \in Requests, i \in Booked :
       /\ r.op \in {"update", "fact", "cancel"}
       /\ \E v \in IF r.op = "update" THEN 1 .. rows[i].version ELSE {0} :
            Goes(p, [NoJob EXCEPT !.pc = "read", !.req = r, !.id = i, !.seen = v])
  /\ UNCHANGED <<rows, rooms, debt>>

BeginSwap(p) ==
  /\ job[p] = NoJob
  /\ \E r \in Requests, i \in Booked, k \in Booked :
       /\ r.op = "swap"
       /\ i # k
       /\ \E v \in 1 .. rows[i].version, w \in 1 .. rows[k].version :
            Goes(p, [NoJob EXCEPT !.pc = "read", !.req = r, !.id = i, !.other = k,
                                   !.seen = v, !.seenOther = w])
  /\ UNCHANGED <<rows, rooms, debt>>

BeginArchive(p) ==
  /\ job[p] = NoJob
  /\ \E r \in Requests :
       /\ r.op = "archive"
       /\ Goes(p, [NoJob EXCEPT !.pc = "read", !.req = r])
  /\ UNCHANGED <<rows, rooms, debt>>

\* The transaction ends without having written: the next check refuses (every
\* early return of the services), the interactive transaction times out, or
\* the connection is lost and the database rolls back.
Refuse(p) ==
  /\ job[p] # NoJob
  /\ Done(p)
  /\ UNCHANGED <<rows, rooms, debt>>

-----------------------------------------------------------------------------
(* Statements that read *)

NextAfterFolio(r) == IF r.op = "update" /\ Touches(r) THEN "room" ELSE "write"

\* An update's first SELECT and the checks made on the row it returned.
ReadForUpdate(p) ==
  LET r    == job[p].req
      cur  == rows[job[p].id]
      new  == Merged(r, cur)
      fact == new.status # cur.status /\ new.status \in Facts
  IN  /\ At(p, "update", "read")
      /\ SeenIs(cur, job[p].seen)
      /\ PartyLocked(cur, r.channel) => new.guests = cur.guests
      /\ new.from < new.to
      /\ fact => AdmitsFact(cur.status, new.status)
      /\ new.status # cur.status /\ new.status = "CANCELLED" => CancelAllowed(cur, r.channel)
      /\ Goes(p, [job[p] EXCEPT !.cur = cur,
                                !.new = new,
                                !.pc  = IF fact /\ new.status = "CHECKED_OUT"
                                        THEN "folio" ELSE NextAfterFolio(r)])
      /\ UNCHANGED <<rows, rooms, debt>>

\* recordFact reads status and room; the version plays no part.
ReadForFact(p) ==
  LET cur == rows[job[p].id]
      f   == job[p].req.status
  IN  /\ At(p, "fact", "read")
      /\ AdmitsFact(cur.status, f)
      /\ Goes(p, [job[p] EXCEPT !.cur = cur,
                                !.pc  = IF f = "CHECKED_OUT" THEN "folio" ELSE "write"])
      /\ UNCHANGED <<rows, rooms, debt>>

ReadForCancel(p) ==
  LET cur == rows[job[p].id]
  IN  /\ At(p, "cancel", "read")
      /\ CancelAllowed(cur, job[p].req.channel)
      /\ Goes(p, [job[p] EXCEPT !.cur = cur, !.pc = "write"])
      /\ UNCHANGED <<rows, rooms, debt>>

\* One SELECT returns both rows; `new' keeps the second.
ReadForSwap(p) ==
  LET a == rows[job[p].id]
      b == rows[job[p].other]
  IN  /\ At(p, "swap", "read")
      /\ SeenIs(a, job[p].seen)
      /\ SeenIs(b, job[p].seenOther)
      /\ a.room = b.room
      /\ Goes(p, [job[p] EXCEPT !.cur = a, !.new = b, !.pc = "write"])
      /\ UNCHANGED <<rows, rooms, debt>>

\* The balance is not looked at.
SlipAssertZeroBalance(p) ==
  /\ job[p] # NoJob
  /\ job[p].pc = "folio"
  /\ Goes(p, [job[p] EXCEPT !.pc = NextAfterFolio(job[p].req)])
  /\ UNCHANGED <<rows, rooms, debt>>

\* The folio of a departing guest must be settled (assertZeroBalance).
AssertZeroBalance(p) ==
  /\ job[p] # NoJob
  /\ job[p].pc = "folio"
  /\ ~debt[job[p].id]
  /\ Goes(p, [job[p] EXCEPT !.pc = NextAfterFolio(job[p].req)])
  /\ UNCHANGED <<rows, rooms, debt>>

ReadRoom(p) ==
  /\ job[p] # NoJob
  /\ job[p].pc = "room"
  /\ ~rooms[job[p].new.room].archived
  /\ Goes(p, [job[p] EXCEPT !.pc = "places"])
  /\ UNCHANGED <<rows, rooms, debt>>

\* A create, or an update that names another room.
Moves(p) ==
  LET r == job[p].req
  IN  r.op = "create" \/ (r.room # None /\ r.room # job[p].cur.room)

\* The SELECT of the other bookings and the choice of the place: the one the
\* client named, the one the booking has, or the first that is free.
ReadPlaces(p) ==
  LET r      == job[p].req
      n      == job[p].new
      cap    == Capacity[n.room]
      others == Holders(Overlapping(n.room, n.from, n.to, job[p].id))
      keeps  == ~Moves(p) /\ spanFree(n.place, cap, MultiPlace, n.guests, others)
      place  == IF r.op = "update" /\ r.place # None THEN r.place
                ELSE IF keeps THEN n.place
                ELSE allocatePlace(cap, MultiPlace, n.guests, others)
  IN  /\ job[p] # NoJob
      /\ job[p].pc = "places"
      /\ IF r.op = "update" /\ r.place # None
         THEN spanFree(place, cap, MultiPlace, n.guests, others)
         ELSE place # NoPlace
      /\ Goes(p, [job[p] EXCEPT !.new.place = place,
                                !.pc = IF r.op = "update" /\ Moves(p) THEN "type" ELSE "write"])
      /\ UNCHANGED <<rows, rooms, debt>>

\* A booking that moves takes the category of its new room, read once more.
ReadRoomType(p) ==
  /\ job[p] # NoJob
  /\ job[p].pc = "type"
  /\ ~rooms[job[p].new.room].archived
  /\ Goes(p, [job[p] EXCEPT !.pc = "write"])
  /\ UNCHANGED <<rows, rooms, debt>>

\* Guests who are in the room do not keep it out of the archive.
SlipReadForArchive(p) ==
  LET room == job[p].req.room
  IN  /\ At(p, "archive", "read")
      /\ ~rooms[room].archived
      /\ \A i \in Booked : rows[i].room = room => rows[i].status \notin Live \ {"CHECKED_IN"}
      /\ Goes(p, [job[p] EXCEPT !.pc = "write"])
      /\ UNCHANGED <<rows, rooms, debt>>

\* archive looks at the mark and counts the live bookings of the room.
ReadForArchive(p) ==
  LET room == job[p].req.room
  IN  /\ At(p, "archive", "read")
      /\ ~rooms[room].archived
      /\ \A i \in Booked : rows[i].room = room => rows[i].status \notin Live
      /\ Goes(p, [job[p] EXCEPT !.pc = "write"])
      /\ UNCHANGED <<rows, rooms, debt>>

-----------------------------------------------------------------------------
(* Statements that write, and the commit *)

\* The trace a fact leaves on the room (stampFact): the vacated room is dirty.
Vacated(room, fact) ==
  rooms' = IF fact = "CHECKED_OUT" THEN [rooms EXCEPT ![room].dirty = TRUE] ELSE rooms

Insert(p) ==
  /\ At(p, "create", "write")
  /\ \E i \in Ids \ Booked : rows' = [rows EXCEPT ![i] = job[p].new]
  /\ Done(p)
  /\ UNCHANGED <<rooms, debt>>

\* Every column is written from the values decided earlier; channel_managed and
\* checked_in_at are not among them, version is incremented in the database.
WriteUpdate(p) ==
  LET i    == job[p].id
      n    == job[p].new
      fact == IF n.status # job[p].cur.status THEN n.status ELSE None
  IN  /\ At(p, "update", "write")
      /\ rows[i].version < MaxVersion
      /\ rows' = [rows EXCEPT ![i] = [n EXCEPT !.channel = rows[i].channel,
                                               !.arrived = rows[i].arrived \/ fact = "CHECKED_IN",
                                               !.version = rows[i].version + 1]]
      /\ Vacated(n.room, fact)
      /\ Done(p)
      /\ UNCHANGED debt

WriteFact(p) ==
  LET i == job[p].id
      f == job[p].req.status
  IN  /\ At(p, "fact", "write")
      /\ rows[i].version < MaxVersion
      /\ rows' = [rows EXCEPT ![i].status  = f,
                              ![i].arrived = rows[i].arrived \/ f = "CHECKED_IN",
                              ![i].version = rows[i].version + 1]
      /\ Vacated(job[p].cur.room, f)
      /\ Done(p)
      /\ UNCHANGED debt

WriteCancel(p) ==
  LET i == job[p].id
  IN  /\ At(p, "cancel", "write")
      /\ rows[i].version < MaxVersion
      /\ rows' = [rows EXCEPT ![i].status = "CANCELLED", ![i].version = rows[i].version + 1]
      /\ Done(p)
      /\ UNCHANGED <<rooms, debt>>

WriteSwap(p) ==
  LET i == job[p].id
      k == job[p].other
  IN  /\ At(p, "swap", "write")
      /\ rows[i].version < MaxVersion
      /\ rows[k].version < MaxVersion
      /\ rows' = [rows EXCEPT ![i].place   = job[p].new.place,
                              ![i].version = rows[i].version + 1,
                              ![k].place   = job[p].cur.place,
                              ![k].version = rows[k].version + 1]
      /\ Done(p)
      /\ UNCHANGED <<rooms, debt>>

WriteArchive(p) ==
  /\ At(p, "archive", "write")
  /\ rooms' = [rooms EXCEPT ![job[p].req.room].archived = TRUE]
  /\ Done(p)
  /\ UNCHANGED <<rows, debt>>

-----------------------------------------------------------------------------
(* Operations of one statement *)

Restore(p) ==
  /\ job[p] = NoJob
  /\ \E r \in Rooms :
       /\ rooms[r].archived
       /\ rooms' = [rooms EXCEPT ![r].archived = FALSE]
  /\ UNCHANGED <<rows, debt, job>>

\* setStatus, or a finished cleaning task.
SetRoomStatus(p) ==
  /\ job[p] = NoJob
  /\ \E r \in Rooms, d \in BOOLEAN : rooms' = [rooms EXCEPT ![r].dirty = d]
  /\ UNCHANGED <<rows, debt, job>>

\* addCharge or a refund leaves a balance; a payment or a deleted charge may
\* clear it.  The folio does not look at the status of its booking.
PostToFolio(p) ==
  /\ job[p] = NoJob
  /\ \E i \in Booked, owes \in BOOLEAN : debt' = [debt EXCEPT ![i] = owes]
  /\ UNCHANGED <<rows, rooms, job>>

Reads(p)  == ReadForUpdate(p) \/ ReadForFact(p) \/ ReadForCancel(p) \/ ReadForSwap(p)
             \/ AssertZeroBalance(p) \/ ReadRoom(p) \/ ReadPlaces(p) \/ ReadRoomType(p)
             \/ ReadForArchive(p)
Writes(p) == Insert(p) \/ WriteUpdate(p) \/ WriteFact(p) \/ WriteCancel(p) \/ WriteSwap(p)
             \/ WriteArchive(p)
Begins(p) == BeginCreate(p) \/ Begin(p) \/ BeginSwap(p) \/ BeginArchive(p)

Next == \E p \in Procs :
          \/ Begins(p) \/ Reads(p) \/ Writes(p) \/ Refuse(p)
          \/ Restore(p) \/ SetRoomStatus(p) \/ PostToFolio(p)

Spec == Init /\ [][Next]_vars

-----------------------------------------------------------------------------
(* What the book promises *)

Occupying == {i \in Booked : rows[i].status \notin Released}

\* The rule of room-places.ts for a hotel that sells whole rooms: while one
\* booking has the room, no other booking of overlapping nights is in it.
NoDoubleBooking ==
  ~MultiPlace =>
    \A i, k \in Occupying :
      i # k /\ rows[i].room = rows[k].room =>
        rows[i].to <= rows[k].from \/ rows[k].to <= rows[i].from

\* The rule for a hotel that sells places: bookings of overlapping nights in
\* one room cover different places (each as many as it has guests).
PlacesDisjoint ==
  MultiPlace =>
    \A i \in Occupying :
      \A k \in Overlapping(rows[i].room, rows[i].from, rows[i].to, i) :
        HolderSpan(rows[i]) \cap HolderSpan(rows[k]) = {}

\* The places of a booking exist: they lie within 1 .. capacity of its room,
\* whatever moves, changes of the party and stale writes came before.
SpanInRoom ==
  MultiPlace =>
    \A i \in Booked : HolderSpan(rows[i]) \subseteq 1 .. Capacity[rows[i].room]

\* A departure was preceded by a recorded arrival: the status CHECKED_OUT is
\* never found on a booking whose checked_in_at is empty, even when stale
\* updates rewrite statuses.  So it is as long as bookings are created NEW or
\* CONFIRMED; the form offers every status for a new booking too.
DepartedHadArrived ==
  \A i \in Booked : rows[i].status = "CHECKED_OUT" => rows[i].arrived

\* Booking i takes the status s in this step.
Becomes(i, s) ==
  /\ rows[i] # None
  /\ rows'[i].status = s
  /\ rows[i].status # s

-----------------------------------------------------------------------------
(* The inductive invariants *)

\* What a job has in hand at each step: TypeOK is inductive together with it.
JobOK(p) ==
  LET j == job[p]
  IN  j # NoJob =>
        /\ j.req.op \in {"update", "fact", "cancel", "swap"} => j.id \in Booked
        /\ j.req.op = "swap" => j.other \in Booked
        /\ j.req.op = "create" => j.id = None /\ j.new \in Row
        /\ j.pc = "folio" => j.req.op \in {"update", "fact"}
        /\ j.pc \in {"room", "places", "type"} => j.req.op \in {"create", "update"}
        /\ j.req.op = "update" /\ j.pc # "read" => j.cur \in Row /\ j.new \in Row
        /\ j.req.op = "fact" /\ j.pc # "read" => j.cur \in Row
        /\ j.req.op = "swap" /\ j.pc # "read" => j.cur \in Row /\ j.new \in Row

TypeInv == TypeOK /\ \A p \in Procs : JobOK(p)

\* Bookings are created expected, not with their guests in the house or gone.
CreatedExpected ==
  \A r \in Requests : r.op = "create" => r.status \notin {"CHECKED_IN", "CHECKED_OUT"}

Came(status) == status \in {"CHECKED_IN", "CHECKED_OUT"}

\* What a request relies on about the arrival of its booking.  An arrival, once
\* recorded, is never taken back, so this stays true whatever others write.
ArrivalKnown(j) ==
  LET op   == j.req.op
      came == rows[j.id].arrived
  IN  /\ op = "create" => ~Came(j.new.status)
      /\ op = "update" /\ j.pc # "read" =>
           /\ j.new.status = "CHECKED_OUT" => came
           /\ j.new.status = "CHECKED_IN" /\ j.cur.status = "CHECKED_IN" => came
      /\ op = "fact" /\ j.pc # "read" /\ j.req.status = "CHECKED_OUT" => came

ArrivalInv ==
  /\ TypeInv
  /\ \A i \in Booked : Came(rows[i].status) => rows[i].arrived
  /\ \A p \in Procs : job[p] # NoJob => ArrivalKnown(job[p])

\* Nobody swaps places.
NoSwaps == \A r \in Requests : r.op # "swap"

Fits(n) == MultiPlace => HolderSpan(n) \subseteq 1 .. Capacity[n.room]

\* A request that has passed the places, or that left them alone, writes a row
\* that lies in its room: the row is written as a whole, so what others wrote
\* in between does not matter.
SpanKnown(j) ==
  /\ j.req.op = "update" /\ j.pc # "read" /\ ~Touches(j.req) => Fits(j.new)
  /\ j.req.op \in {"create", "update"} /\ j.pc \in {"type", "write"} => Fits(j.new)

SpanInv ==
  /\ TypeInv
  /\ SpanInRoom
  /\ \A p \in Procs : job[p] # NoJob => SpanKnown(job[p])
=============================================================================
