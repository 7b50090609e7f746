----------------------------- MODULE Overtaking -----------------------------
(***************************************************************************)
(* The reservation book with a history of who overtook whom.               *)
(*                                                                         *)
(* Nothing in the services keeps requests apart: a transaction decides on  *)
(* what it has read and writes by the row's id, whatever was committed in  *)
(* between.  The history variables say where that happened, so that the    *)
(* rules of the book can be stated for any number of requests at a time:   *)
(* what the code guarantees to a request nobody overtook, and which        *)
(* bookings and rooms owe their present state to one that was.             *)
(*                                                                         *)
(* Every step is a step of Reservations; the history restricts none.       *)
(***************************************************************************)
EXTENDS Reservations

VARIABLES
  overtaken,  \* requests that hold what has been changed since they read it
  doubtful,   \* bookings whose present stay was written by an overtaken request,
              \* or that were revived by their status alone
  hasty       \* archived rooms that an overtaken request archived

hvars == <<rows, rooms, debt, job, overtaken, doubtful, hasty>>

-----------------------------------------------------------------------------
\* The request chooses a room and nights, and looks at the room for that.
Places(j) == j.req.op = "create" \/ (j.req.op = "update" /\ Touches(j.req))

\* The request has read nothing yet.
NothingRead(j) == j.pc = "read" \/ (j.req.op = "create" /\ j.pc = "room")

\* The room whose mark and bookings the request looks at.
LooksAt(j) == IF j.req.op = "archive" THEN j.req.room
              ELSE IF Places(j) THEN j.new.room ELSE None

\* Bookings that this step writes.
Written == {i \in Ids : rows'[i] # rows[i]}

\* This step changes a booking that the request j is about, a booking of the room
\* it looks at, the archive mark of that room, or the balance of its booking.
Concerns(j) ==
  \/ \E i \in Written : i \in {j.id, j.other} \/ rows'[i].room = LooksAt(j)
  \/ \E r \in Rooms : r = LooksAt(j) /\ rooms'[r].archived # rooms[r].archived
  \/ \E i \in Ids : i = j.id /\ debt'[i] # debt[i]

\* In this step request p commits, or is given up.
Ends(p) == job[p] # NoJob /\ job'[p] = NoJob

\* A booking that was over returns to the book by its status alone: an update that
\* sends no room, nights, place or guests looks at no room.
BareRevival(j) ==
  /\ j.req.op = "update"
  /\ ~Touches(j.req)
  /\ j.cur.status \notin Live
  /\ j.new.status \in {"NEW", "CONFIRMED"}

-----------------------------------------------------------------------------
HInit == Init /\ overtaken = {} /\ doubtful = {} /\ hasty = {}

NoteOvertaken ==
  overtaken' = {p \in Procs : /\ job[p] # NoJob
                              /\ job'[p] # NoJob
                              /\ p \in overtaken \/ (~NothingRead(job[p]) /\ Concerns(job[p]))}

NoteDoubtful ==
  \/ Written = {} /\ doubtful' = doubtful
  \/ \E p \in Procs :
       /\ Written # {}
       /\ Ends(p)
       /\ doubtful' = IF p \in overtaken \/ BareRevival(job[p]) THEN doubtful \cup Written
                      ELSE IF Places(job[p]) THEN doubtful \ Written
                      ELSE doubtful

NoteHasty ==
  hasty' = {r \in Rooms : /\ rooms'[r].archived
                          /\ r \in hasty \/ (~rooms[r].archived /\ \E p \in overtaken : Ends(p))}

Note == NoteOvertaken /\ NoteDoubtful /\ NoteHasty

HNext == Next /\ Note

HSpec == HInit /\ [][HNext]_hvars

-----------------------------------------------------------------------------
\* A hotel that sells whole rooms gives one room to two bookings of overlapping
\* nights for two reasons only: one of the two had its stay written by a request
\* that was overtaken while it looked at the room (create and update of
\* ReservationsService), or was revived by its status alone.
SharedForAReason ==
  ~MultiPlace =>
    \A i, k \in Occupying \ doubtful :
      i # k /\ rows[i].room = rows[k].room =>
        rows[i].to <= rows[k].from \/ rows[k].to <= rows[i].from

\* RoomsService.archive: a live booking is in an archived room only if its stay was
\* written by an overtaken request, it was revived by its status alone, or an
\* overtaken request archived the room.
LostFromSightForAReason ==
  \A i \in Booked \ doubtful :
    rows[i].status \in Live /\ rooms[rows[i].room].archived => rows[i].room \in hasty

\* admitFact: a guest leaves owing only when the departure was overtaken, by a
\* posting to his folio or another change of his booking after it had been checked.
OwingForAReason ==
  [][\A i \in Ids : Becomes(i, "CHECKED_OUT") /\ debt[i] => \E p \in overtaken : Ends(p)]_hvars
-----------------------------------------------------------------------------
(* The inductive invariant *)

\* No other booking, those of D aside, stands in the way of the row n of booking i.
VacantBut(n, i, D) ==
  ~MultiPlace /\ n.status \notin Released =>
    \A k \in Booked \ (D \cup {i}) :
      rows[k].status \notin Released /\ rows[k].room = n.room =>
        rows[k].to <= n.from \/ n.to <= rows[k].from

\* A booking that goes from one status to the other needs no new look at its room.
Carries(old, new) ==
  \/ new = old
  \/ new \in Released
  \/ old \notin Released /\ new \notin Live
  \/ old \in Live /\ new \in Live

SameStay(n, m) == n.room = m.room /\ n.from = m.from /\ n.to = m.to

\* The guest leaves with what this request writes.
Departs(j) ==
  IF j.req.op = "update" THEN j.new.status = "CHECKED_OUT" /\ j.cur.status # "CHECKED_OUT"
                         ELSE j.req.status = "CHECKED_OUT"

\* What the checks that the request j has passed say of the tables.
StillHolds(j) ==
  LET op == j.req.op
  IN  /\ op \in {"update", "fact"} /\ j.pc # "read" => j.cur = rows[j.id]
      /\ op = "update" /\ j.pc # "read" /\ ~Touches(j.req) =>
           SameStay(j.new, j.cur) /\ (Carries(j.cur.status, j.new.status) \/ BareRevival(j))
      /\ op = "fact" /\ j.pc # "read" => j.cur.status \in FactFrom[j.req.status]
      /\ Places(j) /\ j.pc \in {"places", "type", "write"} => ~rooms[j.new.room].archived
      /\ Places(j) /\ j.pc \in {"type", "write"} => VacantBut(j.new, j.id, {})
      /\ op \in {"update", "fact"} /\ j.pc \notin {"read", "folio"} /\ Departs(j) => ~debt[j.id]
      /\ op = "archive" /\ j.pc # "read" =>
           \A i \in Booked : rows[i].room = j.req.room => rows[i].status \notin Live

\* They still say so as long as nobody has overtaken the request.
OvertakingInv ==
  /\ TypeInv
  /\ SharedForAReason
  /\ LostFromSightForAReason
  /\ \A p \in Procs \ overtaken : job[p] # NoJob => StillHolds(job[p])
=============================================================================
