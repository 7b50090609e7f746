---------------------------- MODULE Housekeeping ----------------------------
(***************************************************************************)
(* Who cleans what.  A departure leaves its room dirty in the transaction  *)
(* of the departure, and only then, in one that nobody waits for, a task;  *)
(* people say a room is clean on three screens: the task, the room's       *)
(* status and the form of the room, which sends the status it opened with. *)
(***************************************************************************)
EXTENDS Premises

CONSTANTS TaskIds, Kinds, MaxLeft \* kinds of task besides "CLEANING"; departures in all

VARIABLES
  task,  \* TaskIds -> NoRow or a row
  due,   \* departures whose task is yet to be made: <<booking, room>>
  left,  \* how many departures there were
  unsaid,\* rooms a guest has left and nobody has said anything of since
  missed,\* of those: the announcement was lost, or answered with the task of another room
  undone \* of those: a form opened before wrote another status over the dirt

taskVars == <<task, due, left, unsaid, missed, undone>>

Tasks == Rows(task)
NewTask(r, kind, b) == [room |-> r, kind |-> kind, of |-> b, status |-> "PENDING"]
AddTask(row) == \E t \in TaskIds \ Tasks : task' = [task EXCEPT ![t] = row]

\* Cleaning begins in a hotel that has rooms.
Furnished ==
  /\ \E f \in Injection(RoomIds, Numbers), c \in TypeIds, code \in Codes :
       /\ category = [x \in TypeIds |-> IF x = c THEN NewType(code) ELSE NoRow]
       /\ room = [r \in RoomIds |-> NewRoom(f[r], c, "CLEAN")]
  /\ booking = [b \in Bookings |-> [room |-> NoRow, status |-> "none"]]
  /\ job = [d \in Desks |-> NoRow]
  /\ overlapped = FALSE

HousekeepingInit ==
  /\ task = [t \in TaskIds |-> NoRow]
  /\ due = {} /\ left = 0 /\ unsaid = {} /\ missed = {} /\ undone = {}

\* Somebody says what the room is.
Spoken(r) == unsaid' = unsaid \ {r} /\ missed' = missed \ {r} /\ undone' = undone \ {r}
Misses(r) == missed' = missed \cup (unsaid \cap {r})

Leave(b) ==
  /\ left < MaxLeft
  /\ CheckOut(b)
  /\ left' = left + 1
  /\ due' = due \cup {<<b, booking[b].room>>}
  /\ unsaid' = unsaid \cup {booking[b].room}
  /\ missed' = missed \ {booking[b].room}
  /\ undone' = undone \ {booking[b].room}
  /\ UNCHANGED task

Unfinished(t) == t \in Tasks /\ task[t].kind = "CLEANING" /\ task[t].status # "DONE"
\* As if a task that is done would do as well.
SlipOpenCleaning(b) == {t \in Tasks : task[t].of = b /\ task[t].kind = "CLEANING"}
\* An open cleaning task of this booking, in whichever room and whoever made it, is task enough.
OpenCleaning(b) == {t \in Tasks : task[t].of = b /\ Unfinished(t)}
Elsewhere(b, r) == \E t \in Tasks : task[t].of = b /\ Unfinished(t) /\ task[t].room # r

AutoCreateOnCheckout(b, r) ==
  /\ <<b, r>> \in due
  /\ due' = due \ {<<b, r>>}
  /\ IF OpenCleaning(b) # {} THEN UNCHANGED task ELSE AddTask(NewTask(r, "CLEANING", b))
  /\ IF Elsewhere(b, r) THEN Misses(r) ELSE UNCHANGED missed
  /\ UNCHANGED <<premisesVars, left, unsaid, undone>>
\* The failure is logged and forgotten; a restart forgets it too.
AnnouncementLost(b, r) ==
  /\ <<b, r>> \in due
  /\ due' = due \ {<<b, r>>}
  /\ Misses(r)
  /\ UNCHANGED <<premisesVars, task, left, unsaid, undone>>

\* By hand, for a booking or for none; the room is not compared with the booking's.
CreateTask(r, kind, b) ==
  /\ room[r] # NoRow /\ (b # NoRow => booking[b].status # "none")
  /\ AddTask(NewTask(r, kind, b))
  /\ UNCHANGED <<premisesVars, due, left, unsaid, missed, undone>>
AssignTask(t) ==
  /\ t \in Tasks
  /\ task' = [task EXCEPT ![t].status = IF @ = "PENDING" THEN "IN_PROGRESS" ELSE @]
  /\ UNCHANGED <<premisesVars, due, left, unsaid, missed, undone>>
\* The task is not asked whether it was done before, nor the room what became of it since.
CompleteTask(t) ==
  /\ t \in Tasks
  /\ task' = [task EXCEPT ![t].status = "DONE"]
  /\ room' = [room EXCEPT ![task[t].room].status = "CLEAN"]
  /\ job' = Outdates
  /\ Spoken(task[t].room)
  /\ UNCHANGED <<category, booking, overlapped, due, left>>

Say(r, s) ==
  /\ SetStatus(r, s)
  /\ Spoken(r)
  /\ UNCHANGED <<task, due, left>>

\* Saving the form of a room says something of it if the status was edited, not if the
\* form was opened before the room was left.
SaveRoom(d) ==
  /\ Update(d)
  /\ LET r == job[d].of IN
     CASE room'[r].status = room[r].status -> UNCHANGED <<unsaid, missed, undone>>
       [] room'[r].status # room[r].status /\ job[d].fresh -> Spoken(r)
       [] room'[r].status # room[r].status /\ ~job[d].fresh ->
            undone' = undone \cup (unsaid \cap {r}) /\ UNCHANGED <<unsaid, missed>>
  /\ UNCHANGED <<task, due, left>>

PutBack(b) == Revive(b) /\ UNCHANGED taskVars
Others ==
  /\ \/ \E d \in Desks : OpenRoomForm(d) \/ CheckRoom(d) \/ Cancel(d)
     \/ \E b \in Bookings, r \in RoomIds : Book(b, r) \/ MoveBooking(b, r)
  /\ UNCHANGED taskVars

HousekeepingStep ==
  \/ \E b \in Bookings : Leave(b) \/ PutBack(b) \/ \E r \in RoomIds : AutoCreateOnCheckout(b, r) \/ AnnouncementLost(b, r)
  \/ \E r \in RoomIds, kind \in Kinds \cup {"CLEANING"}, b \in Bookings \cup {NoRow} : CreateTask(r, kind, b)
  \/ \E r \in RoomIds, s \in StatusSet : Say(r, s)
  \/ \E t \in TaskIds : AssignTask(t) \/ CompleteTask(t)
  \/ \E d \in Desks : SaveRoom(d)
  \/ Others
HousekeepingSpec == Furnished /\ HousekeepingInit /\ [][HousekeepingStep]_<<premisesVars, taskVars>>

RoomRow == [number : Numbers, type : TypeIds, active : BOOLEAN, archived : BOOLEAN, status : StatusSet]
RoomForm == [op : {"editRoom"}, step : {"form", "write"}, of : RoomIds, draft : RoomRow, fresh : BOOLEAN]
TaskRow == [room : RoomIds, kind : Kinds \cup {"CLEANING"}, of : Bookings \cup {NoRow},
            status : {"PENDING", "IN_PROGRESS", "DONE"}]

ASSUME HousekeepingAssumption ==
  /\ "CLEAN" \in Statuses
  /\ NoRow \notin RoomIds /\ NoRow \notin Bookings
  /\ NoRow \notin RoomRow /\ NoRow \notin RoomForm /\ NoRow \notin TaskRow

HousekeepingTypeOK ==
  /\ DOMAIN category = TypeIds
  /\ room \in [RoomIds -> RoomRow]
  /\ booking \in [Bookings -> [room : RoomIds \cup {NoRow}, status : {"none", "live", "left"}]]
  /\ job \in [Desks -> RoomForm \cup {NoRow}]
  /\ overlapped \in BOOLEAN
  /\ task \in [TaskIds -> TaskRow \cup {NoRow}]
  /\ due \subseteq Bookings \X RoomIds /\ left \in Nat
  /\ unsaid \subseteq RoomIds

(***************************************************************************)
(* Properties.                                                             *)
(***************************************************************************)
\* A room left stays dirty until somebody says otherwise, and the status of a
\* form opened before the departure is all that ever wipes it away unsaid.
LeftIsDirty == \A r \in unsaid \ undone : room[r].status = "DIRTY"

\* A room left has its departure announced or an open cleaning task standing in
\* it, until somebody says what the room is; only a lost announcement, and an
\* open task of the same booking in another room, leave it without.
LeftIsListed ==
  \A r \in unsaid \ missed :
    (\E b \in Bookings : <<b, r>> \in due) \/ (\E t \in Tasks : Unfinished(t) /\ task[t].room = r)

\* So those who clean see a departure at the room and on the board, or one of
\* these three things has happened to the room since its guest left.
DepartureIsSeen == LeftIsDirty /\ LeftIsListed

HousekeepingInv ==
  /\ HousekeepingTypeOK
  /\ \A b \in Bookings : booking[b].status # "none" => booking[b].room \in RoomIds
  /\ DepartureIsSeen
=============================================================================
