------------------------- MODULE ReservationsProofs -------------------------
(***************************************************************************)
(* Theorems about the reservation book, for every number of rooms,         *)
(* bookings, days and requests.                                            *)
(***************************************************************************)
EXTENDS Overtaking, RoomPlacesProofs

USE ConstantsAssumption

-----------------------------------------------------------------------------
(* Typing *)

LEMMA RequestType == \A r \in Requests : r \in Request /\ WellFormed(r)
OBVIOUS

LEMMA MergedType ==
  ASSUME NEW r \in Requests, NEW cur \in Row
  PROVE  Merged(r, cur) \in Row
<1>1. r \in Request
  BY RequestType
<1>2. /\ Or(r.room, cur.room) \in Rooms /\ Or(r.from, cur.from) \in Days /\ Or(r.to, cur.to) \in Days
      /\ Or(r.guests, cur.guests) \in Guests /\ Or(r.status, cur.status) \in Statuses
  BY <1>1 DEF Or, Request, Row
<1> QED BY <1>2 DEF Merged, Row

LEMMA FreshType ==
  ASSUME NEW r \in Requests, r.op = "create"
  PROVE  Fresh(r) \in Row
<1>1. r.room \in Rooms /\ r.from \in Days /\ r.to \in Days /\ r.guests \in Guests
  BY DEF Request, WellFormed
<1>2. Or(r.status, "CONFIRMED") \in Statuses
  BY DEF Request, Or, Statuses
<1> QED BY <1>1, <1>2 DEF Fresh, Row, NoPlace, Request

LEMMA IdleIsNoJob ==
  NoJob \notin Job
BY DEF NoJob, Job, Steps

LEMMA TypeInit == Init => TypeInv
BY DEF Init, TypeInv, TypeOK, JobOK, Booked

LEMMA BookedRow ==
  ASSUME TypeOK, NEW i \in Booked
  PROVE  i \in Ids /\ rows[i] \in Row
BY DEF TypeOK, Booked

\* A step that leaves the tables alone and gives job p a well-formed new state.
LEMMA JobStep ==
  ASSUME TypeInv, NEW p \in Procs, NEW j \in Job \cup {NoJob},
         Goes(p, j), UNCHANGED <<rows, rooms, debt>>,
         j # NoJob => JobOK(p)'
  PROVE  TypeInv'
<1>1. TypeOK'
  BY DEF TypeInv, TypeOK, Goes
<1>2. ASSUME NEW q \in Procs PROVE JobOK(q)'
  <2>1. CASE q = p
    <3>1. job'[p] = j
      BY DEF TypeInv, TypeOK, Goes
    <3> QED BY <2>1, <3>1 DEF JobOK
  <2>2. CASE q # p
    BY <2>2 DEF TypeInv, TypeOK, JobOK, Booked, Goes
  <2> QED BY <2>1, <2>2
<1> QED BY <1>1, <1>2 DEF TypeInv

\* A step that ends job p, or leaves the jobs alone, and keeps the tables typed.
LEMMA TableStep ==
  ASSUME TypeInv, NEW p \in Procs, Done(p) \/ UNCHANGED job,
         rows' \in [Ids -> Row \cup {None}],
         rooms' \in [Rooms -> [archived : BOOLEAN, dirty : BOOLEAN]],
         debt' \in [Ids -> BOOLEAN],
         Booked \subseteq Booked'
  PROVE  TypeInv'
<1>1. TypeOK'
  BY DEF TypeInv, TypeOK, Goes, Done
<1>2. ASSUME NEW q \in Procs PROVE JobOK(q)'
  <2>1. job'[q] = job[q] \/ job'[q] = NoJob
    BY DEF TypeInv, TypeOK, Goes, Done
  <2>2. JobOK(q)
    BY DEF TypeInv
  <2> QED BY <2>1, <2>2 DEF JobOK
<1> QED BY <1>1, <1>2 DEF TypeInv

\* Job p is in the middle of a transaction.
LEMMA Serving ==
  ASSUME TypeInv, NEW p \in Procs, job[p] # NoJob
  PROVE  /\ job[p] \in Job
         /\ JobOK(p)
         /\ job[p].req \in Requests
         /\ job[p].req.op \in {"update", "fact", "cancel", "swap"} =>
              /\ job[p].id \in Booked
              /\ job[p].id \in Ids
              /\ rows[job[p].id] \in Row
         /\ job[p].req.op = "swap" =>
              /\ job[p].other \in Booked
              /\ job[p].other \in Ids
              /\ rows[job[p].other] \in Row
<1>1. job[p] \in Job /\ JobOK(p)
  BY DEF TypeInv, TypeOK
<1>2. job[p].req \in Requests
  BY <1>1 DEF Job
<1> QED BY <1>1, <1>2, BookedRow DEF TypeInv, JobOK

LEMMA BeginsType ==
  ASSUME TypeInv, NEW p \in Procs, Begins(p)
  PROVE  TypeInv'
<1>1. CASE BeginCreate(p)
  <2>1. PICK r \in Requests :
          /\ r.op = "create"
          /\ Goes(p, [NoJob EXCEPT !.pc = "room", !.req = r, !.new = Fresh(r)])
    BY <1>1 DEF BeginCreate
  <2> DEFINE j == [NoJob EXCEPT !.pc = "room", !.req = r, !.new = Fresh(r)]
  <2>2. j \in Job
    BY <2>1, FreshType DEF NoJob, Job, Steps
  <2>3. job'[p] = j
    BY <2>1 DEF Goes, TypeInv, TypeOK
  <2>4. JobOK(p)'
    BY <2>1, <2>3, FreshType DEF JobOK, NoJob
  <2> QED BY <1>1, <2>1, <2>2, <2>4, JobStep DEF BeginCreate
<1>2. CASE Begin(p)
  <2>1. PICK r \in Requests, i \in Booked, v \in Nat :
          /\ r.op \in {"update", "fact", "cancel"}
          /\ Goes(p, [NoJob EXCEPT !.pc = "read", !.req = r, !.id = i, !.seen = v])
    <3>1. PICK r \in Requests, i \in Booked :
            /\ r.op \in {"update", "fact", "cancel"}
            /\ \E v \in IF r.op = "update" THEN 1 .. rows[i].version ELSE {0} :
                 Goes(p, [NoJob EXCEPT !.pc = "read", !.req = r, !.id = i, !.seen = v])
      BY <1>2 DEF Begin
    <3>2. rows[i].version \in Nat
      BY BookedRow DEF TypeInv, Row
    <3>3. (IF r.op = "update" THEN 1 .. rows[i].version ELSE {0}) \subseteq Nat
      BY <3>2
    <3> QED BY <3>1, <3>3
  <2> DEFINE j == [NoJob EXCEPT !.pc = "read", !.req = r, !.id = i, !.seen = v]
  <2>2. j \in Job
    BY <2>1, BookedRow DEF NoJob, Job, Steps, TypeInv
  <2>3. job'[p] = j
    BY <2>1 DEF Goes, TypeInv, TypeOK
  <2>4. JobOK(p)'
    <3>1. i \in Booked'
      BY <1>2 DEF Begin, Booked
    <3> QED BY <2>1, <2>3, <3>1 DEF JobOK, NoJob
  <2> QED BY <1>2, <2>1, <2>2, <2>4, JobStep DEF Begin
<1>3. CASE BeginSwap(p)
  <2>1. PICK r \in Requests, i \in Booked, k \in Booked, v \in Nat, w \in Nat :
          /\ r.op = "swap"
          /\ Goes(p, [NoJob EXCEPT !.pc = "read", !.req = r, !.id = i, !.other = k,
                                   !.seen = v, !.seenOther = w])
    <3>1. PICK r \in Requests, i \in Booked, k \in Booked :
            /\ r.op = "swap"
            /\ \E v \in 1 .. rows[i].version, w \in 1 .. rows[k].version :
                 Goes(p, [NoJob EXCEPT !.pc = "read", !.req = r, !.id = i, !.other = k,
                                       !.seen = v, !.seenOther = w])
      BY <1>3 DEF BeginSwap
    <3>2. rows[i].version \in Nat /\ rows[k].version \in Nat
      BY BookedRow DEF TypeInv, Row
    <3>3. 1 .. rows[i].version \subseteq Nat /\ 1 .. rows[k].version \subseteq Nat
      BY <3>2
    <3> QED BY <3>1, <3>3
  <2> DEFINE j == [NoJob EXCEPT !.pc = "read", !.req = r, !.id = i, !.other = k,
                                !.seen = v, !.seenOther = w]
  <2>2. j \in Job
    BY <2>1, BookedRow DEF NoJob, Job, Steps, TypeInv
  <2>3. job'[p] = j
    BY <2>1 DEF Goes, TypeInv, TypeOK
  <2>4. JobOK(p)'
    <3>1. i \in Booked' /\ k \in Booked'
      BY <1>3 DEF BeginSwap, Booked
    <3> QED BY <2>1, <2>3, <3>1 DEF JobOK, NoJob
  <2> QED BY <1>3, <2>1, <2>2, <2>4, JobStep DEF BeginSwap
<1>4. CASE BeginArchive(p)
  <2>1. PICK r \in Requests :
          /\ r.op = "archive"
          /\ Goes(p, [NoJob EXCEPT !.pc = "read", !.req = r])
    BY <1>4 DEF BeginArchive
  <2> DEFINE j == [NoJob EXCEPT !.pc = "read", !.req = r]
  <2>2. j \in Job
    BY <2>1 DEF NoJob, Job, Steps
  <2>3. job'[p] = j
    BY <2>1 DEF Goes, TypeInv, TypeOK
  <2>4. JobOK(p)'
    BY <2>1, <2>3 DEF JobOK, NoJob
  <2> QED BY <1>4, <2>1, <2>2, <2>4, JobStep DEF BeginArchive
<1> QED BY <1>1, <1>2, <1>3, <1>4 DEF Begins
LEMMA ReadsType ==
  ASSUME TypeInv, NEW p \in Procs, Reads(p)
  PROVE  TypeInv'
<1> DEFINE r == job[p].req
           i == job[p].id
<1>0. job[p] # NoJob /\ UNCHANGED <<rows, rooms, debt>>
  BY DEF Reads, ReadForUpdate, ReadForFact, ReadForCancel, ReadForSwap, AssertZeroBalance,
         ReadRoom, ReadPlaces, ReadRoomType, ReadForArchive, At
<1>1. job[p] \in Job /\ JobOK(p) /\ r \in Requests
  BY <1>0, Serving
<1>2. Booked' = Booked
  BY <1>0 DEF Booked
<1>3. ASSUME NEW j \in Job, Goes(p, j)
      PROVE  job'[p] = j
  BY <1>3 DEF Goes, TypeInv, TypeOK
<1>4. NextAfterFolio(r) \in {"room", "write"}
      /\ (NextAfterFolio(r) = "room" => r.op = "update")
  BY DEF NextAfterFolio
<1>5. CASE ReadForUpdate(p)
  <2> DEFINE new == Merged(r, rows[i])
             pc  == IF (new.status # rows[i].status /\ new.status \in Facts)
                       /\ new.status = "CHECKED_OUT"
                    THEN "folio" ELSE NextAfterFolio(r)
             j   == [job[p] EXCEPT !.cur = rows[i], !.new = new, !.pc = pc]
  <2>1. r.op = "update" /\ Goes(p, j)
    BY <1>5 DEF ReadForUpdate, At
  <2>2. rows[i] \in Row /\ i \in Booked
    BY <1>0, <2>1, Serving
  <2>3. new \in Row
    BY <1>1, <2>2, MergedType
  <2>4. pc \in {"folio", "room", "write"}
    BY <1>4
  <2> HIDE DEF new, pc
  <2>5. j \in Job
    BY <1>1, <2>2, <2>3, <2>4 DEF Job, Steps
  <2>6. JobOK(p)'
    BY <1>0, <1>1, <1>2, <1>3, <2>1, <2>2, <2>3, <2>4, <2>5 DEF JobOK, Job
  <2> QED BY <1>0, <2>1, <2>5, <2>6, JobStep
<1>6. CASE ReadForFact(p)
  <2> DEFINE pc == IF r.status = "CHECKED_OUT" THEN "folio" ELSE "write"
             j  == [job[p] EXCEPT !.cur = rows[i], !.pc = pc]
  <2>1. r.op = "fact" /\ Goes(p, j)
    BY <1>6 DEF ReadForFact, At
  <2>2. rows[i] \in Row /\ i \in Booked
    BY <1>0, <2>1, Serving
  <2>3. pc \in {"folio", "write"}
    OBVIOUS
  <2> HIDE DEF pc
  <2>4. j \in Job
    BY <1>1, <2>2, <2>3 DEF Job, Steps
  <2>5. JobOK(p)'
    BY <1>0, <1>1, <1>2, <1>3, <2>1, <2>2, <2>3, <2>4 DEF JobOK, Job
  <2> QED BY <1>0, <2>1, <2>4, <2>5, JobStep
<1>7. CASE ReadForCancel(p)
  <2> DEFINE j == [job[p] EXCEPT !.cur = rows[i], !.pc = "write"]
  <2>1. r.op = "cancel" /\ Goes(p, j)
    BY <1>7 DEF ReadForCancel, At
  <2>2. rows[i] \in Row /\ i \in Booked
    BY <1>0, <2>1, Serving
  <2>3. j \in Job
    BY <1>1, <2>2 DEF Job, Steps
  <2>4. JobOK(p)'
    BY <1>0, <1>1, <1>2, <1>3, <2>1, <2>2, <2>3 DEF JobOK, Job
  <2> QED BY <1>0, <2>1, <2>3, <2>4, JobStep
<1>8. CASE ReadForSwap(p)
  <2> DEFINE j == [job[p] EXCEPT !.cur = rows[i], !.new = rows[job[p].other], !.pc = "write"]
  <2>1. r.op = "swap" /\ Goes(p, j)
    BY <1>8 DEF ReadForSwap, At
  <2>2. /\ rows[i] \in Row /\ i \in Booked
        /\ rows[job[p].other] \in Row /\ job[p].other \in Booked
    BY <1>0, <2>1, Serving
  <2>3. j \in Job
    BY <1>1, <2>2 DEF Job, Steps
  <2>4. JobOK(p)'
    <3>1. job'[p] = j
      BY <1>3, <2>1, <2>3
    <3>2. /\ j.req = r /\ j.id = i /\ j.other = job[p].other
          /\ j.pc = "write" /\ j.cur = rows[i] /\ j.new = rows[job[p].other]
      BY <1>1 DEF Job
    <3> HIDE DEF j
    <3> QED BY <1>2, <2>1, <2>2, <3>1, <3>2 DEF JobOK
  <2> QED BY <1>0, <2>1, <2>3, <2>4, JobStep
<1>9. CASE AssertZeroBalance(p)
  <2> DEFINE j == [job[p] EXCEPT !.pc = NextAfterFolio(r)]
  <2>1. job[p].pc = "folio" /\ Goes(p, j)
    BY <1>9 DEF AssertZeroBalance
  <2>2. j \in Job
    BY <1>1, <1>4 DEF Job, Steps
  <2>3. JobOK(p)'
    BY <1>0, <1>1, <1>2, <1>3, <1>4, <2>1, <2>2 DEF JobOK, Job
  <2> QED BY <1>0, <2>1, <2>2, <2>3, JobStep
<1>10. CASE ReadRoom(p)
  <2> DEFINE j == [job[p] EXCEPT !.pc = "places"]
  <2>1. job[p].pc = "room" /\ Goes(p, j)
    BY <1>10 DEF ReadRoom
  <2>2. j \in Job
    BY <1>1 DEF Job, Steps
  <2>3. JobOK(p)'
    BY <1>0, <1>1, <1>2, <1>3, <2>1, <2>2 DEF JobOK, Job
  <2> QED BY <1>0, <2>1, <2>2, <2>3, JobStep
<1>11. CASE ReadPlaces(p)
  <2> DEFINE pc == IF r.op = "update" /\ Moves(p) THEN "type" ELSE "write"
  <2>1. PICK place \in Int :
          /\ job[p].pc = "places"
          /\ Goes(p, [job[p] EXCEPT !.new.place = place, !.pc = pc])
    <3>1. job[p].pc = "places"
      BY <1>11 DEF ReadPlaces
    <3>2. job[p].new \in Row
      BY <1>0, <1>1, <3>1 DEF JobOK
    <3>3. /\ Capacity[job[p].new.room] \in Nat
          /\ job[p].new.guests \in Nat \ {0}
          /\ job[p].new.place \in Int
      BY <3>2 DEF Row
    <3> DEFINE n      == job[p].new
               others == Holders(Overlapping(n.room, n.from, n.to, i))
               alloc  == allocatePlace(Capacity[n.room], MultiPlace, n.guests, others)
    <3>4. alloc \in Int
      BY <3>3, AllocateType
    <3>5. r.place # None => r.place \in Int
      BY <1>1, RequestType DEF Request
    <3>6. \E place \in Int : Goes(p, [job[p] EXCEPT !.new.place = place, !.pc = pc])
      <4>1. CASE r.op = "update" /\ r.place # None
        BY <3>5, <4>1, <1>11 DEF ReadPlaces
      <4>2. CASE ~ (r.op = "update" /\ r.place # None)
        <5>1. \E place \in {n.place, alloc} :
                Goes(p, [job[p] EXCEPT !.new.place = place, !.pc = pc])
          BY <4>2, <1>11, Zenon DEF ReadPlaces
        <5> HIDE DEF alloc, others, pc
        <5> QED BY <5>1, <3>3, <3>4
      <4> QED BY <4>1, <4>2
    <3> QED BY <3>1, <3>6
  <2> DEFINE j == [job[p] EXCEPT !.new.place = place, !.pc = pc]
  <2>2. pc \in {"type", "write"} /\ (pc = "type" => r.op = "update")
    OBVIOUS
  <2> HIDE DEF pc
  <2>3. job[p].new \in Row /\ r.op \in {"create", "update"}
    BY <1>0, <1>1, <2>1 DEF JobOK
  <2>4. [job[p].new EXCEPT !.place = place] \in Row
    BY <2>3 DEF Row
  <2>5. j \in Job /\ j.new = [job[p].new EXCEPT !.place = place]
    BY <1>1, <2>2, <2>4 DEF Job, Steps
  <2>6. JobOK(p)'
    BY <1>0, <1>1, <1>2, <1>3, <2>1, <2>2, <2>3, <2>4, <2>5 DEF JobOK, Job
  <2> QED BY <1>0, <2>1, <2>5, <2>6, JobStep
<1>12. CASE ReadRoomType(p)
  <2> DEFINE j == [job[p] EXCEPT !.pc = "write"]
  <2>1. job[p].pc = "type" /\ Goes(p, j)
    BY <1>12 DEF ReadRoomType
  <2>2. j \in Job
    BY <1>1 DEF Job, Steps
  <2>3. JobOK(p)'
    BY <1>0, <1>1, <1>2, <1>3, <2>1, <2>2 DEF JobOK, Job
  <2> QED BY <1>0, <2>1, <2>2, <2>3, JobStep
<1>13. CASE ReadForArchive(p)
  <2> DEFINE j == [job[p] EXCEPT !.pc = "write"]
  <2>1. r.op = "archive" /\ Goes(p, j)
    BY <1>13 DEF ReadForArchive, At
  <2>2. j \in Job
    BY <1>1 DEF Job, Steps
  <2>3. JobOK(p)'
    BY <1>0, <1>1, <1>2, <1>3, <2>1, <2>2 DEF JobOK, Job
  <2> QED BY <1>0, <2>1, <2>2, <2>3, JobStep
<1> QED BY <1>5, <1>6, <1>7, <1>8, <1>9, <1>10, <1>11, <1>12, <1>13 DEF Reads
\* Replacing the row of a booking by a row keeps the table typed and loses nobody.
LEMMA RowWritten ==
  ASSUME TypeOK, NEW i \in Ids, NEW row \in Row, rows' = [rows EXCEPT ![i] = row]
  PROVE  /\ rows' \in [Ids -> Row \cup {None}]
         /\ Booked' = Booked \cup {i}
<1>1. rows' \in [Ids -> Row \cup {None}]
  BY DEF TypeOK
<1>2. \A k \in Ids : rows'[k] = IF k = i THEN row ELSE rows[k]
  BY DEF TypeOK
<1>3. row # None
  OBVIOUS
<1> QED BY <1>1, <1>2, <1>3 DEF Booked

\* The rows that the writing statements put together.
LEMMA RowEdits ==
  ASSUME NEW row \in Row
  PROVE  /\ \A st \in Statuses, w \in Nat : [row EXCEPT !.status = st, !.version = w] \in Row
         /\ \A st \in Statuses, a \in BOOLEAN, w \in Nat :
              [row EXCEPT !.status = st, !.arrived = a, !.version = w] \in Row
         /\ \A c \in BOOLEAN, a \in BOOLEAN, w \in Nat :
              [row EXCEPT !.channel = c, !.arrived = a, !.version = w] \in Row
         /\ \A place \in Int, w \in Nat : [row EXCEPT !.place = place, !.version = w] \in Row
BY DEF Row

LEMMA VacatedType ==
  ASSUME TypeOK, NEW room \in Rooms, NEW fact, Vacated(room, fact)
  PROVE  rooms' \in [Rooms -> [archived : BOOLEAN, dirty : BOOLEAN]]
BY DEF Vacated, TypeOK

LEMMA WritesType ==
  ASSUME TypeInv, NEW p \in Procs, Writes(p)
  PROVE  TypeInv'
<1> DEFINE r == job[p].req
           i == job[p].id
           k == job[p].other
<1>0. job[p] # NoJob /\ Done(p) /\ UNCHANGED debt /\ job[p].pc = "write"
  BY DEF Writes, Insert, WriteUpdate, WriteFact, WriteCancel, WriteSwap, WriteArchive, At
<1>1. job[p] \in Job /\ JobOK(p) /\ r \in Requests
  BY <1>0, Serving
<1>2. TypeOK
  BY DEF TypeInv
<1>3. debt' \in [Ids -> BOOLEAN]
  BY <1>0, <1>2 DEF TypeOK
<1>4. CASE Insert(p)
  <2>1. job[p].new \in Row /\ UNCHANGED rooms
    BY <1>0, <1>1, <1>4 DEF JobOK, Insert, At
  <2>2. PICK b \in Ids : rows' = [rows EXCEPT ![b] = job[p].new]
    BY <1>4 DEF Insert
  <2> QED BY <1>0, <1>2, <1>3, <2>1, <2>2, RowWritten, TableStep DEF TypeOK
<1>5. CASE WriteUpdate(p)
  <2>1. r.op = "update"
    BY <1>5 DEF WriteUpdate, At
  <2>2. i \in Ids /\ i \in Booked /\ rows[i] \in Row /\ job[p].new \in Row
    BY <1>0, <1>1, <2>1, Serving DEF JobOK
  <2>3. PICK fact :
          /\ rows' = [rows EXCEPT ![i] = [job[p].new EXCEPT
                        !.channel = rows[i].channel,
                        !.arrived = rows[i].arrived \/ fact = "CHECKED_IN",
                        !.version = rows[i].version + 1]]
          /\ Vacated(job[p].new.room, fact)
    BY <1>5, Zenon DEF WriteUpdate
  <2>4. [job[p].new EXCEPT !.channel = rows[i].channel,
                           !.arrived = rows[i].arrived \/ fact = "CHECKED_IN",
                           !.version = rows[i].version + 1] \in Row
    <3>1. /\ rows[i].version + 1 \in Nat
          /\ rows[i].channel \in BOOLEAN
          /\ (rows[i].arrived \/ fact = "CHECKED_IN") \in BOOLEAN
      BY <2>2 DEF Row
    <3> QED BY <2>2, <3>1, RowEdits
  <2>5. job[p].new.room \in Rooms
    BY <2>2 DEF Row
  <2> QED BY <1>0, <1>2, <1>3, <2>2, <2>3, <2>4, <2>5, RowWritten, VacatedType, TableStep
<1>6. CASE WriteFact(p)
  <2>1. r.op = "fact"
    BY <1>6 DEF WriteFact, At
  <2>2. i \in Ids /\ i \in Booked /\ rows[i] \in Row /\ job[p].cur.room \in Rooms
    BY <1>0, <1>1, <2>1, Serving DEF JobOK, Row
  <2>3. r.status \in Statuses
    BY <1>1, <2>1, RequestType DEF WellFormed, Facts, FactFrom, Statuses
  <2>4. [rows[i] EXCEPT !.status = r.status,
                        !.arrived = rows[i].arrived \/ r.status = "CHECKED_IN",
                        !.version = rows[i].version + 1] \in Row
    <3>1. /\ rows[i].version + 1 \in Nat
          /\ (rows[i].arrived \/ r.status = "CHECKED_IN") \in BOOLEAN
      BY <2>2 DEF Row
    <3> QED BY <2>2, <2>3, <3>1, RowEdits
  <2>5. rows' = [rows EXCEPT ![i] =
                   [rows[i] EXCEPT !.status = r.status,
                                   !.arrived = rows[i].arrived \/ r.status = "CHECKED_IN",
                                   !.version = rows[i].version + 1]]
    BY <1>2, <1>6, <2>2 DEF WriteFact, TypeOK
  <2>6. Vacated(job[p].cur.room, r.status)
    BY <1>6 DEF WriteFact
  <2> QED BY <1>0, <1>2, <1>3, <2>2, <2>4, <2>5, <2>6, RowWritten, VacatedType, TableStep
<1>7. CASE WriteCancel(p)
  <2>1. r.op = "cancel" /\ UNCHANGED rooms
    BY <1>7 DEF WriteCancel, At
  <2>2. i \in Ids /\ i \in Booked /\ rows[i] \in Row
    BY <1>0, <2>1, Serving
  <2>3. [rows[i] EXCEPT !.status = "CANCELLED", !.version = rows[i].version + 1] \in Row
    <3>1. rows[i].version + 1 \in Nat /\ "CANCELLED" \in Statuses
      BY <2>2 DEF Row, Statuses
    <3> QED BY <2>2, <3>1, RowEdits
  <2>4. rows' = [rows EXCEPT ![i] =
                   [rows[i] EXCEPT !.status = "CANCELLED", !.version = rows[i].version + 1]]
    BY <1>2, <1>7, <2>2 DEF WriteCancel, TypeOK
  <2> QED BY <1>0, <1>2, <1>3, <2>1, <2>2, <2>3, <2>4, RowWritten, TableStep DEF TypeOK
<1>8. CASE WriteSwap(p)
  <2>1. r.op = "swap" /\ UNCHANGED rooms
    BY <1>8 DEF WriteSwap, At
  <2>2. /\ i \in Ids /\ i \in Booked /\ rows[i] \in Row
        /\ k \in Ids /\ k \in Booked /\ rows[k] \in Row
        /\ job[p].cur.place \in Int /\ job[p].new.place \in Int
    BY <1>0, <1>1, <2>1, Serving DEF JobOK, Row
  <2> DEFINE mid == [rows EXCEPT ![i] = [rows[i] EXCEPT !.place = job[p].new.place,
                                                         !.version = rows[i].version + 1]]
  <2>3. /\ mid \in [Ids -> Row \cup {None}]
        /\ mid[k] \in Row
        /\ \A b \in Booked : mid[b] \in Row
    <3>1. [rows[i] EXCEPT !.place = job[p].new.place,
                          !.version = rows[i].version + 1] \in Row
      <4>1. rows[i].version + 1 \in Nat
        BY <2>2 DEF Row
      <4> QED BY <2>2, <4>1, RowEdits
    <3> QED BY <1>2, <2>2, <3>1, BookedRow DEF TypeOK
  <2>4. rows' = [mid EXCEPT ![k] = [mid[k] EXCEPT !.place = job[p].cur.place,
                                                  !.version = rows[k].version + 1]]
    BY <1>2, <1>8, <2>2 DEF WriteSwap, TypeOK
  <2> HIDE DEF mid
  <2>5. [mid[k] EXCEPT !.place = job[p].cur.place, !.version = rows[k].version + 1] \in Row
    <3>1. rows[k].version + 1 \in Nat
      BY <2>2 DEF Row
    <3> QED BY <2>2, <2>3, <3>1, RowEdits
  <2>6. rows' \in [Ids -> Row \cup {None}] /\ \A b \in Booked : rows'[b] \in Row
    BY <1>2, <2>2, <2>3, <2>4, <2>5, BookedRow
  <2>7. Booked \subseteq Booked'
    BY <1>2, <2>6, BookedRow DEF Booked
  <2> QED BY <1>0, <1>2, <1>3, <2>1, <2>6, <2>7, TableStep DEF TypeOK
<1>9. CASE WriteArchive(p)
  <2>1. UNCHANGED rows /\ rooms' \in [Rooms -> [archived : BOOLEAN, dirty : BOOLEAN]]
    BY <1>2, <1>9 DEF WriteArchive, TypeOK
  <2> QED BY <1>0, <1>2, <1>3, <2>1, TableStep DEF TypeOK, Booked
<1> QED BY <1>4, <1>5, <1>6, <1>7, <1>8, <1>9 DEF Writes

LEMMA OthersType ==
  ASSUME TypeInv, NEW p \in Procs,
         Restore(p) \/ SetRoomStatus(p) \/ PostToFolio(p) \/ Refuse(p)
  PROVE  TypeInv'
<1>1. CASE Restore(p)
  <2>1. UNCHANGED <<rows, debt, job>> /\ rooms' \in [Rooms -> [archived : BOOLEAN, dirty : BOOLEAN]]
    <3>1. PICK x \in Rooms : rooms' = [rooms EXCEPT ![x].archived = FALSE]
      BY <1>1 DEF Restore
    <3>2. rooms \in [Rooms -> [archived : BOOLEAN, dirty : BOOLEAN]]
      BY DEF TypeInv, TypeOK
    <3>3. [rooms[x] EXCEPT !.archived = FALSE] \in [archived : BOOLEAN, dirty : BOOLEAN]
      BY <3>2
    <3>4. rooms' \in [Rooms -> [archived : BOOLEAN, dirty : BOOLEAN]]
      BY <3>1, <3>2, <3>3
    <3> QED BY <1>1, <3>4 DEF Restore
  <2>2. rows' \in [Ids -> Row \cup {None}] /\ debt' \in [Ids -> BOOLEAN] /\ Booked \subseteq Booked'
    BY <2>1 DEF TypeInv, TypeOK, Booked
  <2> QED BY <2>1, <2>2, TableStep
<1>2. CASE SetRoomStatus(p)
  BY <1>2, TableStep DEF SetRoomStatus, TypeInv, TypeOK, Booked
<1>3. CASE PostToFolio(p)
  BY <1>3, TableStep DEF PostToFolio, TypeInv, TypeOK, Booked
<1>4. CASE Refuse(p)
  BY <1>4, TableStep DEF Refuse, TypeInv, TypeOK, Booked
<1> QED BY <1>1, <1>2, <1>3, <1>4

LEMMA TypeStep == TypeInv /\ [Next]_vars => TypeInv'
<1> SUFFICES ASSUME TypeInv, [Next]_vars PROVE TypeInv'
  OBVIOUS
<1>1. CASE UNCHANGED vars
  BY <1>1 DEF vars, TypeInv, TypeOK, JobOK, Booked
<1>2. CASE Next
  BY <1>2, BeginsType, ReadsType, WritesType, OthersType DEF Next
<1> QED BY <1>1, <1>2

\* The tables and the jobs keep their types in every run of the system, whatever
\* the interleaving: no request leaves a row with a missing or foreign value.
THEOREM TypeCorrect == Spec => []TypeOK
<1>1. TypeInv => TypeOK
  BY DEF TypeInv
<1> QED BY <1>1, TypeInit, TypeStep, PTL DEF Spec

(***************************************************************************)
(* Requests that overtake one another, any number of them: what goes wrong *)
(* with rooms and folios goes wrong by an overtaken request, or by a       *)
(* booking revived by its status alone.                                    *)
(***************************************************************************)
-----------------------------------------------------------------------------
(* A request that nobody has overtaken *)

LEMMA OvertakingInit == HInit => OvertakingInv
BY TypeInit DEF HInit, Init, OvertakingInv, SharedForAReason, LostFromSightForAReason, Occupying,
                Booked

\* It holds what is so: a step that concerns it not leaves that so.
LEMMA UndisturbedHolds ==
  ASSUME TypeInv, NEW p \in Procs, job[p] # NoJob, StillHolds(job[p]),
         NothingRead(job[p]) \/ ~Concerns(job[p]), job'[p] = job[p]
  PROVE  StillHolds(job[p])'
<1> DEFINE j  == job[p]
           op == job[p].req.op
           n  == job[p].new
<1>1. /\ j \in Job /\ j.req \in Requests
      /\ op \in {"update", "fact"} => j.id \in Ids
      /\ op \in {"create", "update"} /\ j.pc # "read" => n \in Row
      /\ op = "create" => n \in Row
  BY Serving DEF JobOK
<1> HIDE DEF j, n
<1>2. CASE NothingRead(j)
  BY <1>2 DEF NothingRead, StillHolds, Places, j, n
<1>3. CASE ~NothingRead(j) /\ ~Concerns(j)
  <2>1. op \in {"update", "fact"} => rows'[j.id] = rows[j.id] /\ debt'[j.id] = debt[j.id]
    BY <1>1, <1>3 DEF Concerns, Written
  <2>2. ASSUME NEW k \in Booked', rows'[k].room = LooksAt(j)
        PROVE  k \in Booked /\ rows'[k] = rows[k]
    BY <1>3, <2>2 DEF Concerns, Written, Booked
  <2>3. ASSUME NEW r \in Rooms, r = LooksAt(j)
        PROVE  rooms'[r].archived = rooms[r].archived
    BY <1>3, <2>3 DEF Concerns
  <2>4. Places(j) => op \in {"create", "update"} /\ LooksAt(j) = n.room
    BY DEF Places, LooksAt, j, n
  <2>5. Places(j) /\ j.pc # "read" => n.room \in Rooms
    BY <1>1, <2>4 DEF Row
  <2>6. ASSUME Places(j), j.pc \in {"places", "type", "write"}
        PROVE  (~rooms[n.room].archived)'
    <3>1. ~rooms[n.room].archived
      BY <2>6 DEF StillHolds, j, n
    <3>2. n' = n
      BY DEF n
    <3> QED BY <2>3, <2>4, <2>5, <2>6, <3>1, <3>2
  <2>7. ASSUME Places(j), j.pc \in {"type", "write"}
        PROVE  VacantBut(n, j.id, {})'
    <3>1. VacantBut(n, j.id, {})
      BY <2>7 DEF StillHolds, j, n
    <3>2. n' = n /\ j' = j
      BY DEF n, j
    <3>3. \A k \in Booked' : rows'[k].room = n.room => k \in Booked /\ rows'[k] = rows[k]
      BY <2>2, <2>4, <2>7
    <3> QED BY <3>1, <3>2, <3>3 DEF VacantBut
  <2>8. ASSUME op = "archive", j.pc # "read"
        PROVE  (\A i \in Booked : rows[i].room = j.req.room => rows[i].status \notin Live)'
    <3>1. \A i \in Booked : rows[i].room = j.req.room => rows[i].status \notin Live
      BY <2>8 DEF StillHolds, j
    <3>2. j' = j /\ LooksAt(j) = j.req.room
      BY <2>8 DEF LooksAt, j
    <3> QED BY <2>2, <3>1, <3>2
  <2>9. job'[p] = j /\ j' = j /\ n' = n
    BY DEF j, n
  <2>10. Places(j)' = Places(j) /\ Departs(j)' = Departs(j) /\ BareRevival(j)' = BareRevival(j)
    BY <2>9 DEF Places, Departs, BareRevival
  <2>11. StillHolds(j)
    BY DEF j
  <2> QED BY <2>1, <2>6, <2>7, <2>8, <2>9, <2>10, <2>11 DEF StillHolds, j, n
<1> QED BY <1>2, <1>3 DEF j

\* Who is not overtaken after a step was not before, and the step is its own, or
\* does not concern what it has read.
LEMMA NotOvertaken ==
  ASSUME NoteOvertaken, NEW p \in Procs, p \notin overtaken', job[p] # NoJob, job'[p] # NoJob
  PROVE  p \notin overtaken /\ (NothingRead(job[p]) \/ ~Concerns(job[p]))
BY DEF NoteOvertaken

\* Other requests are where they were; it is left to show what the step leaves to
\* request p and to the tables.
LEMMA OthersHold ==
  ASSUME OvertakingInv, TypeInv', NoteOvertaken, NEW p \in Procs,
         \A q \in Procs \ {p} : job'[q] = job[q],
         p \notin overtaken' /\ job'[p] # NoJob => StillHolds(job[p])',
         SharedForAReason', LostFromSightForAReason'
  PROVE  OvertakingInv'
<1>1. ASSUME NEW q \in Procs, q # p, q \notin overtaken', job'[q] # NoJob
      PROVE  StillHolds(job[q])'
  <2>1. job'[q] = job[q]
    BY <1>1
  <2>2. q \notin overtaken /\ (NothingRead(job[q]) \/ ~Concerns(job[q]))
    BY <1>1, <2>1, NotOvertaken
  <2>3. TypeInv /\ StillHolds(job[q])
    BY <1>1, <2>1, <2>2 DEF OvertakingInv
  <2> QED BY <1>1, <2>1, <2>2, <2>3, UndisturbedHolds
<1> QED BY <1>1 DEF OvertakingInv

\* With the tables as they were, the history is as it was.
LEMMA QuietStep ==
  ASSUME OvertakingInv, TypeInv', NoteOvertaken, NoteDoubtful, NoteHasty, NEW p \in Procs,
         \A q \in Procs \ {p} : job'[q] = job[q],
         p \notin overtaken' /\ job'[p] # NoJob => StillHolds(job[p])',
         rows' = rows, \A r \in Rooms : rooms'[r].archived => rooms[r].archived
  PROVE  OvertakingInv'
<1>1. doubtful' = doubtful
  BY DEF NoteDoubtful, Written
<1>2. SharedForAReason'
  BY <1>1 DEF OvertakingInv, SharedForAReason, Occupying, Booked
<1>3. \A i \in Booked : rows[i].room \in Rooms
  BY BookedRow DEF OvertakingInv, TypeInv, Row
<1>4. \A r \in Rooms : rooms'[r].archived /\ r \in hasty => r \in hasty'
  BY DEF NoteHasty
<1>5. LostFromSightForAReason'
  BY <1>1, <1>3, <1>4 DEF OvertakingInv, LostFromSightForAReason, Booked
<1> QED BY <1>2, <1>5, OthersHold

\* Request p goes on as j, which holds what it should unless it was overtaken.
LEMMA ReadingStep ==
  ASSUME OvertakingInv, TypeInv', NoteOvertaken, NoteDoubtful, NoteHasty, NEW p \in Procs, NEW j,
         UNCHANGED <<rows, rooms, debt>>, Goes(p, j),
         p \notin overtaken \/ job[p] = NoJob => StillHolds(j)
  PROVE  OvertakingInv'
<1>1. job'[p] = j /\ \A q \in Procs \ {p} : job'[q] = job[q]
  BY DEF Goes, OvertakingInv, TypeInv, TypeOK
<1>2. ASSUME p \notin overtaken', job'[p] # NoJob
      PROVE  StillHolds(job[p])'
  <2>1. p \notin overtaken \/ job[p] = NoJob
    BY <1>2, NotOvertaken
  <2>2. StillHolds(j)
    BY <2>1
  <2> QED BY <1>1, <2>2 DEF StillHolds, VacantBut, Booked, Places, BareRevival, Departs
<1> QED BY <1>1, <1>2, QuietStep

LEMMA OvertakingBegins ==
  ASSUME OvertakingInv, TypeInv', NoteOvertaken, NoteDoubtful, NoteHasty,
         NEW p \in Procs, Begins(p)
  PROVE  OvertakingInv'
<1>1. UNCHANGED <<rows, rooms, debt>>
  BY Zenon DEF Begins, BeginCreate, Begin, BeginSwap, BeginArchive
<1>2. PICK j : /\ Goes(p, j)
               /\ j.pc = "read" \/ (j.pc = "room" /\ j.req.op = "create")
  <2>1. CASE BeginCreate(p)
    <3>1. PICK r \in Requests :
            /\ r.op = "create"
            /\ Goes(p, [NoJob EXCEPT !.pc = "room", !.req = r, !.new = Fresh(r)])
      BY <2>1, Zenon DEF BeginCreate
    <3> DEFINE j == [NoJob EXCEPT !.pc = "room", !.req = r, !.new = Fresh(r)]
    <3>2. j.pc = "room" /\ j.req.op = "create"
      BY <3>1 DEF NoJob
    <3> QED BY <3>1, <3>2, Zenon
  <2>2. CASE Begin(p)
    <3>1. PICK r, i, v :
            Goes(p, [NoJob EXCEPT !.pc = "read", !.req = r, !.id = i, !.seen = v])
      BY <2>2, Zenon DEF Begin
    <3> DEFINE j == [NoJob EXCEPT !.pc = "read", !.req = r, !.id = i, !.seen = v]
    <3>2. j.pc = "read"
      BY DEF NoJob
    <3> QED BY <3>1, <3>2, Zenon
  <2>3. CASE BeginSwap(p)
    <3>1. PICK r, i, k, v, w :
            Goes(p, [NoJob EXCEPT !.pc = "read", !.req = r, !.id = i, !.other = k,
                                   !.seen = v, !.seenOther = w])
      BY <2>3, Zenon DEF BeginSwap
    <3> DEFINE j == [NoJob EXCEPT !.pc = "read", !.req = r, !.id = i, !.other = k,
                                   !.seen = v, !.seenOther = w]
    <3>2. j.pc = "read"
      BY DEF NoJob
    <3> QED BY <3>1, <3>2, Zenon
  <2>4. CASE BeginArchive(p)
    <3>1. PICK r \in Requests : Goes(p, [NoJob EXCEPT !.pc = "read", !.req = r])
      BY <2>4, Zenon DEF BeginArchive
    <3> DEFINE j == [NoJob EXCEPT !.pc = "read", !.req = r]
    <3>2. j.pc = "read"
      BY DEF NoJob
    <3> QED BY <3>1, <3>2, Zenon
  <2> QED BY <2>1, <2>2, <2>3, <2>4 DEF Begins
<1>3. StillHolds(j)
  BY <1>2 DEF StillHolds, Places
<1> QED BY <1>1, <1>2, <1>3, ReadingStep


-----------------------------------------------------------------------------
(* What a reading statement establishes for the statements after it *)

LEMMA UpdateReadHolds ==
  ASSUME TypeInv, NEW p \in Procs, ReadForUpdate(p)
  PROVE  \E j : Goes(p, j) /\ StillHolds(j)
<1> DEFINE r   == job[p].req
           i   == job[p].id
           cur == rows[i]
           new == Merged(r, cur)
           fact == new.status # cur.status /\ new.status \in Facts
           pc  == IF fact /\ new.status = "CHECKED_OUT" THEN "folio" ELSE NextAfterFolio(r)
           j   == [job[p] EXCEPT !.cur = cur, !.new = new, !.pc = pc]
<1>1. /\ job[p] # NoJob /\ r.op = "update"
      /\ fact => cur.status \in FactFrom[new.status]
      /\ Goes(p, j)
  BY DEF ReadForUpdate, At, AdmitsFact
<1>2. job[p] \in Job /\ r \in Requests /\ i \in Booked /\ cur \in Row /\ new \in Row
  BY <1>1, Serving, MergedType
<1>3. ASSUME ~Touches(r)
      PROVE  SameStay(new, cur)
  BY <1>2, <1>3 DEF Touches, Merged, Or, Row, SameStay
<1>4. /\ pc \in {"folio", "room", "write"}
      /\ pc = "write" => ~Touches(r)
      /\ pc # "folio" => ~ (new.status = "CHECKED_OUT" /\ cur.status # "CHECKED_OUT")
  BY <1>1 DEF NextAfterFolio, Facts, FactFrom
<1>5. j.cur = cur /\ j.new = new /\ j.pc = pc /\ j.req = r /\ j.id = i
  BY <1>2 DEF Job
<1>6. ASSUME ~Touches(r)
      PROVE  Carries(cur.status, new.status) \/ BareRevival(j)
  <2>1. cur.status \in Statuses /\ new.status \in Statuses
    BY <1>2 DEF Row
  <2>2. CASE new.status = cur.status
    BY <2>2 DEF Carries
  <2>3. CASE new.status # cur.status
    <3>1. CASE new.status \in {"NEW", "CONFIRMED"}
      <4> HIDE DEF j, new, cur
      <4> QED BY <1>1, <1>5, <1>6, <3>1 DEF Carries, BareRevival, Live
    <3>2. CASE new.status \in Released
      BY <3>2 DEF Carries
    <3>3. CASE new.status = "CHECKED_IN"
      <4>1. cur.status \in {"NEW", "CONFIRMED"}
        BY <1>1, <2>3, <3>3 DEF FactFrom, Facts
      <4> QED BY <3>3, <4>1 DEF Carries, Live
    <3>4. CASE new.status = "CHECKED_OUT"
      <4>1. cur.status \in {"CHECKED_IN"}
        BY <1>1, <2>3, <3>4 DEF FactFrom, Facts
      <4> QED BY <3>4, <4>1 DEF Carries, Live, Released
    <3> QED BY <2>1, <3>1, <3>2, <3>3, <3>4 DEF Statuses, Released
  <2> QED BY <2>2, <2>3
<1> HIDE DEF new, pc, j, fact
<1>7. StillHolds(j)
  BY <1>1, <1>3, <1>4, <1>5, <1>6 DEF StillHolds, Places, Departs
<1> QED BY <1>1, <1>7

\* The nights are free when no booking holds a place in them: of a room sold as a
\* whole a single holder takes them all.
LEMMA PlacesVacant ==
  ASSUME TypeInv, NEW p \in Procs, job[p] # NoJob, ReadPlaces(p)
  PROVE  \E place \in Int, pc \in {"type", "write"} :
           /\ Goes(p, [job[p] EXCEPT !.new.place = place, !.pc = pc])
           /\ VacantBut(job[p].new, job[p].id, {})
<1> DEFINE r      == job[p].req
           i      == job[p].id
           n      == job[p].new
           ids    == Overlapping(n.room, n.from, n.to, i)
           others == Holders(ids)
           cap    == Capacity[n.room]
           pc     == IF r.op = "update" /\ Moves(p) THEN "type" ELSE "write"
<1>1. job[p] \in Job /\ JobOK(p) /\ r \in Requests /\ job[p].pc = "places"
  BY Serving DEF ReadPlaces
<1>2. n \in Row
  BY <1>1 DEF JobOK
<1>3. cap \in Nat /\ n.guests \in Nat \ {0} /\ n.place \in Int
  BY <1>2 DEF Row
<1>4. PICK place :
        /\ Goes(p, [job[p] EXCEPT !.new.place = place, !.pc = pc])
        /\ \/ r.place # None /\ place = r.place
              /\ spanFree(place, cap, MultiPlace, n.guests, others)
           \/ spanFree(n.place, cap, MultiPlace, n.guests, others) /\ place = n.place
           \/ place = allocatePlace(cap, MultiPlace, n.guests, others) /\ place # NoPlace
  BY Zenon DEF ReadPlaces
<1>5. place \in Int
  <2>1. r.place # None => r.place \in Int
    BY <1>1, RequestType DEF Request
  <2>2. allocatePlace(cap, MultiPlace, n.guests, others) \in Int
    BY <1>3, AllocateType
  <2> QED BY <1>3, <1>4, <2>1, <2>2
<1>6. ~MultiPlace => others = {}
  <2> SUFFICES ASSUME MultiPlace = FALSE PROVE others = {}
    OBVIOUS
  <2> HIDE DEF others, cap
  <2> QED BY <1>3, <1>4, <1>5, WholeRoomIsExclusive
<1>7. VacantBut(n, i, {})
  <2>1. ~MultiPlace => ids = {}
    BY <1>6 DEF Holders
  <2> HIDE <1>4, <1>6
  <2>2. ASSUME ~MultiPlace, n.status \notin Released,
               NEW k \in Booked \ {i}, rows[k].status \notin Released, rows[k].room = n.room
        PROVE  rows[k].to <= n.from \/ n.to <= rows[k].from
    <3>1. ~ (rows[k].from < n.to /\ rows[k].to > n.from)
      BY <2>1, <2>2 DEF Overlapping
    <3>2. rows[k].from \in Int /\ rows[k].to \in Int /\ n.from \in Int /\ n.to \in Int
      BY <1>2, BookedRow DEF Row, TypeInv
    <3> HIDE DEF n
    <3> QED BY <3>1, <3>2
  <2> QED BY <2>2 DEF VacantBut
<1>8. pc \in {"type", "write"}
  OBVIOUS
<1> HIDE DEF pc
<1>9. Goes(p, [job[p] EXCEPT !.new.place = place, !.pc = pc])
  BY <1>4
<1> HIDE <1>4
<1> QED BY <1>5, <1>7, <1>8, <1>9, Zenon


\* Each reading statement of a request that holds what it should goes on to one
\* that does.
LEMMA ReadsHold ==
  ASSUME TypeInv, NEW p \in Procs, Reads(p)
  PROVE  \E j : Goes(p, j) /\ (StillHolds(job[p]) => StillHolds(j))
<1> DEFINE r == job[p].req
           i == job[p].id
<1>0. job[p] # NoJob
  BY DEF Reads, ReadForUpdate, ReadForFact, ReadForCancel, ReadForSwap, AssertZeroBalance,
         ReadRoom, ReadPlaces, ReadRoomType, ReadForArchive, At
<1>1. job[p] \in Job /\ JobOK(p) /\ r \in Requests
  BY <1>0, Serving
<1>2. /\ NextAfterFolio(r) \in {"room", "write"}
      /\ NextAfterFolio(r) = "write" => ~ (r.op = "update" /\ Touches(r))
  BY DEF NextAfterFolio
<1>3. CASE ReadForUpdate(p)
  BY <1>3, UpdateReadHolds
<1>4. CASE ReadForFact(p)
  <2> DEFINE pc == IF r.status = "CHECKED_OUT" THEN "folio" ELSE "write"
             j  == [job[p] EXCEPT !.cur = rows[i], !.pc = pc]
  <2>1. r.op = "fact" /\ Goes(p, j) /\ rows[i].status \in FactFrom[r.status]
    BY <1>4 DEF ReadForFact, At, AdmitsFact
  <2>2. j.req = r /\ j.id = i /\ j.cur = rows[i] /\ j.pc = pc
    BY <1>1 DEF Job
  <2> HIDE DEF j
  <2>3. StillHolds(j)
    BY <2>1, <2>2 DEF StillHolds, Places, Departs
  <2> QED BY <2>1, <2>3
<1>5. CASE ReadForCancel(p)
  <2> DEFINE j == [job[p] EXCEPT !.cur = rows[i], !.pc = "write"]
  <2>1. r.op = "cancel" /\ Goes(p, j)
    BY <1>5 DEF ReadForCancel, At
  <2>2. j.req = r
    BY <1>1 DEF Job
  <2> HIDE DEF j
  <2>3. StillHolds(j)
    BY <2>1, <2>2 DEF StillHolds, Places
  <2> QED BY <2>1, <2>3
<1>6. CASE ReadForSwap(p)
  <2> DEFINE j == [job[p] EXCEPT !.cur = rows[i], !.new = rows[job[p].other], !.pc = "write"]
  <2>1. r.op = "swap" /\ Goes(p, j)
    BY <1>6 DEF ReadForSwap, At
  <2>2. j.req = r
    BY <1>1 DEF Job
  <2> HIDE DEF j
  <2>3. StillHolds(j)
    BY <2>1, <2>2 DEF StillHolds, Places
  <2> QED BY <2>1, <2>3
<1>7. CASE AssertZeroBalance(p)
  <2> DEFINE j == [job[p] EXCEPT !.pc = NextAfterFolio(r)]
  <2>1. job[p].pc = "folio" /\ ~debt[i] /\ Goes(p, j)
    BY <1>7 DEF AssertZeroBalance
  <2>2. r.op \in {"update", "fact"}
    BY <1>0, <1>1, <2>1 DEF JobOK
  <2>3. j.req = r /\ j.id = i /\ j.cur = job[p].cur /\ j.new = job[p].new /\ j.pc = NextAfterFolio(r)
    BY <1>1 DEF Job
  <2> HIDE DEF j
  <2>4. StillHolds(job[p]) => StillHolds(j)
    BY <1>2, <2>1, <2>2, <2>3 DEF StillHolds, Places, BareRevival
  <2> QED BY <2>1, <2>4
<1>8. CASE ReadRoom(p)
  <2> DEFINE j == [job[p] EXCEPT !.pc = "places"]
  <2>1. job[p].pc = "room" /\ Goes(p, j) /\ ~rooms[job[p].new.room].archived
    BY <1>8 DEF ReadRoom
  <2>2. j.req = r /\ j.id = i /\ j.cur = job[p].cur /\ j.new = job[p].new /\ j.pc = "places"
    BY <1>1 DEF Job
  <2>3. r.op \in {"create", "update"}
    BY <1>0, <1>1, <2>1 DEF JobOK
  <2> HIDE DEF j
  <2>4. StillHolds(job[p]) => StillHolds(j)
    BY <2>1, <2>2, <2>3 DEF StillHolds, Places, BareRevival, Departs
  <2> QED BY <2>1, <2>4
<1>9. CASE ReadPlaces(p)
  <2>1. PICK place \in Int, pc \in {"type", "write"} :
          /\ Goes(p, [job[p] EXCEPT !.new.place = place, !.pc = pc])
          /\ VacantBut(job[p].new, i, {})
    BY <1>0, <1>9, PlacesVacant, Zenon
  <2> DEFINE j == [job[p] EXCEPT !.new.place = place, !.pc = pc]
             n == job[p].new
             m == [n EXCEPT !.place = place]
  <2>2. job[p].pc = "places" /\ n \in Row /\ r.op \in {"create", "update"}
    BY <1>0, <1>1, <1>9 DEF ReadPlaces, JobOK
  <2>3. m.room = n.room /\ m.from = n.from /\ m.to = n.to /\ m.status = n.status
    BY <2>2 DEF Row
  <2>4. j.req = r /\ j.id = i /\ j.cur = job[p].cur /\ j.new = m /\ j.pc = pc
    BY <1>1 DEF Job
  <2>5. Goes(p, j)
    BY <2>1
  <2> HIDE DEF j, m
  <2>6. VacantBut(m, i, {})
    BY <2>1, <2>3 DEF VacantBut
  <2>7. ASSUME StillHolds(job[p]) PROVE StillHolds(j)
    <3>1. Places(j) = Places(job[p]) /\ Departs(j) = Departs(job[p])
          /\ BareRevival(j) = BareRevival(job[p])
      BY <2>2, <2>3, <2>4 DEF Places, Departs, BareRevival
    <3>2. SameStay(n, job[p].cur) => SameStay(m, job[p].cur)
      BY <2>3 DEF SameStay
    <3> QED BY <2>1, <2>2, <2>3, <2>4, <2>6, <2>7, <3>1, <3>2 DEF StillHolds
  <2> QED BY <2>5, <2>7
<1>10. CASE ReadRoomType(p)
  <2> DEFINE j == [job[p] EXCEPT !.pc = "write"]
  <2>1. job[p].pc = "type" /\ Goes(p, j)
    BY <1>10 DEF ReadRoomType
  <2>2. j.req = r /\ j.id = i /\ j.cur = job[p].cur /\ j.new = job[p].new /\ j.pc = "write"
    BY <1>1 DEF Job
  <2>3. r.op \in {"create", "update"}
    BY <1>0, <1>1, <2>1 DEF JobOK
  <2> HIDE DEF j
  <2>4. StillHolds(job[p]) => StillHolds(j)
    BY <2>1, <2>2, <2>3 DEF StillHolds, Places, BareRevival, Departs
  <2> QED BY <2>1, <2>4
<1>11. CASE ReadForArchive(p)
  <2> DEFINE j == [job[p] EXCEPT !.pc = "write"]
  <2>1. /\ r.op = "archive" /\ Goes(p, j)
        /\ \A b \in Booked : rows[b].room = r.room => rows[b].status \notin Live
    BY <1>11 DEF ReadForArchive, At
  <2>2. j.req = r
    BY <1>1 DEF Job
  <2> HIDE DEF j
  <2>3. StillHolds(j)
    BY <2>1, <2>2 DEF StillHolds, Places
  <2> QED BY <2>1, <2>3
<1> QED BY <1>3, <1>4, <1>5, <1>6, <1>7, <1>8, <1>9, <1>10, <1>11 DEF Reads

LEMMA OvertakingReads ==
  ASSUME OvertakingInv, TypeInv', NoteOvertaken, NoteDoubtful, NoteHasty,
         NEW p \in Procs, Reads(p)
  PROVE  OvertakingInv'
<1>1. job[p] # NoJob /\ UNCHANGED <<rows, rooms, debt>>
  BY DEF Reads, ReadForUpdate, ReadForFact, ReadForCancel, ReadForSwap, AssertZeroBalance,
         ReadRoom, ReadPlaces, ReadRoomType, ReadForArchive, At
<1>2. PICK j : Goes(p, j) /\ (StillHolds(job[p]) => StillHolds(j))
  BY ReadsHold DEF OvertakingInv
<1>3. p \notin overtaken \/ job[p] = NoJob => StillHolds(j)
  BY <1>1, <1>2 DEF OvertakingInv
<1> QED BY <1>1, <1>2, <1>3, ReadingStep


-----------------------------------------------------------------------------
(* What writing does to the book *)

LEMMA VacatedKeepsArchive ==
  ASSUME TypeOK, NEW room \in Rooms, NEW fact, Vacated(room, fact)
  PROVE  \A r \in Rooms : rooms'[r].archived = rooms[r].archived
BY DEF Vacated, TypeOK

\* The history of a step in which request p ends.
LEMMA NoteOfEnd ==
  ASSUME TypeInv, NEW p \in Procs, job[p] # NoJob, Done(p), NoteDoubtful, NoteHasty
  PROVE  /\ Written = {} => doubtful' = doubtful
         /\ Written # {} =>
              doubtful' = IF p \in overtaken \/ BareRevival(job[p]) THEN doubtful \cup Written
                          ELSE IF Places(job[p]) THEN doubtful \ Written ELSE doubtful
         /\ \A r \in Rooms : rooms'[r].archived /\ rooms[r].archived /\ r \in hasty => r \in hasty'
         /\ \A r \in Rooms : rooms'[r].archived /\ ~rooms[r].archived /\ p \in overtaken => r \in hasty'
<1>1. job'[p] = NoJob /\ \A q \in Procs \ {p} : job'[q] = job[q]
  BY DEF Done, Goes, TypeInv, TypeOK
<1>2. Ends(p) /\ \A q \in Procs : Ends(q) => q = p
  BY <1>1 DEF Ends
<1>3. Written # {} =>
        doubtful' = IF p \in overtaken \/ BareRevival(job[p]) THEN doubtful \cup Written
                    ELSE IF Places(job[p]) THEN doubtful \ Written ELSE doubtful
  BY <1>2, Zenon DEF NoteDoubtful
<1>4. Written = {} => doubtful' = doubtful
  BY DEF NoteDoubtful
<1>5. ASSUME NEW r \in Rooms, rooms'[r].archived,
             r \in hasty \/ (~rooms[r].archived /\ p \in overtaken)
      PROVE  r \in hasty'
  BY <1>2, <1>5 DEF NoteHasty
<1> QED BY <1>3, <1>4, <1>5

\* The row m of booking i may be written by request p: nobody of whom we are sure is
\* in its way, and its room is open or hastily archived.
Admitted(i, m) ==
  /\ VacantBut(m, i, doubtful')
  /\ m.status \in Live /\ rooms[m.room].archived => m.room \in hasty

\* Writing one row, of which p says whether it may be relied on.
LEMMA PutKeepsRules ==
  ASSUME TypeInv, SharedForAReason, LostFromSightForAReason,
         NEW i \in Ids, NEW m \in Row, rows' = [rows EXCEPT ![i] = m],
         \A r \in Rooms : rooms'[r].archived = rooms[r].archived,
         \A r \in Rooms : rooms'[r].archived /\ rooms[r].archived /\ r \in hasty => r \in hasty',
         \A k \in Ids \ {i} : k \notin doubtful' => k \notin doubtful,
         i \notin doubtful' => Admitted(i, m)
  PROVE  SharedForAReason' /\ LostFromSightForAReason'
<1>1. \A k \in Ids : rows'[k] = IF k = i THEN m ELSE rows[k]
  BY DEF TypeInv, TypeOK
<1>2. SharedForAReason'
  <2> SUFFICES ASSUME ~MultiPlace,
                      NEW a \in Occupying' \ doubtful', NEW b \in Occupying' \ doubtful',
                      a # b, rows'[a].room = rows'[b].room
               PROVE  rows'[a].to <= rows'[b].from \/ rows'[b].to <= rows'[a].from
    BY DEF SharedForAReason
  <2>1. a \in Ids /\ b \in Ids
    BY DEF Occupying, Booked
  <2>2. \A k \in {a, b} : k # i => k \in Occupying /\ k \notin doubtful /\ rows'[k] = rows[k]
    BY <1>1, <2>1 DEF Occupying, Booked
  <2>3. i \in {a, b} => m.status \notin Released /\ VacantBut(m, i, doubtful')
    BY <1>1, <2>1 DEF Occupying, Admitted
  <2>4. CASE a # i /\ b # i
    BY <2>2, <2>4 DEF SharedForAReason
  <2>5. CASE a = i
    BY <1>1, <2>1, <2>2, <2>3, <2>5 DEF VacantBut, Occupying
  <2>6. CASE b = i
    BY <1>1, <2>1, <2>2, <2>3, <2>6 DEF VacantBut, Occupying
  <2> QED BY <2>4, <2>5, <2>6
<1>3. LostFromSightForAReason'
  <2> SUFFICES ASSUME NEW k \in Booked' \ doubtful', rows'[k].status \in Live,
                      rooms'[rows'[k].room].archived
               PROVE  rows'[k].room \in hasty'
    BY DEF LostFromSightForAReason
  <2>1. k \in Ids
    BY DEF Booked
  <2>2. CASE k = i
    <3>1. rows'[k] = m /\ m.room \in Rooms
      BY <1>1, <2>1, <2>2 DEF Row
    <3> QED BY <2>2, <3>1 DEF Admitted
  <2>3. CASE k # i
    <3>1. k \in Booked \ doubtful /\ rows'[k] = rows[k]
      BY <1>1, <2>1, <2>3 DEF Booked
    <3>2. rows[k].room \in Rooms
      BY <3>1, BookedRow DEF Row, TypeInv
    <3> QED BY <3>1, <3>2 DEF LostFromSightForAReason
  <2> QED BY <2>2, <2>3
<1> QED BY <1>2, <1>3

\* A booking of which we are sure, written with its stay: if its status carries, it
\* may be written.
LEMMA CarriedIsAdmitted ==
  ASSUME TypeInv, SharedForAReason, LostFromSightForAReason,
         NEW i \in Booked \ doubtful, NEW m, SameStay(m, rows[i]), Carries(rows[i].status, m.status),
         \A k \in Ids \ {i} : k \notin doubtful' => k \notin doubtful
  PROVE  Admitted(i, m)
<1>1. Live \cap Released = {}
  BY DEF Live, Released
<1>2. /\ m.status \notin Released => rows[i].status \notin Released
      /\ m.status \in Live => rows[i].status \in Live
  BY <1>1 DEF Carries
<1>3. m.room = rows[i].room /\ m.from = rows[i].from /\ m.to = rows[i].to
  BY DEF SameStay
<1>4. VacantBut(m, i, doubtful')
  BY <1>2, <1>3 DEF VacantBut, SharedForAReason, Occupying, Booked
<1>5. m.status \in Live /\ rooms[m.room].archived => m.room \in hasty
  BY <1>2, <1>3 DEF LostFromSightForAReason
<1> QED BY <1>4, <1>5 DEF Admitted

\* One row written by request p, whatever the history says of p.
LEMMA RowWrite ==
  ASSUME OvertakingInv, NoteDoubtful, NoteHasty,
         NEW p \in Procs, job[p] # NoJob, Done(p),
         NEW i \in Ids, NEW m \in Row, rows' = [rows EXCEPT ![i] = m],
         \A r \in Rooms : rooms'[r].archived = rooms[r].archived,
         p \notin overtaken /\ Places(job[p]) =>
           VacantBut(m, i, {}) /\ ~rooms[m.room].archived,
         p \notin overtaken /\ ~Places(job[p]) =>
           /\ i \in Booked /\ SameStay(m, rows[i])
           /\ Carries(rows[i].status, m.status) \/ BareRevival(job[p])
  PROVE  SharedForAReason' /\ LostFromSightForAReason'
<1>1. TypeInv /\ SharedForAReason /\ LostFromSightForAReason
  BY DEF OvertakingInv
<1>2. Written \subseteq {i}
  BY <1>1 DEF Written, TypeInv, TypeOK
<1>3. \A r \in Rooms : rooms'[r].archived /\ rooms[r].archived /\ r \in hasty => r \in hasty'
  BY <1>1, NoteOfEnd
<1>4. CASE Written = {}
  <2>1. doubtful' = doubtful
    BY <1>1, <1>4, NoteOfEnd
  <2>2. rows' = rows
    BY <1>1, <1>4 DEF Written, TypeInv, TypeOK
  <2>3. SharedForAReason'
    BY <1>1, <2>1, <2>2 DEF SharedForAReason, Occupying, Booked
  <2>4. \A k \in Booked : rows[k].room \in Rooms
    BY <1>1, BookedRow DEF Row, TypeInv
  <2>5. LostFromSightForAReason'
    BY <1>1, <1>3, <2>1, <2>2, <2>4 DEF LostFromSightForAReason, Booked
  <2> QED BY <2>3, <2>5
<1>5. CASE Written # {}
  <2>1. doubtful' = IF p \in overtaken \/ BareRevival(job[p]) THEN doubtful \cup Written
                    ELSE IF Places(job[p]) THEN doubtful \ Written ELSE doubtful
    BY <1>1, <1>5, NoteOfEnd
  <2>2. i \in Written
    BY <1>2, <1>5
  <2>3. \A k \in Ids \ {i} : k \notin doubtful' => k \notin doubtful
    BY <1>2, <2>1
  <2>4. ASSUME i \notin doubtful' PROVE Admitted(i, m)
    <3>1. p \notin overtaken /\ ~BareRevival(job[p])
      BY <2>1, <2>2, <2>4
    <3>2. CASE Places(job[p])
      BY <3>1, <3>2 DEF Admitted, VacantBut
    <3>3. CASE ~Places(job[p])
      <4>1. i \notin doubtful
        BY <2>1, <2>4, <3>1, <3>3
      <4> QED BY <1>1, <2>3, <3>1, <3>3, <4>1, CarriedIsAdmitted
    <3> QED BY <3>2, <3>3
  <2> QED BY <1>1, <1>3, <2>3, <2>4, PutKeepsRules
<1> QED BY <1>4, <1>5


LEMMA InsertKeepsRules ==
  ASSUME OvertakingInv, NoteDoubtful, NoteHasty, NEW p \in Procs, Insert(p)
  PROVE  SharedForAReason' /\ LostFromSightForAReason'
<1> DEFINE j == job[p]
<1>1. /\ j # NoJob /\ j.req.op = "create" /\ j.pc = "write"
      /\ Done(p) /\ UNCHANGED rooms
  BY DEF Insert, At
<1>2. PICK b \in Ids \ Booked : rows' = [rows EXCEPT ![b] = j.new]
  BY DEF Insert
<1>3. TypeInv /\ j.new \in Row /\ j.id = None
  BY <1>1, Serving DEF OvertakingInv, JobOK
<1>4. Places(j)
  BY <1>1 DEF Places
<1>5. ASSUME p \notin overtaken
      PROVE  VacantBut(j.new, b, {}) /\ ~rooms[j.new.room].archived
  <2>1. VacantBut(j.new, j.id, {}) /\ ~rooms[j.new.room].archived
    BY <1>1, <1>4, <1>5 DEF OvertakingInv, StillHolds
  <2> QED BY <1>2, <1>3, <2>1 DEF VacantBut, Booked
<1> QED BY <1>1, <1>2, <1>3, <1>4, <1>5, RowWrite

LEMMA UpdateKeepsRules ==
  ASSUME OvertakingInv, NoteDoubtful, NoteHasty, NEW p \in Procs, WriteUpdate(p)
  PROVE  SharedForAReason' /\ LostFromSightForAReason'
<1> DEFINE j == job[p]
           i == job[p].id
           n == job[p].new
<1>1. /\ j # NoJob /\ j.req.op = "update" /\ j.pc = "write"
      /\ Done(p)
  BY DEF WriteUpdate, At
<1>2. TypeInv /\ TypeOK /\ i \in Ids /\ i \in Booked /\ rows[i] \in Row /\ n \in Row
  BY <1>1, Serving DEF OvertakingInv, TypeInv, JobOK
<1>3. PICK fact :
        /\ rows' = [rows EXCEPT ![i] = [n EXCEPT
                      !.channel = rows[i].channel,
                      !.arrived = rows[i].arrived \/ fact = "CHECKED_IN",
                      !.version = rows[i].version + 1]]
        /\ Vacated(n.room, fact)
  BY Zenon DEF WriteUpdate
<1> DEFINE m == [n EXCEPT !.channel = rows[i].channel,
                          !.arrived = rows[i].arrived \/ fact = "CHECKED_IN",
                          !.version = rows[i].version + 1]
<1>4. m \in Row
  <2>1. /\ rows[i].version + 1 \in Nat
        /\ rows[i].channel \in BOOLEAN
        /\ (rows[i].arrived \/ fact = "CHECKED_IN") \in BOOLEAN
    BY <1>2 DEF Row
  <2> QED BY <1>2, <2>1, RowEdits, Zenon
<1>5. m.room = n.room /\ m.from = n.from /\ m.to = n.to /\ m.status = n.status
  BY <1>2 DEF Row
<1>6. rows' = [rows EXCEPT ![i] = m]
  BY <1>3
<1>7. n.room \in Rooms
  BY <1>2 DEF Row
<1>8. \A room \in Rooms : rooms'[room].archived = rooms[room].archived
  BY <1>2, <1>3, <1>7, VacatedKeepsArchive
<1> HIDE DEF m, n, j
<1>9. p \notin overtaken => StillHolds(j)
  BY <1>1 DEF OvertakingInv, j
<1>10. j.new = n /\ j.id = i
  BY DEF j, n
<1>11. p \notin overtaken /\ Places(j) => VacantBut(m, i, {}) /\ ~rooms[m.room].archived
  BY <1>1, <1>5, <1>9, <1>10 DEF StillHolds, VacantBut
<1>12. ASSUME p \notin overtaken, ~Places(j)
       PROVE  SameStay(m, rows[i]) /\ (Carries(rows[i].status, m.status) \/ BareRevival(j))
  <2>1. ~Touches(j.req) /\ j.cur = rows[i]
    BY <1>1, <1>9, <1>10, <1>12 DEF StillHolds, Places
  <2>2. SameStay(n, rows[i]) /\ (Carries(rows[i].status, n.status) \/ BareRevival(j))
    BY <1>1, <1>9, <1>10, <1>12, <2>1 DEF StillHolds
  <2> QED BY <1>5, <2>2 DEF SameStay
<1> QED BY <1>1, <1>2, <1>4, <1>6, <1>8, <1>11, <1>12, RowWrite DEF j

LEMMA FactKeepsRules ==
  ASSUME OvertakingInv, NoteDoubtful, NoteHasty, NEW p \in Procs, WriteFact(p)
  PROVE  SharedForAReason' /\ LostFromSightForAReason'
<1> DEFINE i == job[p].id
           r == job[p].req
           m == [rows[i] EXCEPT !.status = r.status,
                                !.arrived = rows[i].arrived \/ r.status = "CHECKED_IN",
                                !.version = rows[i].version + 1]
<1>1. /\ job[p] # NoJob /\ r.op = "fact" /\ job[p].pc = "write"
      /\ Done(p) /\ TypeInv /\ TypeOK
  BY DEF WriteFact, At, OvertakingInv, TypeInv
<1>2. /\ i \in Ids /\ i \in Booked /\ rows[i] \in Row /\ job[p].cur.room \in Rooms
      /\ r.status \in Facts
  BY <1>1, Serving, RequestType DEF JobOK, Row, WellFormed
<1>3. rows' = [rows EXCEPT ![i] = m]
  BY <1>1, <1>2 DEF WriteFact, TypeOK
<1>4. m \in Row
  <2>1. /\ rows[i].version + 1 \in Nat /\ r.status \in Statuses
        /\ (rows[i].arrived \/ r.status = "CHECKED_IN") \in BOOLEAN
    BY <1>2 DEF Row, Facts, FactFrom, Statuses
  <2> QED BY <1>2, <2>1, RowEdits, Zenon
<1>5. SameStay(m, rows[i]) /\ m.status = r.status
  BY <1>2 DEF Row, SameStay
<1>6. \A room \in Rooms : rooms'[room].archived = rooms[room].archived
  BY <1>1, <1>2, VacatedKeepsArchive DEF WriteFact
<1>7. ~Places(job[p])
  BY <1>1 DEF Places
<1>8. ASSUME p \notin overtaken
      PROVE  Carries(rows[i].status, r.status)
  <2>1. rows[i].status \in FactFrom[r.status]
    BY <1>1, <1>8 DEF OvertakingInv, StillHolds
  <2> QED BY <1>2, <2>1 DEF Facts, FactFrom, Released, Live, Carries
<1> HIDE DEF m
<1> QED BY <1>1, <1>2, <1>3, <1>4, <1>5, <1>6, <1>7, <1>8, RowWrite

LEMMA CancelKeepsRules ==
  ASSUME OvertakingInv, NoteDoubtful, NoteHasty, NEW p \in Procs, WriteCancel(p)
  PROVE  SharedForAReason' /\ LostFromSightForAReason'
<1> DEFINE i == job[p].id
           m == [rows[i] EXCEPT !.status = "CANCELLED", !.version = rows[i].version + 1]
<1>1. /\ job[p] # NoJob /\ job[p].req.op = "cancel"
      /\ Done(p) /\ UNCHANGED rooms /\ TypeInv /\ TypeOK
  BY DEF WriteCancel, At, OvertakingInv, TypeInv
<1>2. i \in Ids /\ i \in Booked /\ rows[i] \in Row
  BY <1>1, Serving
<1>3. rows' = [rows EXCEPT ![i] = m]
  BY <1>1, <1>2 DEF WriteCancel, TypeOK
<1>4. m \in Row
  <2>1. rows[i].version + 1 \in Nat /\ "CANCELLED" \in Statuses
    BY <1>2 DEF Row, Statuses
  <2> QED BY <1>2, <2>1, RowEdits, Zenon
<1>5. SameStay(m, rows[i]) /\ Carries(rows[i].status, m.status)
  BY <1>2 DEF Row, SameStay, Carries, Released
<1>6. ~Places(job[p])
  BY <1>1 DEF Places
<1> HIDE DEF m
<1> QED BY <1>1, <1>2, <1>3, <1>4, <1>5, <1>6, RowWrite

\* A swap leaves every stay and every status alone.
LEMMA SwapKeepsRules ==
  ASSUME OvertakingInv, NoteDoubtful, NoteHasty, NEW p \in Procs, WriteSwap(p)
  PROVE  SharedForAReason' /\ LostFromSightForAReason'
<1> DEFINE i == job[p].id
           k == job[p].other
<1>1. /\ job[p] # NoJob /\ job[p].req.op = "swap"
      /\ Done(p) /\ UNCHANGED rooms /\ TypeInv /\ TypeOK
  BY DEF WriteSwap, At, OvertakingInv, TypeInv
<1>2. i \in Ids /\ k \in Ids /\ i \in Booked /\ k \in Booked
  BY <1>1, Serving
<1>3. rows' = [rows EXCEPT ![i].place   = job[p].new.place,
                           ![i].version = rows[i].version + 1,
                           ![k].place   = job[p].cur.place,
                           ![k].version = rows[k].version + 1]
  BY DEF WriteSwap
<1>4. \A b \in Booked' :
        /\ b \in Booked /\ rows[b].room \in Rooms
        /\ rows'[b].room = rows[b].room /\ rows'[b].status = rows[b].status
        /\ rows'[b].from = rows[b].from /\ rows'[b].to = rows[b].to
  <2> SUFFICES ASSUME NEW b \in Booked'
               PROVE  /\ b \in Booked /\ rows[b].room \in Rooms
                      /\ rows'[b].room = rows[b].room /\ rows'[b].status = rows[b].status
                      /\ rows'[b].from = rows[b].from /\ rows'[b].to = rows[b].to
    OBVIOUS
  <2>1. b \in Booked
    BY <1>1, <1>2, <1>3 DEF Booked, TypeOK
  <2>2. rows[b] \in Row /\ b \in Ids
    BY <1>1, <2>1, BookedRow
  <2> QED BY <1>1, <1>2, <1>3, <2>1, <2>2 DEF TypeOK, Row
<1>5. ~Places(job[p])
  BY <1>1 DEF Places
<1>6. doubtful \subseteq doubtful'
  BY <1>1, <1>5, NoteOfEnd
<1>7. \A r \in Rooms : rooms'[r].archived /\ rooms[r].archived /\ r \in hasty => r \in hasty'
  BY <1>1, NoteOfEnd
<1>8. SharedForAReason'
  BY <1>4, <1>6 DEF OvertakingInv, SharedForAReason, Occupying
<1>9. LostFromSightForAReason'
  BY <1>1, <1>4, <1>6, <1>7 DEF OvertakingInv, LostFromSightForAReason
<1> QED BY <1>8, <1>9

LEMMA ArchiveKeepsRules ==
  ASSUME OvertakingInv, NoteDoubtful, NoteHasty, NEW p \in Procs, WriteArchive(p)
  PROVE  SharedForAReason' /\ LostFromSightForAReason'
<1> DEFINE room == job[p].req.room
<1>1. /\ job[p] # NoJob /\ job[p].req.op = "archive" /\ job[p].pc = "write"
      /\ Done(p) /\ UNCHANGED rows /\ TypeInv /\ TypeOK
      /\ rooms' = [rooms EXCEPT ![room].archived = TRUE]
  BY DEF WriteArchive, At, OvertakingInv, TypeInv
<1>2. doubtful' = doubtful
  BY <1>1, NoteOfEnd DEF Written
<1>3. SharedForAReason'
  BY <1>1, <1>2 DEF OvertakingInv, SharedForAReason, Occupying, Booked
<1>4. ASSUME NEW i \in Booked \ doubtful, rows[i].status \in Live,
             rooms'[rows[i].room].archived
      PROVE  rows[i].room \in hasty'
  <2>1. rows[i].room \in Rooms
    BY <1>1, BookedRow DEF Row
  <2>2. CASE rooms[rows[i].room].archived
    BY <1>1, <1>4, <2>1, <2>2, NoteOfEnd DEF OvertakingInv, LostFromSightForAReason
  <2>3. CASE ~rooms[rows[i].room].archived
    <3>1. rows[i].room = room
      BY <1>1, <1>4, <2>1, <2>3 DEF TypeOK
    <3>2. p \in overtaken
      BY <1>1, <1>4, <3>1 DEF OvertakingInv, StillHolds
    <3> QED BY <1>1, <1>4, <2>1, <2>3, <3>2, NoteOfEnd
  <2> QED BY <2>2, <2>3
<1>5. LostFromSightForAReason'
  BY <1>1, <1>2, <1>4 DEF LostFromSightForAReason, Booked
<1> QED BY <1>3, <1>5


LEMMA OvertakingWrites ==
  ASSUME OvertakingInv, TypeInv', NoteOvertaken, NoteDoubtful, NoteHasty,
         NEW p \in Procs, Writes(p)
  PROVE  OvertakingInv'
<1>1. Done(p)
  BY Zenon DEF Writes, Insert, WriteUpdate, WriteFact, WriteCancel, WriteSwap, WriteArchive
<1>2. job'[p] = NoJob /\ \A q \in Procs \ {p} : job'[q] = job[q]
  BY <1>1 DEF Done, Goes, OvertakingInv, TypeInv, TypeOK
<1>3. SharedForAReason' /\ LostFromSightForAReason'
  BY InsertKeepsRules, UpdateKeepsRules, FactKeepsRules, CancelKeepsRules, SwapKeepsRules,
     ArchiveKeepsRules DEF Writes
<1> QED BY <1>2, <1>3, OthersHold

LEMMA OvertakingOthers ==
  ASSUME OvertakingInv, TypeInv', NoteOvertaken, NoteDoubtful, NoteHasty, NEW p \in Procs,
         Restore(p) \/ SetRoomStatus(p) \/ PostToFolio(p) \/ Refuse(p)
  PROVE  OvertakingInv'
<1>1. TypeInv /\ TypeOK
  BY DEF OvertakingInv, TypeInv
<1>2. UNCHANGED rows
  BY DEF Restore, SetRoomStatus, PostToFolio, Refuse
<1>3. \A r \in Rooms : rooms'[r].archived => rooms[r].archived
  BY <1>1 DEF Restore, SetRoomStatus, PostToFolio, Refuse, TypeOK
<1>4. job'[p] = NoJob /\ \A q \in Procs \ {p} : job'[q] = job[q]
  BY <1>1 DEF Restore, SetRoomStatus, PostToFolio, Refuse, Done, Goes, TypeOK
<1> QED BY <1>2, <1>3, <1>4, QuietStep

LEMMA OvertakingStep == OvertakingInv /\ [HNext]_hvars => OvertakingInv'
<1> SUFFICES ASSUME OvertakingInv, [HNext]_hvars PROVE OvertakingInv'
  OBVIOUS
<1>1. [Next]_vars
  BY DEF HNext, hvars, vars
<1>2. TypeInv'
  BY <1>1, TypeStep DEF OvertakingInv
<1>3. CASE UNCHANGED hvars
  <2>1. \A p \in Procs : StillHolds(job[p])' = StillHolds(job[p])
    BY <1>3 DEF hvars, StillHolds, VacantBut, Booked, Places, BareRevival, Departs
  <2>2. SharedForAReason' /\ LostFromSightForAReason'
    BY <1>3 DEF hvars, OvertakingInv, SharedForAReason, LostFromSightForAReason, Occupying, Booked
  <2> QED BY <1>2, <1>3, <2>1, <2>2 DEF hvars, OvertakingInv
<1>4. CASE HNext
  <2>1. Next /\ NoteOvertaken /\ NoteDoubtful /\ NoteHasty
    BY <1>4 DEF HNext, Note
  <2>2. PICK p \in Procs : \/ Begins(p) \/ Reads(p) \/ Writes(p) \/ Refuse(p)
                           \/ Restore(p) \/ SetRoomStatus(p) \/ PostToFolio(p)
    BY <2>1 DEF Next
  <2> QED BY <1>2, <2>1, <2>2, OvertakingBegins, OvertakingReads, OvertakingWrites, OvertakingOthers
<1> QED BY <1>3, <1>4

\* For any number of requests served at a time, and whatever clients send: two
\* bookings of one room and night are there only because one of them had its stay
\* written by a request that was overtaken while it looked at the room, or was
\* revived by its status alone.  TLC finds both ways.
THEOREM DoubleBookingHasReason == HSpec => []SharedForAReason
<1>1. OvertakingInv => SharedForAReason
  BY DEF OvertakingInv
<1> QED BY <1>1, OvertakingInit, OvertakingStep, PTL DEF HSpec

\* For any number of requests served at a time: a live booking is in an archived room
\* only if its stay or the archive mark was written by an overtaken request, or the
\* booking was revived by its status alone.
THEOREM LostBookingHasReason == HSpec => []LostFromSightForAReason
<1>1. OvertakingInv => LostFromSightForAReason
  BY DEF OvertakingInv
<1> QED BY <1>1, OvertakingInit, OvertakingStep, PTL DEF HSpec

-----------------------------------------------------------------------------
(* Departures *)

\* Only the two writes of a departure make a booking departed, and whoever was not
\* overtaken has looked at the folio as it is.
LEMMA DepartureIsWritten ==
  ASSUME OvertakingInv, Next, NEW i \in Ids, Becomes(i, "CHECKED_OUT"), debt[i]
  PROVE  \E p \in overtaken : Ends(p)
<1>1. TypeInv /\ TypeOK /\ i \in Booked /\ rows[i] \in Row
  BY BookedRow DEF OvertakingInv, TypeInv, Becomes, Booked
<1>2. rows' # rows
  BY DEF Becomes
<1>3. PICK p \in Procs : Insert(p) \/ WriteUpdate(p) \/ WriteFact(p) \/ WriteCancel(p) \/ WriteSwap(p)
  <2>1. PICK p \in Procs : \/ Begins(p) \/ Reads(p) \/ Writes(p) \/ Refuse(p)
                           \/ Restore(p) \/ SetRoomStatus(p) \/ PostToFolio(p)
    BY DEF Next
  <2>2. ~Begins(p)
    BY <1>2, Zenon DEF Begins, BeginCreate, Begin, BeginSwap, BeginArchive
  <2>3. ~Reads(p)
    BY <1>2 DEF Reads, ReadForUpdate, ReadForFact, ReadForCancel, ReadForSwap, AssertZeroBalance,
                ReadRoom, ReadPlaces, ReadRoomType, ReadForArchive
  <2>4. ~WriteArchive(p) /\ ~Refuse(p) /\ ~Restore(p) /\ ~SetRoomStatus(p) /\ ~PostToFolio(p)
    BY <1>2 DEF WriteArchive, Refuse, Restore, SetRoomStatus, PostToFolio
  <2> QED BY <2>1, <2>2, <2>3, <2>4 DEF Writes
<1> DEFINE r == job[p].req
           b == job[p].id
           k == job[p].other
<1>4. job[p] # NoJob /\ job[p].pc = "write" /\ Done(p)
  BY <1>3, Zenon DEF Insert, WriteUpdate, WriteFact, WriteCancel, WriteSwap, At
<1>5. r.op \in {"update", "fact", "cancel", "swap"} => b \in Ids /\ rows[b] \in Row
  BY <1>1, <1>4, Serving
<1>6. Ends(p)
  BY <1>1, <1>4 DEF Ends, Done, Goes, TypeOK
<1>7. p \notin overtaken => StillHolds(job[p])
  BY <1>4 DEF OvertakingInv
<1>8. CASE Insert(p)
  BY <1>1, <1>8 DEF Insert, Becomes, TypeOK
<1>9. CASE WriteUpdate(p)
  <2>1. r.op = "update" /\ job[p].new \in Row
    BY <1>1, <1>4, <1>9, Serving DEF WriteUpdate, At, JobOK
  <2>2. i = b /\ job[p].new.status = "CHECKED_OUT"
    BY <1>1, <1>5, <1>9, <2>1 DEF WriteUpdate, Becomes, TypeOK, Row
  <2>3. p \in overtaken
    BY <1>4, <1>7, <2>1, <2>2 DEF StillHolds, Departs, Becomes
  <2> QED BY <1>6, <2>3
<1>10. CASE WriteFact(p)
  <2>1. r.op = "fact"
    BY <1>10 DEF WriteFact, At
  <2>2. i = b /\ r.status = "CHECKED_OUT"
    BY <1>1, <1>5, <1>10, <2>1 DEF WriteFact, Becomes, TypeOK, Row
  <2>3. p \in overtaken
    BY <1>4, <1>7, <2>1, <2>2 DEF StillHolds, Departs
  <2> QED BY <1>6, <2>3
<1>11. CASE WriteCancel(p)
  <2>1. r.op = "cancel"
    BY <1>11 DEF WriteCancel, At
  <2>2. rows'[i].status \in {rows[i].status, "CANCELLED"}
    BY <1>1, <1>5, <1>11, <2>1 DEF WriteCancel, TypeOK, Row
  <2> QED BY <2>2 DEF Becomes
<1>12. CASE WriteSwap(p)
  <2>1. r.op = "swap"
    BY <1>12 DEF WriteSwap, At
  <2>2. k \in Ids /\ rows[k] \in Row
    BY <1>1, <1>4, <2>1, Serving, BookedRow DEF JobOK
  <2>3. rows'[i].status = rows[i].status
    BY <1>1, <1>5, <1>12, <2>1, <2>2 DEF WriteSwap, TypeOK, Row
  <2> QED BY <2>3 DEF Becomes
<1> QED BY <1>3, <1>8, <1>9, <1>10, <1>11, <1>12

\* For any number of requests served at a time: a guest leaves owing only by a
\* departure that was overtaken after the folio had been looked at.
THEOREM OwingHasReason == HSpec => OwingForAReason
<1> DEFINE Paid == \A i \in Ids : Becomes(i, "CHECKED_OUT") /\ debt[i] => \E p \in overtaken : Ends(p)
<1>1. ASSUME OvertakingInv, [HNext]_hvars PROVE [Paid]_hvars
  BY <1>1, DepartureIsWritten DEF HNext
<1> QED BY <1>1, OvertakingInit, OvertakingStep, PTL DEF HSpec, OwingForAReason


(***************************************************************************)
(* What survives requests served at the same time, for every number of     *)
(* requests, rooms, bookings and days: recorded arrivals, and the bounds   *)
(* of the rooms.                                                           *)
(***************************************************************************)
-----------------------------------------------------------------------------
(* Shapes of steps *)

\* What an update writes: the row it holds, with three columns of the table.
LEMMA UpdateWrites ==
  ASSUME TypeInv, NEW p \in Procs, WriteUpdate(p)
  PROVE  LET i == job[p].id
             n == job[p].new
         IN  /\ i \in Booked /\ i \in Ids /\ rows[i] \in Row /\ n \in Row /\ job[p].req.op = "update"
             /\ \E m \in Row : /\ rows' = [rows EXCEPT ![i] = m]
                               /\ m.room = n.room /\ m.place = n.place /\ m.guests = n.guests
                               /\ m.status = n.status
                               /\ rows[i].arrived => m.arrived
                               /\ n.status = "CHECKED_IN" /\ job[p].cur.status # "CHECKED_IN" => m.arrived
<1> DEFINE i == job[p].id
           n == job[p].new
           fact == IF n.status # job[p].cur.status THEN n.status ELSE None
           m == [n EXCEPT !.channel = rows[i].channel,
                          !.arrived = rows[i].arrived \/ fact = "CHECKED_IN",
                          !.version = rows[i].version + 1]
<1>1. job[p] # NoJob /\ job[p].req.op = "update" /\ job[p].pc = "write"
  BY DEF WriteUpdate, At
<1>2. i \in Ids /\ i \in Booked /\ rows[i] \in Row /\ n \in Row
  BY <1>1, Serving DEF JobOK
<1>3. rows' = [rows EXCEPT ![i] = m]
  BY Zenon DEF WriteUpdate
<1>4. /\ rows[i].version + 1 \in Nat
      /\ rows[i].channel \in BOOLEAN
      /\ (rows[i].arrived \/ fact = "CHECKED_IN") \in BOOLEAN
  BY <1>2 DEF Row
<1>5. m \in Row
  BY <1>2, <1>4, RowEdits
<1>6. /\ m.room = n.room /\ m.place = n.place /\ m.guests = n.guests /\ m.status = n.status
      /\ m.arrived = (rows[i].arrived \/ fact = "CHECKED_IN")
  BY <1>2 DEF Row
<1> HIDE DEF m
<1> QED BY <1>1, <1>2, <1>3, <1>5, <1>6

\* A fact and a cancellation change status, arrival and version.
LEMMA FactWrites ==
  ASSUME TypeInv, NEW p \in Procs, WriteFact(p)
  PROVE  LET i == job[p].id
             f == job[p].req.status
         IN  /\ i \in Booked /\ i \in Ids /\ rows[i] \in Row
             /\ job[p] # NoJob /\ job[p].req.op = "fact" /\ job[p].pc = "write"
             /\ \E m \in Row : /\ rows' = [rows EXCEPT ![i] = m]
                               /\ m.room = rows[i].room /\ m.place = rows[i].place
                               /\ m.guests = rows[i].guests /\ m.status = f
                               /\ rows[i].arrived => m.arrived
                               /\ f = "CHECKED_IN" => m.arrived
<1> DEFINE i == job[p].id
           f == job[p].req.status
           m == [rows[i] EXCEPT !.status = f,
                                !.arrived = rows[i].arrived \/ f = "CHECKED_IN",
                                !.version = rows[i].version + 1]
<1>1. job[p] # NoJob /\ job[p].req.op = "fact" /\ job[p].pc = "write"
  BY DEF WriteFact, At
<1>2. i \in Ids /\ i \in Booked /\ rows[i] \in Row /\ f \in Statuses
  BY <1>1, Serving, RequestType DEF WellFormed, Facts, FactFrom, Statuses
<1>3. rows' = [rows EXCEPT ![i] = m]
  BY <1>2 DEF WriteFact, TypeInv, TypeOK
<1>4. rows[i].version + 1 \in Nat /\ (rows[i].arrived \/ f = "CHECKED_IN") \in BOOLEAN
  BY <1>2 DEF Row
<1>5. m \in Row
  BY <1>2, <1>4, RowEdits
<1>6. /\ m.room = rows[i].room /\ m.place = rows[i].place /\ m.guests = rows[i].guests
      /\ m.status = f /\ m.arrived = (rows[i].arrived \/ f = "CHECKED_IN")
  BY <1>2 DEF Row
<1> HIDE DEF m
<1> QED BY <1>1, <1>2, <1>3, <1>5, <1>6

LEMMA CancelWrites ==
  ASSUME TypeInv, NEW p \in Procs, WriteCancel(p)
  PROVE  LET i == job[p].id
         IN  /\ i \in Booked /\ i \in Ids /\ rows[i] \in Row
             /\ \E m \in Row : /\ rows' = [rows EXCEPT ![i] = m]
                               /\ m.room = rows[i].room /\ m.place = rows[i].place
                               /\ m.guests = rows[i].guests /\ m.status = "CANCELLED"
                               /\ m.arrived = rows[i].arrived
<1> DEFINE i == job[p].id
           m == [rows[i] EXCEPT !.status = "CANCELLED", !.version = rows[i].version + 1]
<1>1. job[p] # NoJob /\ job[p].req.op = "cancel"
  BY DEF WriteCancel, At
<1>2. i \in Ids /\ i \in Booked /\ rows[i] \in Row
  BY <1>1, Serving
<1>3. rows' = [rows EXCEPT ![i] = m]
  BY <1>2 DEF WriteCancel, TypeInv, TypeOK
<1>4. rows[i].version + 1 \in Nat /\ "CANCELLED" \in Statuses
  BY <1>2 DEF Row, Statuses
<1>5. m \in Row
  BY <1>2, <1>4, RowEdits
<1>6. /\ m.room = rows[i].room /\ m.place = rows[i].place /\ m.guests = rows[i].guests
      /\ m.status = "CANCELLED" /\ m.arrived = rows[i].arrived
  BY <1>2 DEF Row
<1> HIDE DEF m
<1> QED BY <1>2, <1>3, <1>5, <1>6

LEMMA SwapWrites ==
  ASSUME TypeInv, NEW p \in Procs, WriteSwap(p)
  PROVE  /\ job[p] # NoJob /\ job[p].req.op = "swap" /\ job[p].req \in Requests
         /\ Booked' = Booked
         /\ \A b \in Booked : /\ rows'[b].status = rows[b].status
                               /\ rows'[b].arrived = rows[b].arrived
<1> DEFINE i == job[p].id
           k == job[p].other
<1>1. job[p] # NoJob /\ job[p].req.op = "swap"
  BY DEF WriteSwap, At
<1>2. i \in Ids /\ k \in Ids /\ i \in Booked /\ k \in Booked /\ job[p].req \in Requests
  BY <1>1, Serving
<1>3. rows' = [rows EXCEPT ![i].place   = job[p].new.place,
                           ![i].version = rows[i].version + 1,
                           ![k].place   = job[p].cur.place,
                           ![k].version = rows[k].version + 1]
  BY DEF WriteSwap
<1>4. ASSUME NEW b \in Booked
      PROVE  rows'[b].status = rows[b].status /\ rows'[b].arrived = rows[b].arrived
  <2>1. rows[b] \in Row /\ b \in Ids
    BY BookedRow DEF TypeInv
  <2> QED BY <1>2, <1>3, <2>1 DEF TypeInv, TypeOK, Row
<1>5. ASSUME NEW b \in Ids \ Booked PROVE b \notin Booked'
  BY <1>2, <1>3, <1>5 DEF Booked, TypeInv, TypeOK
<1>6. Booked \subseteq Booked'
  <2>1. TypeOK
    BY DEF TypeInv
  <2> DEFINE mid == [rows EXCEPT ![i] = [rows[i] EXCEPT !.place = job[p].new.place,
                                                         !.version = rows[i].version + 1]]
  <2>2. job[p].cur \in Row /\ job[p].new \in Row
    BY <1>1, Serving DEF JobOK, WriteSwap, At
  <2>3. \A b \in Booked : rows'[b] \in Row
    <3>1. /\ rows[i] \in Row /\ rows[k] \in Row
          /\ rows[i].version + 1 \in Nat /\ rows[k].version + 1 \in Nat
          /\ job[p].cur.place \in Int /\ job[p].new.place \in Int
      BY <1>2, <2>1, <2>2, BookedRow DEF Row
    <3>2. \A b \in Booked : mid[b] \in Row
      <4>1. [rows[i] EXCEPT !.place = job[p].new.place, !.version = rows[i].version + 1] \in Row
        BY <3>1, RowEdits
      <4> QED BY <1>2, <2>1, <4>1, BookedRow DEF TypeOK
    <3>3. rows' = [mid EXCEPT ![k] = [mid[k] EXCEPT !.place = job[p].cur.place,
                                                    !.version = rows[k].version + 1]]
      BY <1>2, <1>3, <2>1 DEF TypeOK
    <3>4. \A b \in Ids : b \in DOMAIN mid
      BY <2>1 DEF TypeOK
    <3> HIDE DEF mid
    <3>5. [mid[k] EXCEPT !.place = job[p].cur.place, !.version = rows[k].version + 1] \in Row
      BY <1>2, <3>1, <3>2, RowEdits
    <3> QED BY <1>2, <3>2, <3>3, <3>4, <3>5, BookedRow, <2>1
  <2> QED BY <2>3 DEF Booked
<1> QED BY <1>1, <1>2, <1>4, <1>5, <1>6 DEF Booked

-----------------------------------------------------------------------------
(* What becomes of job p when it reads: it goes on as j *)

DecidesUpdate(p, j) ==
  /\ ReadForUpdate(p)
  /\ j.cur = rows[job[p].id]
  /\ j.new = Merged(job[p].req, rows[job[p].id])
  /\ j.pc \in {"folio", "room", "write"}
  /\ j.pc = "write" => ~Touches(job[p].req)

GoesOn(p, j) ==
  /\ job[p].pc \in {"folio", "room", "type"}
  /\ j.cur = job[p].cur
  /\ j.new = job[p].new
  /\ j.pc \in {"room", "places", "write"}
  /\ job[p].pc = "folio" /\ job[p].req.op = "update" /\ j.pc = "write" => ~Touches(job[p].req)
  /\ job[p].pc = "room" => j.pc = "places"

Placed(p, j) ==
  /\ ReadPlaces(p)
  /\ job[p].pc = "places"
  /\ j.cur = job[p].cur
  /\ j.new.status = job[p].new.status
  /\ SpanInRoom => Fits(j.new)

ReadShape(p, j) ==
  /\ j.req = job[p].req
  /\ j.id = job[p].id
  /\ \/ job[p].req.op \in {"cancel", "swap", "archive"}
     \/ ReadForFact(p)
     \/ DecidesUpdate(p, j)
     \/ GoesOn(p, j)
     \/ Placed(p, j)

LEMMA PlacesFit ==
  ASSUME TypeInv, NEW p \in Procs, ReadPlaces(p)
  PROVE  \E j \in Job : Goes(p, j) /\ ReadShape(p, j)
<1> DEFINE r      == job[p].req
           i      == job[p].id
           n      == job[p].new
           ids    == Overlapping(n.room, n.from, n.to, i)
           others == Holders(ids)
           cap    == Capacity[n.room]
           pc     == IF r.op = "update" /\ Moves(p) THEN "type" ELSE "write"
<1>1. job[p] # NoJob /\ job[p].pc = "places"
  BY DEF ReadPlaces
<1>2. job[p] \in Job /\ JobOK(p) /\ r \in Requests
  BY <1>1, Serving
<1>3. n \in Row /\ r.op \in {"create", "update"}
  BY <1>1, <1>2 DEF JobOK
<1>4. cap \in Nat /\ n.guests \in Nat \ {0} /\ n.place \in Int
  BY <1>3 DEF Row
<1>5. PICK place :
        /\ Goes(p, [job[p] EXCEPT !.new.place = place, !.pc = pc])
        /\ \/ r.place # None /\ place = r.place
              /\ spanFree(place, cap, MultiPlace, n.guests, others)
           \/ spanFree(n.place, cap, MultiPlace, n.guests, others) /\ place = n.place
           \/ place = allocatePlace(cap, MultiPlace, n.guests, others) /\ place # NoPlace
  BY Zenon DEF ReadPlaces
<1>6. place \in Int
  <2>1. r.place # None => r.place \in Int
    BY <1>2, RequestType DEF Request
  <2>2. allocatePlace(cap, MultiPlace, n.guests, others) \in Int
    BY <1>4, AllocateType
  <2> QED BY <1>4, <1>5, <2>1, <2>2
<1> DEFINE m == [n EXCEPT !.place = place]
           j == [job[p] EXCEPT !.new = m, !.pc = pc]
<1>7. pc \in {"type", "write"}
  OBVIOUS
<1>8. m \in Row /\ m.room = n.room /\ m.status = n.status /\ m.guests = n.guests /\ m.place = place
  BY <1>3, <1>6 DEF Row
<1>9. Goes(p, j)
  BY <1>2, <1>5 DEF Goes, Job
<1>10. ASSUME SpanInRoom, MultiPlace = TRUE
       PROVE  Span(place, n.guests) \subseteq 1 .. cap
  <2>1. placesOf(n.guests, cap, TRUE) = n.guests
    BY <1>4 DEF placesOf
  <2>2. Taken(others) \subseteq 1 .. cap
    <3> SUFFICES ASSUME NEW b \in ids
                 PROVE  HolderSpan([place |-> rows[b].place, guests |-> rows[b].guests])
                          \subseteq 1 .. cap
      BY DEF Taken, Holders
    <3>1. b \in Booked /\ rows[b].room = n.room
      BY DEF Overlapping
    <3>2. HolderSpan(rows[b]) \subseteq 1 .. cap
      BY <1>10, <3>1 DEF SpanInRoom
    <3> QED BY <3>2 DEF HolderSpan
  <2> HIDE DEF others, cap
  <2>3. IsFiniteSet(Taken(others))
    <3>1. IsFiniteSet(1 .. cap)
      BY <1>4, FS_Interval
    <3> QED BY <2>2, <3>1, FS_Subset
  <2>4. CASE spanFree(place, cap, MultiPlace, n.guests, others)
    <3>1. place >= 1 /\ place + n.guests - 1 <= cap
      BY <1>10, <2>1, <2>4 DEF spanFree
    <3>2. n.guests \in Int /\ cap \in Int
      BY <1>4
    <3> QED BY <1>6, <3>1, <3>2 DEF Span
  <2>5. CASE place = allocatePlace(cap, MultiPlace, n.guests, others) /\ place # NoPlace
    <3>1. place = allocatePlace(cap, TRUE, n.guests, others)
      BY <1>10, <2>5
    <3> QED BY <1>4, <2>3, <2>5, <3>1, AllocationWithinRoom
  <2> QED BY <1>5, <2>4, <2>5
<1> HIDE DEF others, cap, pc, m
<1>11. HolderSpan(m) = Span(place, n.guests)
  BY <1>4, <1>8 DEF HolderSpan, placesOf
<1>12. SpanInRoom => Fits(m)
  BY <1>8, <1>10, <1>11 DEF Fits, cap
<1>13. j \in Job
  BY <1>2, <1>7, <1>8 DEF Job, Steps
<1>14. j.new = m /\ j.id = i /\ j.req = r /\ j.cur = job[p].cur
  BY <1>2 DEF Job
<1> HIDE DEF j
<1>15. Placed(p, j)
  BY <1>1, <1>8, <1>12, <1>14 DEF Placed
<1> QED BY <1>9, <1>13, <1>14, <1>15 DEF ReadShape

LEMMA ReadsShape ==
  ASSUME TypeInv, NEW p \in Procs, Reads(p)
  PROVE  /\ job[p] # NoJob /\ job[p] \in Job /\ JobOK(p) /\ job[p].req \in Requests
         /\ UNCHANGED rows
         /\ \E j \in Job : Goes(p, j) /\ ReadShape(p, j)
<1> DEFINE r == job[p].req
           i == job[p].id
<1>0. job[p] # NoJob /\ UNCHANGED <<rows, rooms, debt>>
  BY DEF Reads, ReadForUpdate, ReadForFact, ReadForCancel, ReadForSwap, AssertZeroBalance,
         ReadRoom, ReadPlaces, ReadRoomType, ReadForArchive, At
<1>1. job[p] \in Job /\ JobOK(p) /\ r \in Requests
  BY <1>0, Serving
<1>2. /\ NextAfterFolio(r) \in {"room", "write"}
      /\ r.op = "update" /\ NextAfterFolio(r) = "write" => ~Touches(r)
  BY DEF NextAfterFolio
<1> SUFFICES \E j \in Job : Goes(p, j) /\ ReadShape(p, j)
  BY <1>0, <1>1
<1>3. CASE ReadForUpdate(p)
  <2> DEFINE new == Merged(r, rows[i])
             pc  == IF (new.status # rows[i].status /\ new.status \in Facts)
                       /\ new.status = "CHECKED_OUT"
                    THEN "folio" ELSE NextAfterFolio(r)
             j   == [job[p] EXCEPT !.cur = rows[i], !.new = new, !.pc = pc]
  <2>1. r.op = "update" /\ Goes(p, j)
    BY <1>3 DEF ReadForUpdate, At
  <2>2. rows[i] \in Row
    BY <1>0, <2>1, Serving
  <2>3. new \in Row
    BY <1>1, <2>2, MergedType
  <2>4. pc \in {"folio", "room", "write"} /\ (pc = "write" => ~Touches(r))
    BY <1>2, <2>1
  <2>5. j.cur = rows[i] /\ j.new = new /\ j.pc = pc /\ j.req = r /\ j.id = i
    BY <1>1 DEF Job
  <2> HIDE DEF pc
  <2>6. DecidesUpdate(p, j)
    BY <1>3, <2>4, <2>5 DEF DecidesUpdate
  <2> HIDE DEF new
  <2>7. j \in Job
    BY <1>1, <2>2, <2>3, <2>4 DEF Job, Steps
  <2> HIDE DEF j
  <2> QED BY <2>1, <2>5, <2>6, <2>7 DEF ReadShape
<1>4. CASE ReadForFact(p)
  <2> DEFINE pc == IF r.status = "CHECKED_OUT" THEN "folio" ELSE "write"
             j  == [job[p] EXCEPT !.cur = rows[i], !.pc = pc]
  <2>1. r.op = "fact" /\ Goes(p, j)
    BY <1>4 DEF ReadForFact, At
  <2>2. rows[i] \in Row /\ pc \in {"folio", "write"}
    BY <1>0, <2>1, Serving
  <2> HIDE DEF pc
  <2>3. j \in Job /\ j.req = r /\ j.id = i
    BY <1>1, <2>2 DEF Job, Steps
  <2> HIDE DEF j
  <2> QED BY <1>4, <2>1, <2>3 DEF ReadShape
<1>5. CASE ReadForCancel(p)
  <2> DEFINE j == [job[p] EXCEPT !.cur = rows[i], !.pc = "write"]
  <2>1. r.op = "cancel" /\ Goes(p, j)
    BY <1>5 DEF ReadForCancel, At
  <2>2. rows[i] \in Row
    BY <1>0, <2>1, Serving
  <2>3. j \in Job /\ j.req = r /\ j.id = i
    BY <1>1, <2>2 DEF Job, Steps
  <2> HIDE DEF j
  <2> QED BY <2>1, <2>3 DEF ReadShape
<1>6. CASE ReadForSwap(p)
  <2> DEFINE j == [job[p] EXCEPT !.cur = rows[i], !.new = rows[job[p].other], !.pc = "write"]
  <2>1. r.op = "swap" /\ Goes(p, j)
    BY <1>6 DEF ReadForSwap, At
  <2>2. rows[i] \in Row /\ rows[job[p].other] \in Row
    BY <1>0, <2>1, Serving
  <2>3. j \in Job /\ j.req = r /\ j.id = i
    BY <1>1, <2>2 DEF Job, Steps
  <2> HIDE DEF j
  <2> QED BY <2>1, <2>3 DEF ReadShape
<1>7. CASE AssertZeroBalance(p)
  <2> DEFINE j == [job[p] EXCEPT !.pc = NextAfterFolio(r)]
  <2>1. job[p].pc = "folio" /\ Goes(p, j)
    BY <1>7 DEF AssertZeroBalance
  <2>2. /\ j \in Job /\ j.req = r /\ j.id = i /\ j.pc = NextAfterFolio(r)
        /\ j.cur = job[p].cur /\ j.new = job[p].new
    BY <1>1, <1>2 DEF Job, Steps
  <2> HIDE DEF j
  <2> QED BY <1>2, <2>1, <2>2 DEF ReadShape, GoesOn
<1>8. CASE ReadRoom(p)
  <2> DEFINE j == [job[p] EXCEPT !.pc = "places"]
  <2>1. job[p].pc = "room" /\ Goes(p, j)
    BY <1>8 DEF ReadRoom
  <2>2. /\ j \in Job /\ j.req = r /\ j.id = i /\ j.pc = "places"
        /\ j.cur = job[p].cur /\ j.new = job[p].new
    BY <1>1 DEF Job, Steps
  <2> HIDE DEF j
  <2> QED BY <2>1, <2>2 DEF ReadShape, GoesOn
<1>9. CASE ReadPlaces(p)
  BY <1>9, PlacesFit
<1>10. CASE ReadRoomType(p)
  <2> DEFINE j == [job[p] EXCEPT !.pc = "write"]
  <2>1. job[p].pc = "type" /\ Goes(p, j)
    BY <1>10 DEF ReadRoomType
  <2>2. /\ j \in Job /\ j.req = r /\ j.id = i /\ j.pc = "write"
        /\ j.cur = job[p].cur /\ j.new = job[p].new
    BY <1>1 DEF Job, Steps
  <2> HIDE DEF j
  <2> QED BY <2>1, <2>2 DEF ReadShape, GoesOn
<1>11. CASE ReadForArchive(p)
  <2> DEFINE j == [job[p] EXCEPT !.pc = "write"]
  <2>1. r.op = "archive" /\ Goes(p, j)
    BY <1>11 DEF ReadForArchive, At
  <2>2. j \in Job /\ j.req = r /\ j.id = i
    BY <1>1 DEF Job, Steps
  <2> HIDE DEF j
  <2> QED BY <2>1, <2>2 DEF ReadShape
<1> QED BY <1>3, <1>4, <1>5, <1>6, <1>7, <1>8, <1>9, <1>10, <1>11 DEF Reads

\* A request begins: it has read nothing, or is a create with a fresh row.
BeginShape(j) ==
  \/ j.pc = "read" /\ j.req.op # "create"
  \/ j.pc = "room" /\ j.req \in Requests /\ j.req.op = "create" /\ j.new = Fresh(j.req)

LEMMA BeginsShape ==
  ASSUME TypeInv, NEW p \in Procs, Begins(p)
  PROVE  UNCHANGED rows /\ \E j : Goes(p, j) /\ BeginShape(j)
<1>1. UNCHANGED rows
  BY DEF Begins, BeginCreate, Begin, BeginSwap, BeginArchive
<1>2. CASE BeginCreate(p)
  <2>1. PICK r \in Requests :
          r.op = "create" /\ Goes(p, [NoJob EXCEPT !.pc = "room", !.req = r, !.new = Fresh(r)])
    BY <1>2, Zenon DEF BeginCreate
  <2> DEFINE j == [NoJob EXCEPT !.pc = "room", !.req = r, !.new = Fresh(r)]
  <2>2. j.pc = "room" /\ j.req = r /\ j.new = Fresh(r)
    BY DEF NoJob
  <2> HIDE DEF j
  <2>3. BeginShape(j)
    BY <2>1, <2>2 DEF BeginShape
  <2>4. Goes(p, j)
    BY <2>1 DEF j
  <2> QED BY <1>1, <2>3, <2>4
<1>3. CASE Begin(p)
  <2>1. PICK r \in Requests, i \in Booked :
          /\ r.op \in {"update", "fact", "cancel"}
          /\ \E v \in IF r.op = "update" THEN 1 .. rows[i].version ELSE {0} :
               Goes(p, [NoJob EXCEPT !.pc = "read", !.req = r, !.id = i, !.seen = v])
    BY <1>3 DEF Begin
  <2>0. PICK v : Goes(p, [NoJob EXCEPT !.pc = "read", !.req = r, !.id = i, !.seen = v])
    BY <2>1, Zenon
  <2> DEFINE j == [NoJob EXCEPT !.pc = "read", !.req = r, !.id = i, !.seen = v]
  <2>2. j.pc = "read" /\ j.req = r
    BY DEF NoJob
  <2> HIDE DEF j
  <2>3. BeginShape(j)
    BY <2>1, <2>2 DEF BeginShape
  <2>4. Goes(p, j)
    BY <2>0 DEF j
  <2> QED BY <1>1, <2>3, <2>4
<1>4. CASE BeginSwap(p)
  <2>1. PICK r, i, k, v, w :
          /\ r.op = "swap"
          /\ Goes(p, [NoJob EXCEPT !.pc = "read", !.req = r, !.id = i, !.other = k,
                                   !.seen = v, !.seenOther = w])
    BY <1>4, Zenon DEF BeginSwap
  <2> DEFINE j == [NoJob EXCEPT !.pc = "read", !.req = r, !.id = i, !.other = k,
                                !.seen = v, !.seenOther = w]
  <2>2. j.pc = "read" /\ j.req = r
    BY DEF NoJob
  <2> HIDE DEF j
  <2>3. BeginShape(j)
    BY <2>1, <2>2 DEF BeginShape
  <2>4. Goes(p, j)
    BY <2>1 DEF j
  <2> QED BY <1>1, <2>3, <2>4
<1>5. CASE BeginArchive(p)
  <2>1. PICK r \in Requests : r.op = "archive" /\ Goes(p, [NoJob EXCEPT !.pc = "read", !.req = r])
    BY <1>5, Zenon DEF BeginArchive
  <2> DEFINE j == [NoJob EXCEPT !.pc = "read", !.req = r]
  <2>2. j.pc = "read" /\ j.req = r
    BY DEF NoJob
  <2> HIDE DEF j
  <2>3. BeginShape(j)
    BY <2>1, <2>2 DEF BeginShape
  <2>4. Goes(p, j)
    BY <2>1 DEF j
  <2> QED BY <1>1, <2>3, <2>4
<1> QED BY <1>2, <1>3, <1>4, <1>5 DEF Begins

-----------------------------------------------------------------------------
(* Arrivals *)

\* What a step has to keep: arrivals are not taken back, every row of a guest who
\* came has one, and job p, gone on as j, relies on nothing that is not so.
LEMMA ArrivalFrame ==
  ASSUME ArrivalInv, TypeInv', NEW p \in Procs, NEW j,
         \A q \in Procs \ {p} : job'[q] = job[q],
         job'[p] = j,
         j # NoJob => ArrivalKnown(j)',
         \A i \in Booked : rows[i].arrived => rows'[i].arrived,
         \A i \in Booked' : Came(rows'[i].status) => rows'[i].arrived
  PROVE  ArrivalInv'
<1>1. ASSUME NEW q \in Procs, job'[q] # NoJob PROVE ArrivalKnown(job[q])'
  <2>1. CASE q = p
    BY <1>1, <2>1 DEF ArrivalKnown
  <2>2. CASE q # p
    <3>1. job'[q] = job[q] /\ JobOK(q) /\ ArrivalKnown(job[q])
      BY <1>1, <2>2 DEF ArrivalInv, TypeInv
    <3>2. job[q].req.op \in {"update", "fact"} => job[q].id \in Booked
      BY <1>1, <3>1 DEF JobOK
    <3> QED BY <3>1, <3>2 DEF ArrivalKnown
  <2> QED BY <2>1, <2>2
<1> QED BY <1>1 DEF ArrivalInv

\* The same for a step that leaves the bookings alone.
LEMMA ArrivalReading ==
  ASSUME ArrivalInv, TypeInv', NEW p \in Procs, NEW j, Goes(p, j), UNCHANGED rows,
         j # NoJob => ArrivalKnown(j)
  PROVE  ArrivalInv'
<1>1. job'[p] = j /\ \A q \in Procs \ {p} : job'[q] = job[q]
  BY DEF Goes, ArrivalInv, TypeInv, TypeOK
<1>2. j # NoJob => ArrivalKnown(j)'
  BY DEF ArrivalKnown
<1>3. /\ \A i \in Booked : rows[i].arrived => rows'[i].arrived
      /\ \A i \in Booked' : Came(rows'[i].status) => rows'[i].arrived
  BY DEF ArrivalInv, Booked
<1> QED BY <1>1, <1>2, <1>3, ArrivalFrame

\* The same for a step that ends job p.
LEMMA ArrivalWriting ==
  ASSUME ArrivalInv, TypeInv', NEW p \in Procs, Done(p),
         \A i \in Booked : rows[i].arrived => rows'[i].arrived,
         \A i \in Booked' : Came(rows'[i].status) => rows'[i].arrived
  PROVE  ArrivalInv'
<1>1. job'[p] = NoJob /\ \A q \in Procs \ {p} : job'[q] = job[q]
  BY DEF Done, Goes, ArrivalInv, TypeInv, TypeOK
<1> QED BY <1>1, ArrivalFrame

\* Writing one row that keeps the arrival of its booking and is not of a guest who
\* came without one.
LEMMA ArrivalPut ==
  ASSUME ArrivalInv, TypeInv', NEW p \in Procs, Done(p), NEW i \in Ids, NEW m \in Row,
         rows' = [rows EXCEPT ![i] = m],
         i \in Booked /\ rows[i].arrived => m.arrived,
         Came(m.status) => m.arrived
  PROVE  ArrivalInv'
<1>1. \A k \in Ids : rows'[k] = IF k = i THEN m ELSE rows[k]
  BY DEF ArrivalInv, TypeInv, TypeOK
<1>2. \A k \in Booked : rows[k].arrived => rows'[k].arrived
  BY <1>1 DEF Booked
<1>3. \A k \in Booked' : Came(rows'[k].status) => rows'[k].arrived
  BY <1>1 DEF ArrivalInv, Booked
<1> QED BY <1>2, <1>3, ArrivalWriting

LEMMA ArrivalInit == Init => ArrivalInv
BY TypeInit DEF Init, ArrivalInv, Booked

LEMMA ArrivalBegins ==
  ASSUME CreatedExpected, ArrivalInv, TypeInv', NEW p \in Procs, Begins(p)
  PROVE  ArrivalInv'
<1>1. PICK j : UNCHANGED rows /\ Goes(p, j) /\ BeginShape(j)
  BY BeginsShape DEF ArrivalInv
<1>2. CASE j.pc = "read" /\ j.req.op # "create"
  BY <1>1, <1>2, ArrivalReading DEF ArrivalKnown
<1>3. CASE j.req \in Requests /\ j.req.op = "create" /\ j.new = Fresh(j.req)
  <2>1. j.new.status \in {j.req.status, "CONFIRMED"}
    BY <1>3 DEF Fresh, Or
  <2>2. ~Came(j.new.status)
    BY <1>3, <2>1 DEF CreatedExpected, Came
  <2> QED BY <1>1, <1>3, <2>2, ArrivalReading DEF ArrivalKnown
<1> QED BY <1>1, <1>2, <1>3 DEF BeginShape

LEMMA ArrivalReads ==
  ASSUME ArrivalInv, TypeInv', NEW p \in Procs, Reads(p)
  PROVE  ArrivalInv'
<1> DEFINE r == job[p].req
           i == job[p].id
<1>1. TypeInv
  BY DEF ArrivalInv
<1>2. job[p] # NoJob /\ JobOK(p) /\ r \in Requests /\ UNCHANGED rows
  BY <1>1, ReadsShape
<1>3. PICK j \in Job : Goes(p, j) /\ ReadShape(p, j)
  BY <1>1, ReadsShape
<1>4. ArrivalKnown(job[p])
  BY <1>2 DEF ArrivalInv
<1>5. j.req = r /\ j.id = i
  BY <1>3 DEF ReadShape
<1> SUFFICES ArrivalKnown(j)
  BY <1>2, <1>3, ArrivalReading
<1>6. CASE r.op \in {"cancel", "swap", "archive"}
  BY <1>5, <1>6 DEF ArrivalKnown
<1>7. CASE ReadForFact(p)
  <2>1. r.op = "fact" /\ AdmitsFact(rows[i].status, r.status)
    BY <1>7 DEF ReadForFact, At
  <2>2. i \in Booked
    BY <1>1, <1>2, <2>1, Serving
  <2>3. r.status = "CHECKED_OUT" => rows[i].status = "CHECKED_IN"
    BY <2>1 DEF AdmitsFact, FactFrom
  <2> QED BY <1>5, <2>1, <2>2, <2>3 DEF ArrivalKnown, ArrivalInv, Came
<1>8. CASE DecidesUpdate(p, j)
  <2> DEFINE n == Merged(r, rows[i])
  <2>1. /\ r.op = "update"
        /\ n.status # rows[i].status /\ n.status \in Facts => AdmitsFact(rows[i].status, n.status)
    BY <1>8 DEF DecidesUpdate, ReadForUpdate, At
  <2>2. j.cur = rows[i] /\ j.new = n
    BY <1>8 DEF DecidesUpdate
  <2>3. i \in Booked
    BY <1>1, <1>2, <2>1, Serving
  <2> HIDE DEF n
  <2>4. n.status = "CHECKED_OUT" => rows[i].status \in {"CHECKED_IN", "CHECKED_OUT"}
    BY <2>1 DEF AdmitsFact, FactFrom, Facts
  <2> QED BY <1>5, <2>1, <2>2, <2>3, <2>4 DEF ArrivalKnown, ArrivalInv, Came
<1>9. CASE GoesOn(p, j)
  <2>1. job[p].pc # "read" /\ j.cur = job[p].cur /\ j.new = job[p].new
    BY <1>9 DEF GoesOn
  <2> QED BY <1>4, <1>5, <2>1 DEF ArrivalKnown
<1>10. CASE Placed(p, j)
  <2>1. job[p].pc # "read" /\ j.cur = job[p].cur /\ j.new.status = job[p].new.status
    BY <1>10 DEF Placed
  <2> QED BY <1>4, <1>5, <2>1 DEF ArrivalKnown
<1> QED BY <1>3, <1>6, <1>7, <1>8, <1>9, <1>10 DEF ReadShape

LEMMA ArrivalWrites ==
  ASSUME ArrivalInv, TypeInv', NEW p \in Procs, Writes(p)
  PROVE  ArrivalInv'
<1> DEFINE i == job[p].id
           n == job[p].new
<1>0. job[p] # NoJob /\ Done(p) /\ job[p].pc = "write"
  BY DEF Writes, Insert, WriteUpdate, WriteFact, WriteCancel, WriteSwap, WriteArchive, At
<1>1. TypeInv /\ JobOK(p) /\ ArrivalKnown(job[p])
  BY <1>0 DEF ArrivalInv, TypeInv
<1>2. CASE Insert(p)
  <2>1. PICK b \in Ids \ Booked : rows' = [rows EXCEPT ![b] = n]
    BY <1>2 DEF Insert
  <2>2. job[p].req.op = "create"
    BY <1>2 DEF Insert, At
  <2>3. n \in Row /\ ~Came(n.status)
    BY <1>0, <1>1, <2>2 DEF JobOK, ArrivalKnown
  <2> QED BY <1>0, <2>1, <2>3, ArrivalPut
<1>3. CASE WriteUpdate(p)
  <2>1. /\ i \in Booked /\ i \in Ids /\ job[p].req.op = "update"
        /\ \E m \in Row : /\ rows' = [rows EXCEPT ![i] = m]
                          /\ m.status = n.status
                          /\ rows[i].arrived => m.arrived
                          /\ n.status = "CHECKED_IN" /\ job[p].cur.status # "CHECKED_IN" => m.arrived
    BY <1>1, <1>3, UpdateWrites
  <2>2. PICK m \in Row : /\ rows' = [rows EXCEPT ![i] = m]
                         /\ m.status = n.status
                         /\ rows[i].arrived => m.arrived
                         /\ n.status = "CHECKED_IN" /\ job[p].cur.status # "CHECKED_IN" => m.arrived
    BY <2>1
  <2>3. Came(m.status) => m.arrived
    BY <1>0, <1>1, <2>1, <2>2 DEF ArrivalKnown, Came
  <2> QED BY <1>0, <2>1, <2>2, <2>3, ArrivalPut
<1>4. CASE WriteFact(p)
  <2> DEFINE f == job[p].req.status
  <2>1. i \in Ids /\ job[p].req.op = "fact"
    BY <1>1, <1>4, FactWrites
  <2>2. PICK m \in Row : /\ rows' = [rows EXCEPT ![i] = m]
                         /\ m.status = f
                         /\ rows[i].arrived => m.arrived
                         /\ f = "CHECKED_IN" => m.arrived
    BY <1>1, <1>4, FactWrites
  <2>3. Came(m.status) => m.arrived
    BY <1>0, <1>1, <2>1, <2>2 DEF ArrivalKnown, Came
  <2> QED BY <1>0, <2>1, <2>2, <2>3, ArrivalPut
<1>5. CASE WriteCancel(p)
  <2>1. i \in Ids
    BY <1>1, <1>5, CancelWrites
  <2>2. PICK m \in Row : /\ rows' = [rows EXCEPT ![i] = m]
                         /\ m.status = "CANCELLED"
                         /\ m.arrived = rows[i].arrived
    BY <1>1, <1>5, CancelWrites
  <2>3. ~Came(m.status)
    BY <2>2 DEF Came
  <2> QED BY <1>0, <2>1, <2>2, <2>3, ArrivalPut
<1>6. CASE WriteSwap(p)
  <2>1. /\ Booked' = Booked
        /\ \A b \in Booked : rows'[b].status = rows[b].status /\ rows'[b].arrived = rows[b].arrived
    BY <1>1, <1>6, SwapWrites
  <2> QED BY <1>0, <2>1, ArrivalWriting DEF ArrivalInv
<1>7. CASE WriteArchive(p)
  <2>1. UNCHANGED rows
    BY <1>7 DEF WriteArchive
  <2>2. \A b \in Booked : rows[b].arrived => rows'[b].arrived
    BY <2>1
  <2>3. \A b \in Booked' : Came(rows'[b].status) => rows'[b].arrived
    BY <2>1 DEF ArrivalInv, Booked
  <2> QED BY <1>0, <2>2, <2>3, ArrivalWriting
<1> QED BY <1>2, <1>3, <1>4, <1>5, <1>6, <1>7 DEF Writes

LEMMA ArrivalOthers ==
  ASSUME ArrivalInv, TypeInv', NEW p \in Procs,
         Restore(p) \/ SetRoomStatus(p) \/ PostToFolio(p) \/ Refuse(p)
  PROVE  ArrivalInv'
<1>1. (job[p] = NoJob /\ job' = job) \/ Done(p)
  BY DEF Restore, SetRoomStatus, PostToFolio, Refuse
<1>2. UNCHANGED rows
  BY DEF Restore, SetRoomStatus, PostToFolio, Refuse
<1>3. job[p] = NoJob /\ job' = job => Goes(p, NoJob)
  BY DEF Goes, ArrivalInv, TypeInv, TypeOK
<1> QED BY <1>1, <1>2, <1>3, ArrivalReading DEF Done

LEMMA ArrivalStep ==
  ASSUME CreatedExpected
  PROVE  ArrivalInv /\ [Next]_vars => ArrivalInv'
<1> SUFFICES ASSUME ArrivalInv, [Next]_vars PROVE ArrivalInv'
  OBVIOUS
<1>1. TypeInv'
  BY TypeStep DEF ArrivalInv
<1>2. CASE UNCHANGED vars
  BY <1>1, <1>2 DEF vars, ArrivalInv, ArrivalKnown, Booked
<1>3. CASE Next
  BY <1>1, <1>3, ArrivalBegins, ArrivalReads, ArrivalWrites, ArrivalOthers DEF Next
<1> QED BY <1>2, <1>3

\* However many requests overlap and however stale the rows they write: a booking
\* that is CHECKED_OUT has a recorded arrival, if bookings are created expected.
\* A request that is about to write a departure has seen the arrival, and no
\* statement takes a recorded arrival back.
THEOREM RacingDepartedHadArrived ==
  ASSUME CreatedExpected
  PROVE  Spec => []DepartedHadArrived
<1>1. ArrivalInv => DepartedHadArrived
  BY DEF ArrivalInv, DepartedHadArrived, Came
<1>2. ArrivalInv /\ [Next]_vars => ArrivalInv'
  BY ArrivalStep
<1> QED BY <1>1, <1>2, ArrivalInit, PTL DEF Spec

-----------------------------------------------------------------------------
(* The bounds of the rooms *)

\* What a step has to keep: the rows lie in their rooms, and so does the row job p,
\* gone on as j, is to write.  (SpanKnown depends on no variable.)
LEMMA SpanFrame ==
  ASSUME SpanInv, TypeInv', NEW p \in Procs, NEW j, Goes(p, j),
         j # NoJob => SpanKnown(j),
         SpanInRoom'
  PROVE  SpanInv'
<1>1. job'[p] = j /\ \A q \in Procs \ {p} : job'[q] = job[q]
  BY DEF Goes, SpanInv, TypeInv, TypeOK
<1>2. ASSUME NEW q \in Procs, job'[q] # NoJob PROVE SpanKnown(job[q])'
  <2>1. SpanKnown(job[q])' <=> SpanKnown(job'[q])
    BY DEF SpanKnown, Fits
  <2> QED BY <1>1, <1>2, <2>1 DEF SpanInv
<1> QED BY <1>2 DEF SpanInv

\* Writing one row that lies in its room.
LEMMA SpanPut ==
  ASSUME SpanInv, TypeInv', NEW p \in Procs, Done(p), NEW i \in Ids, NEW m \in Row,
         rows' = [rows EXCEPT ![i] = m], Fits(m)
  PROVE  SpanInv'
<1>1. \A k \in Ids : rows'[k] = IF k = i THEN m ELSE rows[k]
  BY DEF SpanInv, TypeInv, TypeOK
<1>2. SpanInRoom'
  BY <1>1 DEF SpanInRoom, SpanInv, Fits, Booked
<1> QED BY <1>2, SpanFrame DEF Done

\* The place and the party of a row decide whether it lies in a room.
LEMMA SameFits ==
  ASSUME NEW m, NEW n, m.room = n.room, m.place = n.place, m.guests = n.guests
  PROVE  Fits(m) <=> Fits(n)
BY DEF Fits, HolderSpan

LEMMA BookedFits ==
  ASSUME SpanInv, NEW i \in Booked
  PROVE  Fits(rows[i])
BY DEF SpanInv, SpanInRoom, Fits

LEMMA SpanInit == Init => SpanInv
BY TypeInit DEF Init, SpanInv, SpanInRoom, Booked

LEMMA SpanBegins ==
  ASSUME SpanInv, TypeInv', NEW p \in Procs, Begins(p)
  PROVE  SpanInv'
<1>1. PICK j : UNCHANGED rows /\ Goes(p, j) /\ BeginShape(j)
  BY BeginsShape DEF SpanInv
<1>2. SpanKnown(j)
  BY <1>1 DEF BeginShape, SpanKnown
<1>3. SpanInRoom'
  BY <1>1 DEF SpanInv, SpanInRoom, Booked
<1> QED BY <1>1, <1>2, <1>3, SpanFrame

LEMMA SpanReads ==
  ASSUME SpanInv, TypeInv', NEW p \in Procs, Reads(p)
  PROVE  SpanInv'
<1> DEFINE r == job[p].req
           i == job[p].id
<1>1. TypeInv /\ SpanInRoom
  BY DEF SpanInv
<1>2. job[p] # NoJob /\ JobOK(p) /\ r \in Requests /\ UNCHANGED rows
  BY <1>1, ReadsShape
<1>3. PICK j \in Job : Goes(p, j) /\ ReadShape(p, j)
  BY <1>1, ReadsShape
<1>4. SpanKnown(job[p])
  BY <1>2 DEF SpanInv
<1>5. j.req = r /\ j.id = i
  BY <1>3 DEF ReadShape
<1>6. SpanInRoom'
  BY <1>1, <1>2 DEF SpanInRoom, Booked
<1> SUFFICES SpanKnown(j)
  BY <1>3, <1>6, SpanFrame
<1>7. CASE r.op \in {"cancel", "swap", "archive"}
  BY <1>5, <1>7 DEF SpanKnown
<1>8. CASE ReadForFact(p)
  <2>1. r.op = "fact"
    BY <1>8 DEF ReadForFact, At
  <2> QED BY <1>5, <2>1 DEF SpanKnown
<1>9. CASE DecidesUpdate(p, j)
  <2> DEFINE n == Merged(r, rows[i])
  <2>1. r.op = "update"
    BY <1>9 DEF DecidesUpdate, ReadForUpdate, At
  <2>2. j.new = n /\ j.pc \in {"folio", "room", "write"} /\ (j.pc = "write" => ~Touches(r))
    BY <1>9 DEF DecidesUpdate
  <2>3. i \in Booked /\ rows[i] \in Row
    BY <1>1, <1>2, <2>1, Serving
  <2>4. ~Touches(r) => n.room = rows[i].room /\ n.place = rows[i].place /\ n.guests = rows[i].guests
    BY <2>3 DEF Touches, Merged, Or, Row
  <2> HIDE DEF n
  <2>5. ~Touches(r) => Fits(n)
    BY <2>3, <2>4, BookedFits, SameFits
  <2> QED BY <1>5, <2>1, <2>2, <2>5 DEF SpanKnown
<1>10. CASE GoesOn(p, j)
  <2>1. /\ job[p].pc \in {"folio", "room", "type"} /\ j.new = job[p].new
        /\ j.pc \in {"room", "places", "write"}
        /\ job[p].pc = "folio" /\ r.op = "update" /\ j.pc = "write" => ~Touches(r)
        /\ job[p].pc = "room" => j.pc = "places"
    BY <1>10 DEF GoesOn
  <2>2. job[p].pc = "folio" => r.op # "create"
    BY <1>2 DEF JobOK
  <2> QED BY <1>4, <1>5, <2>1, <2>2 DEF SpanKnown
<1>11. CASE Placed(p, j)
  <2>1. Fits(j.new)
    BY <1>1, <1>11 DEF Placed
  <2> QED BY <2>1 DEF SpanKnown
<1> QED BY <1>3, <1>7, <1>8, <1>9, <1>10, <1>11 DEF ReadShape

LEMMA SpanWrites ==
  ASSUME NoSwaps, SpanInv, TypeInv', NEW p \in Procs, Writes(p)
  PROVE  SpanInv'
<1> DEFINE i == job[p].id
           n == job[p].new
<1>0. job[p] # NoJob /\ Done(p) /\ job[p].pc = "write"
  BY DEF Writes, Insert, WriteUpdate, WriteFact, WriteCancel, WriteSwap, WriteArchive, At
<1>1. TypeInv /\ JobOK(p) /\ SpanKnown(job[p])
  BY <1>0 DEF SpanInv, TypeInv
<1>2. CASE Insert(p)
  <2>1. PICK b \in Ids \ Booked : rows' = [rows EXCEPT ![b] = n]
    BY <1>2 DEF Insert
  <2>2. job[p].req.op = "create"
    BY <1>2 DEF Insert, At
  <2>3. n \in Row /\ Fits(n)
    BY <1>0, <1>1, <2>2 DEF JobOK, SpanKnown
  <2> QED BY <1>0, <2>1, <2>3, SpanPut
<1>3. CASE WriteUpdate(p)
  <2>1. i \in Ids /\ job[p].req.op = "update"
    BY <1>1, <1>3, UpdateWrites
  <2>2. PICK m \in Row : /\ rows' = [rows EXCEPT ![i] = m]
                         /\ m.room = n.room /\ m.place = n.place /\ m.guests = n.guests
    BY <1>1, <1>3, UpdateWrites
  <2>3. Fits(n)
    BY <1>0, <1>1, <2>1 DEF SpanKnown
  <2>4. Fits(m)
    BY <2>2, <2>3, SameFits
  <2> QED BY <1>0, <2>1, <2>2, <2>4, SpanPut
<1>4. CASE WriteFact(p)
  <2>1. i \in Ids /\ i \in Booked
    BY <1>1, <1>4, FactWrites
  <2>2. PICK m \in Row : /\ rows' = [rows EXCEPT ![i] = m]
                         /\ m.room = rows[i].room /\ m.place = rows[i].place
                         /\ m.guests = rows[i].guests
    BY <1>1, <1>4, FactWrites
  <2>3. Fits(m)
    BY <2>1, <2>2, BookedFits, SameFits
  <2> QED BY <1>0, <2>1, <2>2, <2>3, SpanPut
<1>5. CASE WriteCancel(p)
  <2>1. i \in Ids /\ i \in Booked
    BY <1>1, <1>5, CancelWrites
  <2>2. PICK m \in Row : /\ rows' = [rows EXCEPT ![i] = m]
                         /\ m.room = rows[i].room /\ m.place = rows[i].place
                         /\ m.guests = rows[i].guests
    BY <1>1, <1>5, CancelWrites
  <2>3. Fits(m)
    BY <2>1, <2>2, BookedFits, SameFits
  <2> QED BY <1>0, <2>1, <2>2, <2>3, SpanPut
<1>6. CASE WriteSwap(p)
  BY <1>1, <1>6, SwapWrites DEF NoSwaps
<1>7. CASE WriteArchive(p)
  <2>1. SpanInRoom'
    BY <1>7 DEF WriteArchive, SpanInv, SpanInRoom, Booked
  <2> QED BY <1>0, <2>1, SpanFrame DEF Done
<1> QED BY <1>2, <1>3, <1>4, <1>5, <1>6, <1>7 DEF Writes

LEMMA SpanOthers ==
  ASSUME SpanInv, TypeInv', NEW p \in Procs,
         Restore(p) \/ SetRoomStatus(p) \/ PostToFolio(p) \/ Refuse(p)
  PROVE  SpanInv'
<1>1. (job[p] = NoJob /\ job' = job) \/ Done(p)
  BY DEF Restore, SetRoomStatus, PostToFolio, Refuse
<1>2. SpanInRoom'
  BY DEF Restore, SetRoomStatus, PostToFolio, Refuse, SpanInv, SpanInRoom, Booked
<1>3. job[p] = NoJob /\ job' = job => Goes(p, NoJob)
  BY DEF Goes, SpanInv, TypeInv, TypeOK
<1> QED BY <1>1, <1>2, <1>3, SpanFrame DEF Done

LEMMA SpanStep ==
  ASSUME NoSwaps
  PROVE  SpanInv /\ [Next]_vars => SpanInv'
<1> SUFFICES ASSUME SpanInv, [Next]_vars PROVE SpanInv'
  OBVIOUS
<1>1. TypeInv'
  BY TypeStep DEF SpanInv
<1>2. CASE UNCHANGED vars
  BY <1>1, <1>2 DEF vars, SpanInv, SpanInRoom, SpanKnown, Fits, Booked
<1>3. CASE Next
  BY <1>1, <1>3, SpanBegins, SpanReads, SpanWrites, SpanOthers DEF Next
<1> QED BY <1>2, <1>3

\* However many requests overlap: every booking's places exist in its room, if
\* nobody swaps places.  The allocation compares numbers of places only, and the
\* check and the write are apart, but a request writes the whole row it checked,
\* and the bounds do not depend on the other bookings.
THEOREM RacingSpanInRoom ==
  ASSUME NoSwaps
  PROVE  Spec => []SpanInRoom
<1>1. SpanInv => SpanInRoom
  BY DEF SpanInv
<1>2. SpanInv /\ [Next]_vars => SpanInv'
  BY SpanStep
<1> QED BY <1>1, <1>2, SpanInit, PTL DEF Spec
=============================================================================
