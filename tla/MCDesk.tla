------------------------------- MODULE MCDesk -------------------------------
(***************************************************************************)
(* Two requests at a time in a hotel that sells whole rooms, about one of  *)
(* four matters: rivals for a room, a room on its way to the archive, a    *)
(* guest who leaves, and a booking of the partner.  Each is a choice of    *)
(* requests and of what else happens meanwhile.                            *)
(***************************************************************************)
EXTENDS MCReservations, Overtaking, FiniteSets

VARIABLE matter

MCVars == <<hvars, matter>>

Whole == <<0, 2>>
Nightly == Creates({r1}, {<<0, 1>>}, OneGuest, {None}, {FALSE})

RequestsOf ==
  [ rivals    |-> Creates({r1}, {Whole}, OneGuest, {None}, {FALSE})
                  \cup Forms({r1}, {<<0, 1>>, <<1, 2>>}, OneGuest, {"CONFIRMED"})
                  \cup Cancels({FALSE}) \cup BareStatus({"CONFIRMED"}) \cup Swaps,
    archive   |-> Nightly \cup DragsToRoom(Rooms) \cup Archives({r1})
                  \cup Cancels({FALSE}) \cup BareStatus({"NEW"}) \cup FactReqs({"CHECKED_IN", "NO_SHOW"}),
    departure |-> Nightly \cup FactReqs(Facts) \cup DragsToPlace({2})
                  \cup Forms({r2}, {<<0, 1>>}, OneGuest, {"CHECKED_IN", "CHECKED_OUT"}),
    partner   |-> Creates({r1}, {<<0, 1>>}, OneGuest, {None}, {TRUE})
                  \cup PartnerGuestsChange(MCGuests) \cup Cancels(BOOLEAN)
                  \cup Forms({r1}, {<<0, 1>>}, MCGuests, {"CANCELLED"}) ]

DeskRequests == UNION {RequestsOf[m] : m \in DOMAIN RequestsOf}

\* How many bookings a matter is about, and how often they are written.
BookingsOf(m) == IF m = "rivals" THEN 2 ELSE 1

\* What else may happen: the folio and the cleaning of the rooms belong to the departure.
Aside ==
  /\ matter # "departure" => debt' = debt /\ \A r \in Rooms : ~rooms'[r].dirty

MCInit == HInit /\ matter \in DOMAIN RequestsOf

OfTheMatter ==
  /\ Note
  /\ Aside
  /\ \A p \in Procs : job'[p] # NoJob => job'[p].req \in RequestsOf[matter]
  /\ Cardinality(Booked') <= BookingsOf(matter)
  /\ UNCHANGED matter

\* The steps of HNext, one by one: each of them happens in some matter.
MCNext ==
  \E p \in Procs :
    \/ BeginCreate(p) /\ OfTheMatter
    \/ Begin(p) /\ OfTheMatter
    \/ BeginSwap(p) /\ OfTheMatter
    \/ BeginArchive(p) /\ OfTheMatter
    \/ ReadForUpdate(p) /\ OfTheMatter
    \/ ReadForFact(p) /\ OfTheMatter
    \/ ReadForCancel(p) /\ OfTheMatter
    \/ ReadForSwap(p) /\ OfTheMatter
    \/ ReadForArchive(p) /\ OfTheMatter
    \/ AssertZeroBalance(p) /\ OfTheMatter
    \/ ReadRoom(p) /\ OfTheMatter
    \/ ReadPlaces(p) /\ OfTheMatter
    \/ ReadRoomType(p) /\ OfTheMatter
    \/ Insert(p) /\ OfTheMatter
    \/ WriteUpdate(p) /\ OfTheMatter
    \/ WriteFact(p) /\ OfTheMatter
    \/ WriteCancel(p) /\ OfTheMatter
    \/ WriteSwap(p) /\ OfTheMatter
    \/ WriteArchive(p) /\ OfTheMatter
    \/ Refuse(p) /\ OfTheMatter
    \/ Restore(p) /\ OfTheMatter
    \/ SetRoomStatus(p) /\ OfTheMatter
    \/ PostToFolio(p) /\ OfTheMatter

MCSpec == MCInit /\ [][MCNext]_MCVars
=============================================================================
