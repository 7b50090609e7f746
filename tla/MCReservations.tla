--------------------------- MODULE MCReservations ---------------------------
(* Instances of Reservations for TLC: the sets of requests the runs use. *)
EXTENDS Reservations, TLC

CONSTANTS r1, r2

MCDays == 0 .. 2
MCGuests == 1 .. 2
Party == 1 .. 3
OneGuest == {1}
Triple == [r \in Rooms |-> 3]

Blank == [ op |-> "update", room |-> None, from |-> None, to |-> None, place |-> None,
           guests |-> None, status |-> None, channel |-> FALSE ]

Stays == {<<0, 1>>, <<1, 2>>, <<0, 2>>}

Creates(rs, stays, gs, statuses, channels) ==
  { [Blank EXCEPT !.op = "create", !.room = r, !.from = s[1], !.to = s[2], !.guests = g,
                  !.status = st, !.channel = c] :
      r \in rs, s \in stays, g \in gs, st \in statuses, c \in channels }

\* The booking form of the cabinet: always the room, both dates and the party.
Forms(rs, stays, gs, statuses) ==
  { [Blank EXCEPT !.room = r, !.from = s[1], !.to = s[2], !.guests = g, !.status = st] :
      r \in rs, s \in stays, g \in gs, st \in statuses }

\* A change that names the status alone.
BareStatus(statuses) == { [Blank EXCEPT !.status = st] : st \in statuses }

\* A booking dragged over the timeline to another room or another place.
DragsToRoom(rs) == { [Blank EXCEPT !.room = r] : r \in rs }
DragsToPlace(ps) == { [Blank EXCEPT !.place = n] : n \in ps }

PartnerGuestsChange(gs) == { [Blank EXCEPT !.guests = g, !.channel = TRUE] : g \in gs }

FactReqs(fs) == { [Blank EXCEPT !.op = "fact", !.status = f] : f \in fs }
Cancels(channels) == { [Blank EXCEPT !.op = "cancel", !.channel = c] : c \in channels }
Swaps == { [Blank EXCEPT !.op = "swap"] }
Archives(rs) == { [Blank EXCEPT !.op = "archive", !.room = r] : r \in rs }

-----------------------------------------------------------------------------
\* Two requests at a time in a hotel that sells places: bookings are dragged, their
\* parties grow, guests arrive and leave; every save may be a stale one.
Racing ==
  Creates({r1}, {<<0, 1>>}, OneGuest, {None}, {TRUE})
  \cup DragsToPlace({3}) \cup PartnerGuestsChange({2})
  \cup Forms({r1}, {<<0, 1>>}, {2}, {"CHECKED_OUT"}) \cup FactReqs({"CHECKED_IN"})

\* The steps such requests take: nobody swaps, cancels, changes the room or archives it.
RacingNext ==
  \E p \in Procs :
    \/ BeginCreate(p) \/ Begin(p)
    \/ ReadForUpdate(p) \/ ReadForFact(p) \/ AssertZeroBalance(p) \/ ReadRoom(p) \/ ReadPlaces(p)
    \/ Insert(p) \/ WriteUpdate(p) \/ WriteFact(p) \/ Refuse(p)
    \/ SetRoomStatus(p) \/ PostToFolio(p)

RacingSpec == Init /\ [][RacingNext]_vars

\* The smallest sets of requests that show each disagreement of the code with
\* what is said of it.
TwoCreates == Creates({r1}, {<<0, 1>>}, OneGuest, {None}, {FALSE})
Parties    == Creates({r1}, {<<0, 1>>}, MCGuests, {None}, {FALSE}) \cup Cancels({FALSE})
Exchanges  == Parties \cup Swaps

\* Bookings are interchangeable, and so are those that serve requests.
Perms == Permutations(Ids) \cup Permutations(Procs)
=============================================================================
