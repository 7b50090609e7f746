----------------------------- MODULE RoomPlaces -----------------------------
(***************************************************************************)
(* The rule of places in a room (reservations/room-places.ts), as pure     *)
(* operators.  A hotel that sells whole rooms gives a room to one booking; *)
(* one that sells places (multiPlace) gives a booking as many consecutive  *)
(* places as it has guests, starting at the booking's place number.        *)
(*                                                                         *)
(* A place holder is a booking of the room seen by the rule: a record with *)
(* its first place and its number of guests (adults and children).  The    *)
(* holders of a room are a set: two rows with the same place and the same  *)
(* guests cover the same places.                                           *)
(***************************************************************************)
EXTENDS Integers, FiniteSets

\* The answer null of allocatePlace: no place for this booking.
NoPlace == 0

\* How many places a booking takes.
placesOf(guests, capacity, multiPlace) ==
  LET n == IF multiPlace THEN guests ELSE capacity
  IN  IF n < 1 THEN 1 ELSE n

\* The n consecutive places from start on.
Span(start, n) == start .. (start + n - 1)

\* The places a holder covers in a hotel that sells places.
HolderSpan(o) == Span(o.place, placesOf(o.guests, 1, TRUE))

Taken(others) == UNION { HolderSpan(o) : o \in others }

First(S) == CHOOSE p \in S : \A q \in S : p <= q

\* A slip: a party that fills the room to the last place is refused.
SlipAllocatePlace(capacity, multiPlace, guests, others) ==
  LET taken == Taken(others)
      free  == (1 .. capacity) \ taken
      need  == placesOf(guests, capacity, TRUE)
  IN  IF ~multiPlace
      THEN IF others = {} THEN 1 ELSE NoPlace
      ELSE IF capacity - Cardinality(taken) <= need \/ free = {}
           THEN NoPlace
           ELSE First(free)

\* First place for a new booking, or NoPlace.  With places on sale the code
\* compares NUMBERS of places (free against needed) and then answers the first
\* free place; it does not look whether the places after it are free too.
allocatePlace(capacity, multiPlace, guests, others) ==
  LET taken == Taken(others)
      free  == (1 .. capacity) \ taken
      need  == placesOf(guests, capacity, TRUE)
  IN  IF ~multiPlace
      THEN IF others = {} THEN 1 ELSE NoPlace
      ELSE IF capacity - Cardinality(taken) < need \/ free = {}
           THEN NoPlace
           ELSE First(free)

roomFits(capacity, multiPlace, guests, others) ==
  allocatePlace(capacity, multiPlace, guests, others) # NoPlace

\* A slip: the first place must be in the room, the last need not.
SlipSpanFree(start, capacity, multiPlace, guests, others) ==
  LET need == placesOf(guests, capacity, multiPlace)
  IN  /\ start >= 1
      /\ start <= capacity
      /\ IF multiPlace
         THEN \A o \in others : Span(start, need) \cap HolderSpan(o) = {}
         ELSE others = {}

\* The check of a place named by the client or kept by the booking
\* (spanFree in ReservationsService.update).
spanFree(start, capacity, multiPlace, guests, others) ==
  LET need == placesOf(guests, capacity, multiPlace)
  IN  /\ start >= 1
      /\ start + (IF multiPlace THEN need ELSE 1) - 1 <= capacity
      /\ IF multiPlace
         THEN \A o \in others : Span(start, need) \cap HolderSpan(o) = {}
         ELSE others = {}
=============================================================================
