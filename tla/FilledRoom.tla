----------------------------- MODULE FilledRoom ----------------------------
(***************************************************************************)
(* The rule of places tried on every filling of a small room: bookings     *)
(* come in one by one, to any places that are in the room, whether or not  *)
(* these are free, since swaps and reallocations make them overlap.        *)
(***************************************************************************)
EXTENDS RoomPlaces

CONSTANT MaxCapacity    \* rooms of up to this many places
ASSUME CapacityAssumption == MaxCapacity \in Nat

VARIABLES capacity, others
fillingVars == <<capacity, others>>

FillingInit == capacity \in 1 .. MaxCapacity /\ others = {}

ComesIn ==
  /\ \E o \in [place : 1 .. capacity, guests : 1 .. capacity] \ others :
       /\ HolderSpan(o) \subseteq 1 .. capacity
       /\ others' = others \cup {o}
  /\ UNCHANGED capacity

Leaves ==
  /\ \E o \in others : others' = others \ {o}
  /\ UNCHANGED capacity

FillingStep == ComesIn \/ Leaves
FillingSpec == FillingInit /\ [][FillingStep]_fillingVars

\* Whatever the bookings take is in the room.
FillingTypeOK ==
  /\ capacity \in 1 .. MaxCapacity
  /\ \A o \in others : HolderSpan(o) \subseteq 1 .. capacity

Parties == 1 .. capacity

\* The two checks of places agree where it matters to the guest: a room in which a
\* place could be named for the party (spanFree, on a drag) is never refused to
\* the party when the place is left to the rule (allocatePlace, on a booking).
GapIsFound ==
  \A g \in Parties :
    (\E start \in 1 .. capacity : spanFree(start, capacity, TRUE, g, others))
      => roomFits(capacity, TRUE, g, others)
=============================================================================
