-------------------------- MODULE RoomPlacesProofs --------------------------
(***************************************************************************)
(* What allocatePlace and spanFree answer, for rooms and parties of every  *)
(* size.                                                                   *)
(***************************************************************************)
EXTENDS RoomPlaces, TLAPS, FiniteSetTheorems, WellFoundedInduction

\* A non-empty set of numbers has a first element, and First finds it.  (The
\* initial segments 1 .. x of the numbers of S are ordered by strict inclusion,
\* which is well-founded on finite sets.)
LEMMA FirstInSet ==
  ASSUME NEW S \in SUBSET Nat, S # {}
  PROVE  First(S) \in S /\ \A q \in S : First(S) <= q
<1> DEFINE Upto == {1 .. x : x \in S}
<1>1. Upto \subseteq FiniteSubsetsOf(Nat)
  BY FS_Interval DEF FiniteSubsetsOf
<1>2. Upto # {}
  OBVIOUS
<1>3. IsWellFoundedOn(StrictSubsetOrdering(Nat), FiniteSubsetsOf(Nat))
  BY FS_StrictSubsetOrderingWellFounded
<1> HIDE DEF Upto
<1>4. PICK U \in Upto : \A V \in Upto : ~ (<<V, U>> \in StrictSubsetOrdering(Nat))
  BY <1>1, <1>2, <1>3, WFMin
<1>5. PICK x \in S : U = 1 .. x
  BY DEF Upto
<1>6. ASSUME NEW y \in S PROVE x <= y
  <2>1. ~ (<<1 .. y, 1 .. x>> \in StrictSubsetOrdering(Nat))
    BY <1>4, <1>5 DEF Upto
  <2>2. CASE y < x
    <3>1. 1 .. y \subseteq 1 .. x /\ x \in 1 .. x /\ x \notin 1 .. y
      BY <2>2
    <3> QED BY <3>1, <2>1 DEF StrictSubsetOrdering
  <2> QED BY <2>2
<1> QED BY <1>6 DEF First

\* allocatePlace answers an integer: NoPlace or a place of the room.
LEMMA AllocateType ==
  ASSUME NEW cap \in Nat, NEW multi \in BOOLEAN, NEW g \in Nat \ {0}, NEW others
  PROVE  allocatePlace(cap, multi, g, others) \in Int
<1> DEFINE free == (1 .. cap) \ Taken(others)
<1>1. free # {} => First(free) \in Int
  BY FirstInSet
<1>2. allocatePlace(cap, multi, g, others) \in {1, NoPlace}
      \/ (free # {} /\ allocatePlace(cap, multi, g, others) = First(free))
  BY Zenon DEF allocatePlace
<1> QED BY <1>1, <1>2 DEF NoPlace

\* A hotel that sells whole rooms gives a place in a room only when no other
\* booking holds it on those nights: both ways of finding a place agree on it.
LEMMA WholeRoomIsExclusive ==
  ASSUME NEW cap \in Nat, NEW g \in Nat \ {0}, NEW others, NEW start \in Int
  PROVE  /\ allocatePlace(cap, FALSE, g, others) # NoPlace => others = {}
         /\ spanFree(start, cap, FALSE, g, others) => others = {}
BY DEF allocatePlace, NoPlace, spanFree

\* A hotel that sells places: an allocated place is free, and the places the
\* party needs from there on exist in the room, although allocatePlace compares
\* numbers of places only.  (If the party overran the room, all free places
\* would lie between the allocated one and the last: fewer than it needs.)
THEOREM AllocationWithinRoom ==
  ASSUME NEW cap \in Nat, NEW g \in Nat \ {0}, NEW others,
         IsFiniteSet(Taken(others)),
         allocatePlace(cap, TRUE, g, others) # NoPlace
  PROVE  LET place == allocatePlace(cap, TRUE, g, others)
         IN  /\ place \in (1 .. cap) \ Taken(others)
             /\ Span(place, g) \subseteq 1 .. cap
<1> DEFINE taken == Taken(others)
           free  == (1 .. cap) \ taken
           place == allocatePlace(cap, TRUE, g, others)
<1>1. placesOf(g, cap, TRUE) = g
  BY DEF placesOf
<1>2. /\ ~ (cap - Cardinality(taken) < placesOf(g, cap, TRUE))
      /\ free # {}
      /\ place = First(free)
  BY Zenon DEF allocatePlace
<1> HIDE DEF place
<1>3. place \in free /\ \A q \in free : place <= q
  <2>1. free \in SUBSET Nat
    OBVIOUS
  <2> HIDE DEF free
  <2> QED BY <1>2, <2>1, FirstInSet
<1>4. place + g - 1 <= cap
  <2>1. free \subseteq place .. cap
    BY <1>3
  <2>2. /\ IsFiniteSet(free)
        /\ Cardinality(free) <= cap - place + 1
    <3>1. place \in Int /\ place <= cap
      BY <1>3
    <3>2. /\ IsFiniteSet(place .. cap)
          /\ Cardinality(place .. cap) = cap - place + 1
      BY <3>1, FS_Interval
    <3> HIDE DEF free
    <3> QED BY <2>1, <3>2, FS_Subset
  <2>3. /\ IsFiniteSet(1 .. cap)
        /\ Cardinality(1 .. cap) = cap
    BY FS_Interval
  <2>4. Cardinality(free) = cap - Cardinality((1 .. cap) \cap taken)
    BY <2>3, FS_Difference
  <2>5. /\ Cardinality((1 .. cap) \cap taken) <= Cardinality(taken)
        /\ Cardinality((1 .. cap) \cap taken) \in Nat
        /\ Cardinality(taken) \in Nat
        /\ Cardinality(free) \in Nat
    BY <2>2, FS_Intersection, FS_CardinalityType
  <2>6. place \in Int
    BY <1>3
  <2>7. ~ (cap - Cardinality(taken) < g)
    BY <1>1, <1>2, Zenon
  <2> HIDE DEF taken, free
  <2> QED BY <2>2, <2>4, <2>5, <2>6, <2>7
<1>5. place \in 1 .. cap
  BY <1>3
<1>6. Span(place, g) \subseteq 1 .. cap
  BY <1>4, <1>5 DEF Span
<1> QED BY <1>3, <1>6 DEF place
=============================================================================
