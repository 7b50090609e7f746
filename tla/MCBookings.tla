----------------------------- MODULE MCBookings -----------------------------
(***************************************************************************)
(* Bookings from outside and at the desk, for TLC: Kars Avia creates them  *)
(* with idempotency keys, the hotel moves them on its chessboard.  No step *)
(* is a step of both, so a behaviour is of one of them: the scene.         *)
(***************************************************************************)
EXTENDS PartnerBooking, Chessboard, TLC
CONSTANTS r1, r2, b1, b2
VARIABLE scene

Row(room, place, from, to, status, price) ==
  [room |-> room, place |-> place, from |-> from, to |-> to, guests |-> 1,
   status |-> status, price |-> price, contact |-> "phone", version |-> 0]
\* On the chessboard: a guest in the house beside another who comes, and two one after the other.
MCStarts ==
  {b1 :> Row(r1, 1, 0, 1, "CHECKED_IN", 5) @@ b2 :> Row(r1, 2, 0, 2, "CONFIRMED", Nil),
   b1 :> Row(r1, 1, 0, 1, "CONFIRMED", 5) @@ b2 :> Row(r1, 1, 1, 2, "CONFIRMED", Nil)}
MCCapacity == r1 :> 2 @@ r2 :> 1
MCRack == r1 :> 2 @@ r2 :> 3

bookingsVars == <<vars, boardVars, scene>>
MCInit ==
  /\ scene \in {"partner", "board"}
  /\ Init /\ BoardInit
  /\ scene = "partner" => ~multiPlace /\ stays[b1].status = "CONFIRMED"
MCNext ==
  /\ UNCHANGED scene
  /\ \/ scene = "partner" /\ Next /\ UNCHANGED boardVars
     \/ scene = "board" /\ BoardStep /\ UNCHANGED vars
MCSpec == MCInit /\ [][MCNext]_bookingsVars /\ Fairness
=============================================================================
