---------------------------- MODULE MCHotelViews ----------------------------
(***************************************************************************)
(* HotelViews for TLC in three scenes, each small in another direction:    *)
(* two bookings change at a time; a chessboard moves between two periods;  *)
(* everything may change and everything may fail.                          *)
(***************************************************************************)
EXTENDS HotelViews
CONSTANTS today, tomorrow
VARIABLE scene

Scenes ==
  {[changes |-> 2, faults |-> 0, kinds |-> {"booking"}, windows |-> {today}],
   [changes |-> 1, faults |-> 0, kinds |-> {"booking"}, windows |-> {today, tomorrow}],
   [changes |-> 1, faults |-> 1, kinds |-> Kinds, windows |-> {today}]}

MCInit == Init /\ scene \in Scenes /\ \A s \in Screens : screen[s].window = today

InScene ==
  /\ (now + Cardinality(Uncommitted))' <= scene.changes
  /\ faults' <= scene.faults
  /\ \A w \in Writers : writer'[w].pc # "idle" => writer'[w].kind \in scene.kinds
  /\ \A s \in Screens : screen'[s].window \in scene.windows
  /\ \A r \in Readers : reader'[r].key \in Pages => scene.kinds = Kinds

MCSpec == MCInit /\ [][Next /\ InScene /\ UNCHANGED scene]_<<vars, scene>> /\ Fairness
=============================================================================
