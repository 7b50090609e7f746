------------------------------ MODULE MCOffice ------------------------------
(***************************************************************************)
(* What goes on by itself once a booking was changed: Kars Avia hears of   *)
(* it, and its guest is forgotten in time.  No step is a step of both, so  *)
(* a behaviour is of one of them: the scene.                               *)
(***************************************************************************)
EXTENDS PartnerNews, GuestData, TLC
VARIABLE scene

\* The hotel's own terms are longer than the platform's, so those of the platform count.
OwnTerms == [cancelled |-> 9, contacts |-> 9]

MCVars == <<vars, guestVars, scene>>

MCInit ==
  /\ scene \in {"news", "guests"}
  /\ Init /\ GuestsInit
  /\ scene # "guests" => charged = {} /\ \A b \in Bookings : guest[b].status = "live"
MCNext ==
  /\ UNCHANGED scene
  /\ \/ scene = "news" /\ Next /\ UNCHANGED guestVars
     \/ scene = "guests" /\ GuestsStep /\ UNCHANGED vars

\* The fairness of each module, in the scene it is of: elsewhere its steps are not taken.
SceneFairness ==
  /\ WF_guestVars(scene = "guests" /\ DayPasses)
  /\ \A m \in Machines : WF_guestVars(scene = "guests" /\ RulesStep(m))
  /\ \A d \in People : WF_guestVars(scene = "guests" /\ DeskStep(d))
MCSpec == MCInit /\ [][MCNext]_MCVars /\ Fairness /\ SceneFairness
=============================================================================
