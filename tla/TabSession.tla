----------------------------- MODULE TabSession -----------------------------
(***************************************************************************)
(* What the cabinet promises about the tabs of a browser, apart from how   *)
(* tokens and cookies keep the promise: the person who enters a hotel in a *)
(* tab works in that hotel there until they leave it.  A tab may lose any  *)
(* other session and may then take over the one of the browser; a tab that *)
(* was opened for a hotel never does.                                      *)
(***************************************************************************)
CONSTANTS Tabs, Sessions, HotelSessions, None

VARIABLES
  entered,   \* entered[t]: the session entered in the tab, not yet left
  works      \* works[t]: the session its requests go out under

tabVars == <<entered, works>>

Init == /\ entered = [t \in Tabs |-> None]
        /\ works = [t \in Tabs |-> None]

Enter(t, s) == /\ entered' = [entered EXCEPT ![t] = s]
               /\ works' = [works EXCEPT ![t] = s]

Leave(t) == /\ entered' = [entered EXCEPT ![t] = None]
            /\ works' = [works EXCEPT ![t] = None]

\* A page that loads has nothing in its memory yet.
Pause(t) == /\ works' = [works EXCEPT ![t] = None]
            /\ UNCHANGED entered

Resume(t) == /\ works[t] = None
             /\ works' = [works EXCEPT ![t] = entered[t]]
             /\ UNCHANGED entered

Adopt(t, s) == /\ works[t] = None
               /\ entered[t] \notin HotelSessions
               /\ works' = [works EXCEPT ![t] = s]
               /\ \/ UNCHANGED entered
                  \/ entered' = [entered EXCEPT ![t] = s]

Next == \E t \in Tabs : \/ \E s \in Sessions : Enter(t, s) \/ Adopt(t, s)
                        \/ Leave(t) \/ Pause(t) \/ Resume(t)

Spec == Init /\ [][Next]_tabVars
=============================================================================
