----------------------------- MODULE MCSessions -----------------------------
(* Instances for TLC: a dispatcher of the platform and an employee of a hotel, or two employees. *)
EXTENDS Sessions, TLC
CONSTANTS dispatcher, employee, hotel
MCHome == [u \in Users |-> IF u = dispatcher THEN None ELSE hotel]
MCLegacy == {Inside(hotel, dispatcher)}
\* Tabs, and slots for requests, are interchangeable; no run with them asks for liveness.
Names == Permutations(Tabs) \cup Permutations(Jobs)
=============================================================================
