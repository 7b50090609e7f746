-------------------------- MODULE MCAdministration --------------------------
(***************************************************************************)
(* How a hotel is set up and run: its rooms and categories, their places,  *)
(* their pictures, their cleaning, the accounts of its people and its life *)
(* on the platform.  No step here is a step of two of these at once, so a  *)
(* behaviour is of one of them: the scene.                                 *)
(***************************************************************************)
EXTENDS Housekeeping, FilledRoom, Accounts, LoginThrottle, Tenants, PhotoLists, TLC
VARIABLE scene

MCVars == <<premisesVars, taskVars, fillingVars, photoVars, tenantVars, accountVars, throttleVars, scene>>

MCInit ==
  /\ scene \in {"pictures", "category", "premises", "cleaning", "places", "leaving", "card", "people", "doors"}
  /\ IF scene = "cleaning" THEN Furnished ELSE PremisesInit
  /\ HousekeepingInit
  /\ IF scene = "places" THEN FillingInit ELSE capacity = 1 /\ others = {}
  /\ PhotosInit /\ (scene \notin {"pictures", "category"} => made = {})
  /\ TenantsInit /\ AccountsInit /\ ThrottleInit

\* Bound: while rooms are cleaned, one form is open at a time, none after one was saved
\* outdated, and nobody renumbers.
OneForm ==
  /\ Cardinality({d \in Desks : job'[d] # NoRow}) <= 1
  /\ overlapped => \A d \in Desks : job'[d] = NoRow
  /\ \A d \in Desks : job'[d] # NoRow => job'[d].draft.number = room[job'[d].of].number
OnPremises == UNCHANGED <<fillingVars, photoVars, tenantVars, accountVars, throttleVars, scene>>
OffPremises == UNCHANGED <<premisesVars, taskVars, scene>>

\* Bound: while rooms are made and archived, nobody edits their cleanliness.
Tidy == \A r \in RoomIds : room'[r] # NoRow => room'[r].status = "CLEAN"

MCNext ==
  \/ /\ OnPremises
     /\ \/ scene = "premises" /\ CatalogStep /\ Tidy /\ UNCHANGED taskVars
        \/ scene = "cleaning" /\ HousekeepingStep /\ OneForm
  \/ /\ OffPremises
     /\ \/ scene = "places" /\ FillingStep /\ UNCHANGED <<photoVars, tenantVars, accountVars, throttleVars>>
        \/ scene = "pictures" /\ ListStep /\ UNCHANGED <<fillingVars, tenantVars, accountVars, throttleVars>>
        \/ scene = "category" /\ FormStep /\ UNCHANGED <<fillingVars, tenantVars, accountVars, throttleVars>>
        \/ scene = "leaving" /\ ~crossed /\ LeavingStep /\ UNCHANGED <<fillingVars, photoVars, accountVars, throttleVars>>
        \/ scene = "card" /\ CardStep /\ UNCHANGED <<fillingVars, photoVars, accountVars, throttleVars>>
        \/ scene = "people" /\ AccountsNext /\ UNCHANGED <<fillingVars, photoVars, tenantVars, throttleVars>>
        \/ scene = "doors" /\ ThrottleNext /\ UNCHANGED <<fillingVars, photoVars, tenantVars, accountVars>>
MCSpec == MCInit /\ [][MCNext]_MCVars
\* Two that act, two things and two sorts of them, under whatever name a scene needs.
Alike == Permutations(Desks) \cup Permutations(RoomIds) \cup Permutations(TypeIds) \cup Permutations(Numbers)
=============================================================================
