---------------------------- MODULE PartnerNews -----------------------------
(***************************************************************************)
(* What Kars Avia hears of its bookings without asking (PartnerWebhook-    *)
(* Service).  After the COMMIT of a change the handler reads the booking   *)
(* once more and sends an event without waiting for it: up to three        *)
(* attempts with delays, each of which may be received although it failed. *)
(* Events live in the memory of the process and overtake one another.      *)
(* A change is known by its number, a booking by its newest change.        *)
(***************************************************************************)
EXTENDS Naturals, Sequences, FiniteSets

CONSTANTS
  Writers,     \* requests that change a booking of Kars Avia under way at a time
  Kinds,       \* what the requests do, of AllKinds
  Attempts,    \* RETRY_DELAYS_MS: attempts to deliver an event
  MaxChanges,  \* bound: changes committed
  MaxFaults    \* bound: restarts and failures of the handlers

AllKinds == {"change", "fact", "form", "cancel", "swap"}

ASSUME NewsAssumption ==
  /\ Kinds \subseteq AllKinds
  /\ Attempts \in Nat \ {0} /\ MaxChanges \in Nat /\ MaxFaults \in Nat

VARIABLES
  now,     \* number of the newest change
  writer,  \* handlers between COMMIT and answer
  news,    \* events on their way
  heard,   \* changes of which Kars Avia has received an event
  newest,  \* the newest state of the booking it was told
  lost,    \* changes an event of which was refused, given up or cut off by a failure
  due,     \* changes Kars Avia is to be told of
  faults   \* restarts and failures so far, for the bound

vars == <<now, writer, news, heard, newest, lost, due, faults>>

\* The events after a change, one after another: an arrival saved by the form sends two.
Tells(kind) == CASE kind = "change" -> <<"changed">>
                 [] kind = "fact" -> <<"fact">>
                 [] kind = "form" -> <<"fact", "changed">>
                 [] kind \in {"cancel", "swap"} -> <<>>

Stamp == 0..MaxChanges
Types == {"changed", "fact"}
Event == [about : Stamp, type : Types, says : Stamp, tries : Nat]
Idle == [n |-> 0, tell |-> <<>>]

Init ==
  /\ now = 0
  /\ writer = [w \in Writers |-> Idle]
  /\ news = {} /\ heard = {} /\ lost = {} /\ due = {}
  /\ newest = 0
  /\ faults = 0

-----------------------------------------------------------------------------
Commit(w, kind) ==
  /\ writer[w] = Idle
  /\ now < MaxChanges
  /\ now' = now + 1
  /\ due' = IF Tells(kind) = <<>> THEN due ELSE due \cup {now'}
  /\ writer' = [writer EXCEPT ![w] = [n |-> now', tell |-> Tells(kind)]]
  /\ UNCHANGED <<news, heard, newest, lost, faults>>

\* Slip: the event carries the booking as it was read before the change.
SlipSays(n, type) == n - 1

\* A change tells the booking as it stands when it is read again; a fact tells itself.
Says(n, type) == CASE type = "changed" -> now
                   [] type = "fact" -> n

\* emitReservationChanged, emitForReservation.
Emit(w) ==
  LET n == writer[w].n
      type == Head(writer[w].tell)
  IN /\ writer[w].tell # <<>>
     /\ writer' = [writer EXCEPT ![w].tell = Tail(@)]
     /\ news' = news \cup {[about |-> n, type |-> type, says |-> Says(n, type), tries |-> 0]}
     /\ UNCHANGED <<now, heard, newest, lost, due, faults>>

\* The booking cannot be read: a warning in the log, no event.
EmitFails(w) ==
  /\ writer[w].tell # <<>>
  /\ faults < MaxFaults
  /\ faults' = faults + 1
  /\ writer' = [writer EXCEPT ![w].tell = Tail(@)]
  /\ lost' = lost \cup {writer[w].n}
  /\ UNCHANGED <<now, news, heard, newest, due>>

Finish(w) ==
  /\ writer[w].n > 0
  /\ writer[w].tell = <<>>
  /\ writer' = [writer EXCEPT ![w] = Idle]
  /\ UNCHANGED <<now, news, heard, newest, lost, due, faults>>

\* Redis or a statement fails after the COMMIT, before any event: the rest is not done.
HandlerFails(w) ==
  /\ writer[w].n > 0
  /\ faults < MaxFaults
  /\ faults' = faults + 1
  /\ writer' = [writer EXCEPT ![w] = Idle]
  /\ lost' = lost \cup {writer[w].n}
  /\ UNCHANGED <<now, news, heard, newest, due>>

Received(e) ==
  /\ heard' = heard \cup {e.about}
  /\ newest' = IF e.says > newest THEN e.says ELSE newest
NotReceived == UNCHANGED <<heard, newest>>

Accepted(e) ==
  /\ news' = news \ {e}
  /\ Received(e)
  /\ UNCHANGED lost

\* 4xx: another attempt would not help.
Rejected(e) ==
  /\ news' = news \ {e}
  /\ lost' = lost \cup {e.about}
  /\ NotReceived

\* Slip: any answer is taken for a receipt.
SlipFailed(e) ==
  /\ news' = news \ {e}
  /\ NotReceived
  /\ UNCHANGED lost

\* 5xx, no connection, or no answer in time: perhaps received.
Failed(e) ==
  /\ Received(e) \/ NotReceived
  /\ IF e.tries + 1 < Attempts
     THEN /\ news' = (news \ {e}) \cup {[e EXCEPT !.tries = @ + 1]}
          /\ UNCHANGED lost
     ELSE /\ news' = news \ {e}
          /\ lost' = lost \cup {e.about}

Attempt(e) ==
  /\ e \in news
  /\ Accepted(e) \/ Rejected(e) \/ Failed(e)
  /\ UNCHANGED <<now, writer, due, faults>>

\* The process restarts: handlers and events are gone.
Restart ==
  /\ faults < MaxFaults
  /\ faults' = faults + 1
  /\ lost' = lost \cup {e.about : e \in news} \cup ({writer[w].n : w \in Writers} \ {0})
  /\ news' = {}
  /\ writer' = [w \in Writers |-> Idle]
  /\ UNCHANGED <<now, heard, newest, due>>

Next ==
  \/ \E w \in Writers :
       (\E kind \in Kinds : Commit(w, kind)) \/ Emit(w) \/ EmitFails(w) \/ Finish(w) \/ HandlerFails(w)
  \/ \E e \in news : Attempt(e)
  \/ Restart

(***************************************************************************)
(* Handlers run to their end; a timer of an event fires in the end.        *)
(***************************************************************************)
Fairness == /\ \A w \in Writers : WF_vars(Emit(w) \/ Finish(w))
            /\ WF_vars(\E e \in news : Attempt(e))

Spec == Init /\ [][Next]_vars
FairSpec == Spec /\ Fairness

-----------------------------------------------------------------------------
TypeOK ==
  /\ now \in Stamp /\ newest \in Stamp
  /\ writer \in [Writers -> [n : Stamp, tell : {<<>>} \cup {<<t>> : t \in Types} \cup {<<"fact", "changed">>}]]
  /\ \A e \in news : e \in Event /\ e.tries < Attempts
  /\ heard \subseteq Stamp /\ lost \subseteq Stamp /\ due \subseteq Stamp
  /\ faults \in 0..MaxFaults

Owes(n) == \/ \E w \in Writers : writer[w].n = n /\ writer[w].tell # <<>>
           \/ \E e \in news : e.about = n

(***************************************************************************)
(* In whatever order events arrive and however often, once none is left of *)
(* a change Kars Avia knows a state of the booking at least as new, or an  *)
(* event of that change is among those it never got (emitReservation-      *)
(* Changed reads the booking after the COMMIT).                            *)
(***************************************************************************)
NewestIsHeard == \A n \in due : Owes(n) \/ n \in lost \/ newest >= n

(***************************************************************************)
(* Kars Avia hears of every change it is to be told of, or the event is    *)
(* refused, given up or cut off by a failure: none is forgotten in         *)
(* silence (deliver).                                                      *)
(***************************************************************************)
EveryChangeTold == \A n \in 1..MaxChanges : n \in due ~> n \in heard \cup lost

(***************************************************************************)
(* Why NewestIsHeard holds: an event is made after the COMMIT it tells of. *)
(***************************************************************************)
NewsInv ==
  /\ TypeOK
  /\ \A w \in Writers : writer[w].n <= now
  /\ due \subseteq 1..now
  /\ \A e \in news : e.says >= e.about
  /\ NewestIsHeard
=============================================================================
