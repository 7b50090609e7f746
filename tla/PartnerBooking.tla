--------------------------- MODULE PartnerBooking ---------------------------
(***************************************************************************)
(* How a partner's booking is created: ConnectivityService.createReservation *)
(* around ReservationsService.create, for calls that carry the header      *)
(* X-Idempotency-Key.  The partner repeats a call whose answer it did not  *)
(* get, also while the first is still being served; the process may die,   *)
(* and the connection to the database may break while it commits.          *)
(*                                                                         *)
(* A key is the key with its partner and its hotel; a body is the          *)
(* fingerprint of the original body.  Whether the room, the tariff and the *)
(* price allow the booking is decided elsewhere (module Reservations): here *)
(* each of these checks may refuse.                                        *)
(***************************************************************************)
EXTENDS FiniteSets

CONSTANTS
  Attempts,   \* POSTs that can be served at the same time
  Keys,
  Bodies,
  None,
  Limbo       \* a transaction whose client is gone while it commits

VARIABLES
  booked,     \* booked[k]: the fingerprint in the row with key k, or None
  holder,     \* holder[k]: who holds the advisory lock of key k
  limbo,      \* limbo[k]: the fingerprint a transaction in limbo would write
  att,        \* att[a]: the POST that a serves and how far it is
  answers,    \* answers the partner has received
  unsettled   \* unsettled[k]: some POST with key k ended without the partner
              \* learning that it was rejected

vars == <<booked, holder, limbo, att, answers, unsettled>>

ASSUME ConstantsAssumption ==
  /\ None \notin Bodies
  /\ None \notin Attempts
  /\ Limbo \notin Attempts \cup {None}

-----------------------------------------------------------------------------
Idle == [pc |-> "idle", key |-> None, body |-> None, err |-> "none"]

\* What has gone wrong: a 4xx of the checks before the create (`definite'), a
\* refusal of the create itself, which carries its code (`refused'), the key
\* used with another body (`conflict'), or anything else (`unknown').
Errors == {"none", "definite", "refused", "conflict", "unknown"}

\* Where a POST is: early - before findChannelReservation; preflight - tariff,
\* price, choice of the room; lock, replay, alloc, insert - in the transaction of
\* create; after - committed, the journal not yet written; recheck - in the
\* handler of errors.
Pcs == {"early", "preflight", "lock", "replay", "alloc", "insert", "after", "recheck"}

Attempt == [pc : Pcs, key : Keys, body : Bodies, err : Errors]

Kinds == {"ok", "conflict", "rejected", "error"}

TypeOK ==
  /\ booked \in [Keys -> Bodies \cup {None}]
  /\ holder \in [Keys -> Attempts \cup {None, Limbo}]
  /\ limbo \in [Keys -> Bodies \cup {None}]
  /\ att \in [Attempts -> Attempt \cup {Idle}]
  /\ answers \subseteq [key : Keys, body : Bodies, kind : Kinds]
  /\ unsettled \in [Keys -> BOOLEAN]

Init ==
  /\ booked = [k \in Keys |-> None]
  /\ holder = [k \in Keys |-> None]
  /\ limbo = [k \in Keys |-> None]
  /\ att = [a \in Attempts |-> Idle]
  /\ answers = {}
  /\ unsettled = [k \in Keys |-> FALSE]

-----------------------------------------------------------------------------
(* Steps of one POST *)

At(a, pc) == att[a].pc = pc

(* Definitions named Slip... are plausible mistakes in the definition that      *)
(* follows; no action uses them.  They show what the properties notice.        *)

\* The POST goes on at pc; with an error, in the handler.
Goes(a, pc)    == att' = [att EXCEPT ![a].pc = pc]
Throws(a, err) == att' = [att EXCEPT ![a].pc = "recheck", ![a].err = err]

\* The fingerprint is not compared.
SlipSameRow(a) == booked[att[a].key] # None

\* channelReservation: no row of this key, a row made from the same body, or
\* another row, which throws.
NoRow(a)    == booked[att[a].key] = None
SameRow(a)  == booked[att[a].key] = att[a].body
OtherRow(a) == ~NoRow(a) /\ ~SameRow(a)

\* The answer is sent; the partner may not receive it.
Answers(a, kind) ==
  LET k    == att[a].key
      said == [key |-> k, body |-> att[a].body, kind |-> kind]
  IN  /\ att' = [att EXCEPT ![a] = Idle]
      /\ \/ /\ answers' = answers \cup {said}
            /\ unsettled' = [unsettled EXCEPT ![k] = @ \/ kind # "rejected"]
         \/ /\ answers' = answers
            /\ unsettled' = [unsettled EXCEPT ![k] = TRUE]

\* A lock of the session, which outlives the transaction.
SlipUnlocks(a) == holder' = holder

\* The transaction ends, and the lock with it.
Unlocks(a) == holder' = [holder EXCEPT ![att[a].key] = None]

Post(a) ==
  /\ att[a] = Idle
  /\ \E k \in Keys, b \in Bodies :
       att' = [att EXCEPT ![a] = [pc |-> "early", key |-> k, body |-> b, err |-> "none"]]
  /\ UNCHANGED <<booked, holder, limbo, answers, unsettled>>

\* findChannelReservation, before tariff and room are looked at.
Early(a) ==
  /\ At(a, "early")
  /\ \/ SameRow(a) /\ Answers(a, "ok")
     \/ /\ \/ OtherRow(a) /\ Throws(a, "conflict")
           \/ NoRow(a) /\ Goes(a, "preflight")
           \/ Throws(a, "unknown")
        /\ UNCHANGED <<answers, unsettled>>
  /\ UNCHANGED <<booked, holder, limbo>>

\* Category, tariff, price and room: any of them may refuse, or fail.
Preflight(a) ==
  /\ At(a, "preflight")
  /\ Goes(a, "lock") \/ Throws(a, "definite") \/ Throws(a, "unknown")
  /\ UNCHANGED <<booked, holder, limbo, answers, unsettled>>

\* pg_advisory_xact_lock waits until the lock is free.
Lock(a) ==
  /\ At(a, "lock")
  /\ holder[att[a].key] = None
  /\ holder' = [holder EXCEPT ![att[a].key] = a]
  /\ Goes(a, "replay")
  /\ UNCHANGED <<booked, limbo, answers, unsettled>>

\* The second lookup, under the lock.
Replay(a) ==
  /\ At(a, "replay")
  /\ \/ SameRow(a) /\ Answers(a, "ok") /\ Unlocks(a)
     \/ /\ \/ OtherRow(a) /\ Throws(a, "conflict") /\ Unlocks(a)
           \/ NoRow(a) /\ Goes(a, "alloc") /\ UNCHANGED holder
        /\ UNCHANGED <<answers, unsettled>>
  /\ UNCHANGED <<booked, limbo>>

\* Room and place (ROOM_NOT_FOUND, NO_PLACE_AVAILABLE).
Allocate(a) ==
  /\ At(a, "alloc")
  /\ \/ Goes(a, "insert") /\ UNCHANGED holder
     \/ Throws(a, "refused") /\ Unlocks(a)
  /\ UNCHANGED <<booked, limbo, answers, unsettled>>

\* INSERT and COMMIT; the unique index refuses a second row of the key.
Insert(a) ==
  /\ At(a, "insert")
  /\ \/ /\ NoRow(a)
        /\ booked' = [booked EXCEPT ![att[a].key] = att[a].body]
        /\ Goes(a, "after")
     \/ ~NoRow(a) /\ Throws(a, "unknown") /\ UNCHANGED booked
  /\ Unlocks(a)
  /\ UNCHANGED <<limbo, answers, unsettled>>

\* The transaction times out or fails, and is rolled back.
RollBack(a) ==
  /\ att[a].pc \in {"replay", "alloc", "insert"}
  /\ Throws(a, "unknown")
  /\ Unlocks(a)
  /\ UNCHANGED <<booked, limbo, answers, unsettled>>

\* A request for the lock fails or times out; nothing is held yet.
LockFails(a) ==
  /\ At(a, "lock")
  /\ Throws(a, "unknown")
  /\ UNCHANGED <<booked, holder, limbo, answers, unsettled>>

\* The connection breaks while the transaction commits: the service sees an error,
\* the database still has to decide.
BreaksInCommit(a) ==
  /\ At(a, "insert")
  /\ NoRow(a)
  /\ limbo' = [limbo EXCEPT ![att[a].key] = att[a].body]
  /\ holder' = [holder EXCEPT ![att[a].key] = Limbo]
  /\ Throws(a, "unknown")
  /\ UNCHANGED <<booked, answers, unsettled>>

\* Timeline, event, journal: a failure here is an error after the COMMIT.
After(a) ==
  /\ At(a, "after")
  /\ \/ Answers(a, "ok")
     \/ Throws(a, "unknown") /\ UNCHANGED <<answers, unsettled>>
  /\ UNCHANGED <<booked, holder, limbo>>

\* Every error is reported as a rejection.
SlipRejected(err) == err \in {"definite", "refused", "unknown"}

\* The errors that carry RESERVATION_CREATE_REJECTED: a 4xx between the first
\* lookup and the create, or the create's own refusals.
Rejected(err) == err \in {"definite", "refused"}

\* The handler of errors looks for the row once more before it answers.
Recheck(a) ==
  /\ At(a, "recheck")
  /\ \/ SameRow(a) /\ Answers(a, "ok")
     \/ OtherRow(a) /\ Answers(a, "conflict")
     \/ NoRow(a) /\ Answers(a, IF Rejected(att[a].err) THEN "rejected"
                               ELSE IF att[a].err = "conflict" THEN "conflict" ELSE "error")
     \/ Answers(a, "error")
  /\ UNCHANGED <<booked, holder, limbo>>

-----------------------------------------------------------------------------
(* The database and the process *)

\* The database finishes a commit nobody waits for, or rolls it back.
Decide(k) ==
  /\ limbo[k] # None
  /\ booked' \in {booked, [booked EXCEPT ![k] = limbo[k]]}
  /\ limbo' = [limbo EXCEPT ![k] = None]
  /\ holder' = [holder EXCEPT ![k] = None]
  /\ UNCHANGED <<att, answers, unsettled>>

InService(k) == \E a \in Attempts : att[a].pc # "idle" /\ att[a].key = k

\* The process dies: the POSTs it served are gone, their transactions rolled back.
Crash ==
  /\ att' = [a \in Attempts |-> Idle]
  /\ holder' = [k \in Keys |-> IF holder[k] \in Attempts THEN None ELSE holder[k]]
  /\ unsettled' = [k \in Keys |-> unsettled[k] \/ InService(k)]
  /\ UNCHANGED <<booked, limbo, answers>>

Step(a) == Early(a) \/ Preflight(a) \/ Lock(a) \/ LockFails(a) \/ Replay(a) \/ Allocate(a)
           \/ Insert(a) \/ RollBack(a) \/ BreaksInCommit(a) \/ After(a) \/ Recheck(a)

Next ==
  \/ \E a \in Attempts : Post(a) \/ Step(a)
  \/ \E k \in Keys : Decide(k)
  \/ Crash

Spec == Init /\ [][Next]_vars

\* What the service does of itself, failures left out.  Node runs on and PostgreSQL
\* ends its statements and its commits: weak fairness.  PostgreSQL queues those
\* that wait for a lock, so none is overtaken for ever: strong fairness.
Works(a) == Early(a) \/ Preflight(a) \/ Replay(a) \/ Allocate(a) \/ Insert(a) \/ After(a)
            \/ Recheck(a)

Fairness ==
  /\ \A a \in Attempts : WF_vars(Works(a)) /\ SF_vars(Lock(a))
  /\ \A k \in Keys : WF_vars(Decide(k))
FairSpec == Spec /\ Fairness

-----------------------------------------------------------------------------
(* Properties *)

\* A POST that gets as far as the INSERT under the lock finds no row of its key:
\* the unique index is a safeguard that never has to refuse a partner.
IndexNeverHit == \A a \in Attempts : At(a, "insert") => NoRow(a)

\* A partner that received RESERVATION_CREATE_REJECTED for every POST it made with
\* a key, and has none outstanding, has no booking under that key and may drop it,
\* whatever broke in between.
RejectionIsFinal ==
  \A k \in Keys : ~unsettled[k] /\ ~InService(k) => booked[k] = None

\* Nobody waits for the lock of a key for ever: every POST is answered, or goes down
\* with the process.
Answered == \A a \in Attempts : At(a, "lock") ~> At(a, "idle")

\* The calls together implement the promise of the header: one booking per key,
\* and answers that are true when they are given.
Promise == INSTANCE KeyedBooking
PromiseKept == Promise!Spec

-----------------------------------------------------------------------------
(* The inductive invariant *)

InTransaction == {"replay", "alloc", "insert"}

\* A POST in its transaction has the lock of its key, and past the second lookup
\* there is no row of the key; a commit in limbo keeps the lock as well.
LockInv ==
  /\ \A a \in Attempts :
       /\ att[a].pc \in InTransaction => holder[att[a].key] = a
       /\ att[a].pc \in {"alloc", "insert"} => NoRow(a)
  /\ \A k \in Keys : limbo[k] # None => holder[k] = Limbo /\ booked[k] = None

\* What a POST knows about the row of its key.
KnowsInv ==
  \A a \in Attempts :
    /\ att[a].pc = "after" => SameRow(a)
    /\ att[a].pc = "recheck" /\ att[a].err = "conflict" => OtherRow(a)

\* A POST whose answer cannot be a rejection.
Bound(a) == att[a].pc = "after" \/ (att[a].pc = "recheck" /\ att[a].err = "unknown")

\* A row, or one that may still come, is known to the partner as unsettled, or will
\* be when the POST that made it is answered.
UnsettledInv ==
  \A k \in Keys :
    booked[k] # None \/ limbo[k] # None =>
      unsettled[k] \/ \E a \in Attempts : att[a].key = k /\ Bound(a)

Inv == TypeOK /\ LockInv /\ KnowsInv /\ UnsettledInv
=============================================================================
