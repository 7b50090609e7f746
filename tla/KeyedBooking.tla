---------------------------- MODULE KeyedBooking ----------------------------
(***************************************************************************)
(* What X-Idempotency-Key promises a partner that creates bookings: a key  *)
(* stands for at most one booking, made from one body, and every answer is *)
(* true of that booking when it is given.  A key here is the key together  *)
(* with its partner and its hotel, as in the unique index of the table.    *)
(***************************************************************************)
CONSTANTS Keys, Bodies, None

VARIABLES
  booked,    \* booked[k]: the body that made the booking of key k, or None
  answers    \* the answers the partner has received

Kinds == {"ok", "conflict", "rejected", "error"}

Init == booked = [k \in Keys |-> None] /\ answers = {}

\* The booking of a key is made once and is never made again.
Book ==
  /\ \E k \in Keys, b \in Bodies :
       booked[k] = None /\ booked' = [booked EXCEPT ![k] = b]
  /\ UNCHANGED answers

\* What may be said of the body b under key k.  After an error the partner knows
\* nothing and keeps the key.
True(k, b, kind) ==
  CASE kind = "ok"       -> booked[k] = b
    [] kind = "conflict" -> booked[k] \notin {None, b}
    [] kind = "rejected" -> booked[k] = None
    [] kind = "error"    -> TRUE

Answer ==
  /\ \E k \in Keys, b \in Bodies, kind \in Kinds :
       /\ True(k, b, kind)
       /\ answers' = answers \cup {[key |-> k, body |-> b, kind |-> kind]}
  /\ UNCHANGED booked

Next == Book \/ Answer

Spec == Init /\ [][Next]_<<booked, answers>>
=============================================================================
