---------------------------- MODULE LoginThrottle ----------------------------
(***************************************************************************)
(* How often a password may be tried.  Failures are counted by address and *)
(* by machine, each count for a window from its first failure; the counts  *)
(* are asked before the password is compared and raised after, each in a   *)
(* call of its own to the store, so tries at one time see the same count.  *)
(***************************************************************************)
EXTENDS FiniteSets, Naturals

CONSTANTS Addresses, Machines, Workers,
  NoLogin,  \* a worker that serves no login
  MAX_PER_EMAIL, MAX_PER_IP

Counters == Addresses \cup Machines
Limit(k) == IF k \in Addresses THEN MAX_PER_EMAIL ELSE MAX_PER_IP

\* A login under way.
Try == [email : Addresses, ip : Machines,
        step : {"askEmail", "askIp", "compare", "success", "countEmail", "expireEmail",
                "countIp", "expireIp", "done"}]

ASSUME ThrottleAssumption ==
  /\ Addresses \cap Machines = {}
  /\ IsFiniteSet(Workers)
  /\ NoLogin \notin Try
  /\ MAX_PER_EMAIL \in Nat \ {0} /\ MAX_PER_IP \in Nat \ {0}

VARIABLES
  failures, \* the counters in the store
  window,   \* counters that end by themselves
  try,      \* Workers -> NoLogin, or a login under way
  wrong     \* wrong passwords since the counter began, compared and counted or yet to be

throttleVars == <<failures, window, try, wrong>>

ThrottleInit ==
  /\ failures = [k \in Counters |-> 0]
  /\ window = {}
  /\ try = [w \in Workers |-> NoLogin]
  /\ wrong = [k \in Counters |-> 0]

StepIs(w, s) == try[w] # NoLogin /\ try[w].step = s
To(w, s) == try' = [try EXCEPT ![w].step = s]
Answered(w) == try' = [try EXCEPT ![w] = NoLogin]

Login(w, e, m) ==
  /\ try[w] = NoLogin
  /\ try' = [try EXCEPT ![w] = [email |-> e, ip |-> m, step |-> "askEmail"]]
  /\ UNCHANGED <<failures, window, wrong>>

\* As if the last try were given once more.
SlipAllowed(k) == failures[k] <= Limit(k)
Allowed(k) == failures[k] < Limit(k)

AssertAllowed(w, s, k, then) ==
  /\ StepIs(w, s)
  /\ IF Allowed(k) THEN To(w, then) ELSE Answered(w)
  /\ UNCHANGED <<failures, window, wrong>>
AskEmail(w) == try[w] # NoLogin /\ AssertAllowed(w, "askEmail", try[w].email, "askIp")
AskIp(w) == try[w] # NoLogin /\ AssertAllowed(w, "askIp", try[w].ip, "compare")

\* A wrong password, an unknown address, an account or a hotel that is off.
CompareWrong(w) ==
  /\ StepIs(w, "compare")
  /\ wrong' = [k \in Counters |-> IF k \in {try[w].email, try[w].ip} THEN wrong[k] + 1 ELSE wrong[k]]
  /\ To(w, "countEmail")
  /\ UNCHANGED <<failures, window>>
CompareRight(w) ==
  /\ StepIs(w, "compare")
  /\ To(w, "success")
  /\ UNCHANGED <<failures, window, wrong>>

\* The first failure opens the window, by a call of its own.
Incr(w, s, k, expire, then) ==
  /\ StepIs(w, s)
  /\ failures' = [failures EXCEPT ![k] = @ + 1]
  /\ To(w, IF failures[k] = 0 THEN expire ELSE then)
  /\ UNCHANGED <<window, wrong>>
Expire(w, s, k, then) ==
  /\ StepIs(w, s)
  /\ window' = IF failures[k] > 0 THEN window \cup {k} ELSE window
  /\ To(w, then)
  /\ UNCHANGED <<failures, wrong>>
CountEmail(w) ==
  try[w] # NoLogin /\
    (Incr(w, "countEmail", try[w].email, "expireEmail", "countIp") \/ Expire(w, "expireEmail", try[w].email, "countIp"))
CountIp(w) ==
  try[w] # NoLogin /\
    (Incr(w, "countIp", try[w].ip, "expireIp", "done") \/ Expire(w, "expireIp", try[w].ip, "done"))
Denied(w) == StepIs(w, "done") /\ Answered(w) /\ UNCHANGED <<failures, window, wrong>>

Forget(k) ==
  /\ failures' = [failures EXCEPT ![k] = 0]
  /\ window' = window \ {k}
  /\ wrong' = [wrong EXCEPT ![k] = 0]
\* Who got in has the count of his address, not of his machine, forgotten.
Success(w) == StepIs(w, "success") /\ Forget(try[w].email) /\ Answered(w)
WindowEnds(k) == k \in window /\ Forget(k) /\ UNCHANGED try

\* The process dies or the store does not answer, between any two calls: what was
\* yet to be counted never is, and a counter just begun may get no window.
Uncounted(w) ==
  CASE try[w].step = "countEmail" -> {try[w].email, try[w].ip}
    [] try[w].step \in {"expireEmail", "countIp"} -> {try[w].ip}
    [] OTHER -> {}
Broken(w) ==
  /\ try[w] # NoLogin
  /\ wrong' = [k \in Counters |-> IF k \in Uncounted(w) /\ wrong[k] > 0 THEN wrong[k] - 1 ELSE wrong[k]]
  /\ Answered(w)
  /\ UNCHANGED <<failures, window>>

ThrottleNext ==
  \/ \E w \in Workers :
       \/ \E e \in Addresses, m \in Machines : Login(w, e, m)
       \/ AskEmail(w) \/ AskIp(w) \/ CompareWrong(w) \/ CompareRight(w) \/ CountEmail(w) \/ CountIp(w)
       \/ Denied(w) \/ Success(w) \/ Broken(w)
  \/ \E k \in Counters : WindowEnds(k)
ThrottleSpec == ThrottleInit /\ [][ThrottleNext]_throttleVars

ThrottleTypeOK ==
  /\ failures \in [Counters -> Nat]
  /\ window \subseteq Counters
  /\ try \in [Workers -> Try \cup {NoLogin}]
  /\ wrong \in [Counters -> Nat]

\* The tries that were told that counter k allows them and have not raised it yet, and
\* those among them that have compared and found the password wrong.
PastQuestion(k) ==
  {w \in Workers : try[w] # NoLogin /\
     \/ try[w].email = k /\ try[w].step \in {"askIp", "compare", "countEmail"}
     \/ try[w].ip = k /\ try[w].step \in {"compare", "countEmail", "expireEmail", "countIp"}}
FoundWrong(k) == {w \in Workers : try[w] # NoLogin /\ k \in Uncounted(w)}

\* A counter and the tries past its question together stay below the limit and one
\* try of each worker; what was found wrong is counted or is about to be.
GuessesInv ==
  /\ ThrottleTypeOK
  /\ \A k \in Counters :
       /\ failures[k] + Cardinality(PastQuestion(k)) < Limit(k) + Cardinality(Workers)
       /\ wrong[k] <= failures[k] + Cardinality(FoundWrong(k))

(***************************************************************************)
(* Properties.                                                             *)
(***************************************************************************)
\* However many tries come at once, the passwords of one address and from one
\* machine that are found wrong in a window go beyond the limit by no more than
\* the tries that were already past the question - those a broken process or
\* store forgot to count aside.
GuessesAreBounded == \A k \in Counters : wrong[k] < Limit(k) + Cardinality(Workers)
=============================================================================
