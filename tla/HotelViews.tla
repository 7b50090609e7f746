----------------------------- MODULE HotelViews -----------------------------
(***************************************************************************)
(* What is shown of a hotel: the chessboard, the availability of days and  *)
(* the prices of rate plans, computed from PostgreSQL and kept in Redis    *)
(* for seconds; the screens that load the chessboard and hear over a       *)
(* socket that it changed.  What Kars Avia is told is in PartnerNews.      *)
(* A view is known by the number of the newest change it is sure to show.  *)
(***************************************************************************)
EXTENDS Naturals, Sequences, FiniteSets

CONSTANTS
  Writers,     \* requests that change the hotel under way at a time
  Readers,     \* requests for a view under way at a time
  Screens,     \* open chessboards
  Windows,     \* periods a chessboard shows
  Pages,       \* what is asked for besides the chessboard, of "days" and "plans"
  Kinds,       \* what may change, of AllKinds
  MaxChanges,  \* bound: changes ever begun
  MaxFaults,   \* bound: failures, restarts and lost connections
  None

AllKinds == {"booking", "grid", "prices", "rooms", "rules"}
Keys == Windows \cup Pages

ASSUME ViewsAssumption ==
  /\ Kinds \subseteq AllKinds
  /\ MaxChanges \in Nat /\ MaxFaults \in Nat
  /\ None \notin Screens \cup Keys
  /\ Pages \subseteq {"days", "plans"}
  /\ Windows \cap {"days", "plans"} = {} /\ Windows # {}

VARIABLES
  now,       \* number of the newest change
  latest,    \* latest[k]: number of the newest change that shows in view k
  cache,     \* the entries of Redis
  promised,  \* promised[k]: newest change after which the entry of k was dropped
  told,      \* newest change announced to the screens
  writer,    \* requests that change something
  reader,    \* requests that read a view
  screen,    \* chessboards
  faults     \* failures so far, for the bound

vars == <<now, latest, cache, promised, told, writer, reader, screen, faults>>

(***************************************************************************)
(* Which views a change shows in, which entries it drops, and whether it   *)
(* drops them before its COMMIT: bookings, the grid of days, prices and    *)
(* conditions of a rate plan, rooms, restrictions.                         *)
(***************************************************************************)
Shows(kind) == CASE kind = "booking" -> Windows
                 [] kind = "grid" -> {"days"}
                 [] kind = "prices" -> {"days", "plans"}
                 [] kind = "rooms" -> Windows \cup {"days"}
                 [] kind = "rules" -> {"days"}
Drops(kind) == CASE kind = "booking" -> Windows
                 [] kind = "grid" -> {"days", "plans"}
                 [] kind = "prices" -> {"plans"}
                 [] kind \in {"rooms", "rules"} -> {}
DropsEarly(kind) == kind = "grid"

Stamp == Nat
Entry == [value : Stamp, expires : BOOLEAN, overtaken : BOOLEAN]
View == [key : Keys, value : Stamp]

NoWriter == [pc |-> "idle", kind |-> "booking", n |-> 0, listed |-> {}, by |-> None,
             window |-> None]
WriterType == [pc : {"idle", "begun", "listed", "dropped", "committed", "announced"},
               kind : AllKinds, n : Stamp, listed : SUBSET Keys,
               by : Screens \cup {None}, window : Windows \cup {None}]

NoReader == [pc |-> "idle", key |-> None, value |-> 0, overtaken |-> FALSE, floor |-> 0, for |-> None]
ReaderType == [pc : {"idle", "asked", "missed", "read", "answered"}, key : Keys \cup {None}, value : Stamp,
               overtaken : BOOLEAN, floor : Stamp, for : Screens \cup {None}]

\* blemish: this screen missed a message, got answers out of order or an overtaken entry.
ScreenType == [window : Windows, shown : View \cup {None}, linked : BOOLEAN, mail : BOOLEAN,
               blemish : BOOLEAN]

Init ==
  /\ now = 0
  /\ latest = [k \in Keys |-> 0]
  /\ cache = [k \in Keys |-> None]
  /\ promised = [k \in Keys |-> 0]
  /\ told = 0
  /\ writer = [w \in Writers |-> NoWriter]
  /\ reader = [r \in Readers |-> NoReader]
  /\ \E w \in Windows :
       screen = [s \in Screens |-> [window |-> w, shown |-> None, linked |-> TRUE, mail |-> FALSE,
                                    blemish |-> FALSE]]
  /\ faults = 0

cached == <<cache, promised>>

-----------------------------------------------------------------------------
(***************************************************************************)
(* A view is read: GET, and after a miss SELECT and SET.                   *)
(***************************************************************************)
Loading(s) == {r \in Readers : reader[r].pc # "idle" /\ reader[r].for = s}

Asked(k, s) == [NoReader EXCEPT !.pc = "asked", !.key = k, !.floor = promised[k], !.for = s]

\* The partner, or the page of rates, asks; chessboards ask by Load below.
Ask(r, k) ==
  /\ reader[r].pc = "idle"
  /\ k \in Pages
  /\ reader' = [reader EXCEPT ![r] = Asked(k, None)]
  /\ UNCHANGED <<now, latest, cached, told, writer, screen, faults>>

Get(r) ==
  /\ reader[r].pc = "asked"
  /\ LET e == cache[reader[r].key]
     IN reader' = [reader EXCEPT ![r] =
          IF e = None THEN [@ EXCEPT !.pc = "missed"]
          ELSE [@ EXCEPT !.pc = "answered", !.value = e.value, !.overtaken = e.overtaken]]
  /\ UNCHANGED <<now, latest, cached, told, writer, screen, faults>>

Select(r) ==
  /\ reader[r].pc = "missed"
  /\ reader' = [reader EXCEPT ![r].pc = "read", ![r].value = latest[reader[r].key]]
  /\ UNCHANGED <<now, latest, cached, told, writer, screen, faults>>

\* Slip: the entry is written without a time to live.
SlipSet(r) ==
  /\ reader[r].pc = "read"
  /\ LET k == reader[r].key
         v == reader[r].value
     IN cache' = [cache EXCEPT ![k] = [value |-> v, expires |-> FALSE, overtaken |-> v # latest[k]]]
  /\ reader' = [reader EXCEPT ![r].pc = "answered"]
  /\ UNCHANGED <<now, latest, promised, told, writer, screen, faults>>

\* The entry is overtaken if something was committed since its SELECT.
Set(r) ==
  /\ reader[r].pc = "read"
  /\ LET k == reader[r].key
         v == reader[r].value
     IN cache' = [cache EXCEPT ![k] = [value |-> v, expires |-> TRUE, overtaken |-> v # latest[k]]]
  /\ reader' = [reader EXCEPT ![r].pc = "answered"]
  /\ UNCHANGED <<now, latest, promised, told, writer, screen, faults>>

Expire(k) ==
  /\ cache[k] # None
  /\ cache[k].expires
  /\ cache' = [cache EXCEPT ![k] = None]
  /\ UNCHANGED <<now, latest, promised, told, writer, reader, screen, faults>>

\* The answer of whichever load comes last is what the chessboard shows.
Answer(r) ==
  /\ reader[r].pc = "answered"
  /\ LET q == reader[r]
         s == q.for
     IN screen' = IF s = None THEN screen
                  ELSE [screen EXCEPT
                    ![s].shown = [key |-> q.key, value |-> q.value],
                    ![s].blemish = @ \/ q.overtaken \/ Loading(s) # {r}]
  /\ reader' = [reader EXCEPT ![r] = NoReader]
  /\ UNCHANGED <<now, latest, cached, told, writer, faults>>

\* The request fails: the chessboard keeps what it shows, next to a message.
ReadFails(r) ==
  /\ reader[r].pc # "idle"
  /\ faults < MaxFaults
  /\ faults' = faults + 1
  /\ screen' = IF reader[r].for = None THEN screen
               ELSE [screen EXCEPT ![reader[r].for].blemish = TRUE]
  /\ reader' = [reader EXCEPT ![r] = NoReader]
  /\ UNCHANGED <<now, latest, cached, told, writer>>

-----------------------------------------------------------------------------
(***************************************************************************)
(* The chessboard.                                                         *)
(***************************************************************************)

\* useTimeline loads the window on mount and when it changes.
Navigate(s, w) ==
  /\ screen[s].shown = None \/ screen[s].window # w
  /\ \E r \in Readers :
       /\ reader[r].pc = "idle"
       /\ reader' = [reader EXCEPT ![r] = Asked(w, s)]
  /\ screen' = [screen EXCEPT ![s].window = w, ![s].blemish = @ \/ Loading(s) # {}]
  /\ UNCHANGED <<now, latest, cached, told, writer, faults>>

\* timeline:update is heard: the window of now is loaded (loadRef).
Update(s) ==
  /\ screen[s].mail
  /\ \E r \in Readers :
       /\ reader[r].pc = "idle"
       /\ reader' = [reader EXCEPT ![r] = Asked(screen[s].window, s)]
  /\ screen' = [screen EXCEPT ![s].mail = FALSE]
  /\ UNCHANGED <<now, latest, cached, told, writer, faults>>

\* The socket breaks, with what it had not delivered, or is built again; nothing is loaded then.
Unlink(s) ==
  /\ screen[s].linked
  /\ faults < MaxFaults
  /\ faults' = faults + 1
  /\ screen' = [screen EXCEPT ![s].linked = FALSE, ![s].mail = FALSE, ![s].blemish = @ \/ screen[s].mail]
  /\ UNCHANGED <<now, latest, cached, told, writer, reader>>

Link(s) ==
  /\ ~screen[s].linked
  /\ screen' = [screen EXCEPT ![s].linked = TRUE]
  /\ UNCHANGED <<now, latest, cached, told, writer, reader, faults>>

-----------------------------------------------------------------------------
(***************************************************************************)
(* A change: COMMIT, KEYS, DEL, announcement, events, answer; or, for the  *)
(* grid of days, KEYS and DEL before COMMIT.                               *)
(***************************************************************************)
Uncommitted == {w \in Writers : writer[w].pc # "idle" /\ writer[w].n = 0}

Begin(w, kind, s) ==
  /\ writer[w].pc = "idle"
  /\ s # None => kind = "booking"
  /\ now + Cardinality(Uncommitted) < MaxChanges
  /\ writer' = [writer EXCEPT ![w] =
       [NoWriter EXCEPT !.pc = "begun", !.kind = kind, !.by = s,
                        !.window = IF s = None THEN None ELSE screen[s].window]]
  /\ UNCHANGED <<now, latest, cached, told, reader, screen, faults>>

\* The steps before the COMMIT are over: for the grid, the entries are dropped already.
ReadyToCommit(w) == writer[w].pc = IF DropsEarly(writer[w].kind) THEN "dropped" ELSE "begun"

Commit(w) ==
  /\ writer[w].n = 0
  /\ ReadyToCommit(w)
  /\ now' = now + 1
  /\ latest' = [k \in Keys |-> IF k \in Shows(writer[w].kind) THEN now' ELSE latest[k]]
  /\ writer' = [writer EXCEPT ![w].n = now',
                  ![w].pc = IF DropsEarly(writer[w].kind) THEN "dropped" ELSE "committed"]
  /\ UNCHANGED <<cached, told, reader, screen, faults>>

\* Slip: only the period of the chessboard that saves is dropped.
SlipListKeys(w) ==
  /\ writer[w].pc = IF DropsEarly(writer[w].kind) THEN "begun" ELSE "committed"
  /\ writer' = [writer EXCEPT ![w].pc = "listed",
                  ![w].listed = {k \in Keys \cap Drops(writer[w].kind) \cap {writer[w].window} :
                                   cache[k] # None}]
  /\ UNCHANGED <<now, latest, cached, told, reader, screen, faults>>

\* KEYS
ListKeys(w) ==
  /\ writer[w].pc = IF DropsEarly(writer[w].kind) THEN "begun" ELSE "committed"
  /\ writer' = [writer EXCEPT ![w].pc = "listed",
                  ![w].listed = {k \in Keys \cap Drops(writer[w].kind) : cache[k] # None}]
  /\ UNCHANGED <<now, latest, cached, told, reader, screen, faults>>

\* DEL; from here on the request answers for what it dropped.
Drop(w) ==
  /\ writer[w].pc = "listed"
  /\ cache' = [k \in Keys |-> IF k \in writer[w].listed THEN None ELSE cache[k]]
  /\ promised' = [k \in Keys |->
       IF k \in Shows(writer[w].kind) \cap Drops(writer[w].kind) /\ writer[w].n > promised[k]
       THEN writer[w].n ELSE promised[k]]
  /\ writer' = [writer EXCEPT ![w].pc = "dropped", ![w].listed = {}]
  /\ UNCHANGED <<now, latest, told, reader, screen, faults>>

Announced(w) ==
  /\ told' = IF writer[w].n > told THEN writer[w].n ELSE told
  /\ screen' = [s \in Screens |-> IF screen[s].linked THEN [screen[s] EXCEPT !.mail = TRUE]
                                  ELSE [screen[s] EXCEPT !.blemish = TRUE]]
  /\ writer' = [writer EXCEPT ![w].pc = "announced"]
  /\ UNCHANGED <<now, latest, cached, reader, faults>>

\* Slip: the screens are told as soon as the change is committed.
SlipNotify(w) ==
  /\ writer[w].kind = "booking"
  /\ writer[w].pc \in {"committed", "dropped"}
  /\ Announced(w)

\* notifyUpdate; a screen without a connection hears nothing.
Notify(w) ==
  /\ writer[w].kind = "booking"
  /\ writer[w].pc = "dropped"
  /\ Announced(w)

\* What comes after the COMMIT, the caches and the screens changes nothing here.
Afterwards(w) ==
  /\ writer[w].n > 0
  /\ CASE writer[w].kind = "booking" -> writer[w].pc = "announced"
       [] writer[w].kind \in {"rooms", "rules"} -> writer[w].pc = "committed"
       [] writer[w].kind \in {"grid", "prices"} -> writer[w].pc = "dropped"

\* The answer; the chessboard that asked reloads the window it had when it asked.
Finish(w) ==
  LET s == writer[w].by IN
  /\ Afterwards(w)
  /\ writer' = [writer EXCEPT ![w] = NoWriter]
  /\ IF s = None THEN UNCHANGED <<reader, screen>>
     ELSE /\ \E r \in Readers :
               /\ reader[r].pc = "idle"
               /\ reader' = [reader EXCEPT ![r] = Asked(writer[w].window, s)]
          /\ screen' = [screen EXCEPT ![s].blemish = @ \/ Loading(s) # {}
                                                       \/ writer[w].window # screen[s].window]
  /\ UNCHANGED <<now, latest, cached, told, faults>>

\* A statement or a command to Redis fails: what was committed stays, the rest is not done.
WriteFails(w) ==
  /\ writer[w].pc \in {"begun", "committed", "listed"}
  /\ faults < MaxFaults
  /\ faults' = faults + 1
  /\ writer' = [writer EXCEPT ![w] = NoWriter]
  /\ UNCHANGED <<now, latest, cached, told, reader, screen>>

\* The process restarts: requests fail and sockets break; Redis stays.
Restart ==
  /\ faults < MaxFaults
  /\ faults' = faults + 1
  /\ writer' = [w \in Writers |-> NoWriter]
  /\ reader' = [r \in Readers |-> NoReader]
  /\ screen' = [s \in Screens |->
       [screen[s] EXCEPT !.linked = FALSE, !.mail = FALSE,
                         !.blemish = @ \/ screen[s].mail \/ Loading(s) # {}]]
  /\ UNCHANGED <<now, latest, cached, told>>

Reads == \E r \in Readers : Get(r) \/ Select(r) \/ Set(r) \/ Answer(r)
Writes == \E w \in Writers :
            Commit(w) \/ ListKeys(w) \/ Drop(w) \/ Notify(w) \/ Finish(w)

Next ==
  \/ Reads
  \/ Writes
  \/ \E r \in Readers : (\E k \in Keys : Ask(r, k)) \/ ReadFails(r)
  \/ \E k \in Keys : Expire(k)
  \/ \E s \in Screens : (\E w \in Windows : Navigate(s, w)) \/ Update(s) \/ Unlink(s) \/ Link(s)
  \/ \E w \in Writers : (\E kind \in Kinds, s \in Screens \cup {None} : Begin(w, kind, s)) \/ WriteFails(w)
  \/ Restart

(***************************************************************************)
(* Requests run to their end, entries expire, messages of an open       *)
(* socket arrive.  Nobody has to ask, to navigate or to reconnect.         *)
(***************************************************************************)
Fairness ==
  /\ \A r \in Readers : WF_vars(Get(r) \/ Select(r) \/ Set(r) \/ Answer(r))
  /\ \A w \in Writers : WF_vars(Commit(w) \/ ListKeys(w) \/ Drop(w) \/ Notify(w) \/ Finish(w))
  /\ \A k \in Keys : WF_vars(Expire(k))
  /\ \A s \in Screens : WF_vars(Update(s))

Spec == Init /\ [][Next]_vars
FairSpec == Spec /\ Fairness

-----------------------------------------------------------------------------
TypeOK ==
  /\ now \in Stamp /\ told \in Stamp
  /\ latest \in [Keys -> Stamp]
  /\ cache \in [Keys -> Entry \cup {None}]
  /\ promised \in [Keys -> Stamp]
  /\ writer \in [Writers -> WriterType]
  /\ reader \in [Readers -> ReaderType]
  /\ screen \in [Screens -> ScreenType]
  /\ faults \in 0..MaxFaults

\* An entry is never behind a change whose request has dropped it, unless it was overtaken.
CacheNotBehind ==
  \A k \in Keys : cache[k] # None /\ ~cache[k].overtaken => cache[k].value >= promised[k]

(***************************************************************************)
(* Whoever asks for the chessboard or for prices after a booking or a      *)
(* price was saved sees it: the only way not to is an entry written by a   *)
(* request that had read before the COMMIT (getTimeline and priceByPlan    *)
(* against invalidate and dropPriceCache).                                 *)
(***************************************************************************)
OwnSaveSeen ==
  \A r \in Readers :
    reader[r].pc = "answered" /\ ~reader[r].overtaken => reader[r].value >= reader[r].floor

(***************************************************************************)
(* A chessboard that has nothing left to load shows every booking that was *)
(* announced, unless it lost its socket, got answers out of order, failed  *)
(* to load or was served an overtaken entry (useTimeline).                 *)
(***************************************************************************)
ScreenBehindOnlyByBlemish ==
  \A s \in Screens :
    LET c == screen[s]
    IN c.shown # None /\ ~c.mail /\ Loading(s) = {} /\ ~c.blemish
       => c.shown.key = c.window /\ c.shown.value >= told

(***************************************************************************)
(* However requests overlap, Redis ends up with nothing but the truth:     *)
(* every entry that was left behind expires and is not written again.      *)
(***************************************************************************)
CachesSettle == <>[](\A k \in Keys : cache[k] # None => cache[k].value = latest[k])

(***************************************************************************)
(* The chessboard of an open socket ends up with what the hotel is         *)
(* ("Real-time updates via WebSocket invalidate immediately anyway",       *)
(* timeline.service.ts).                                                   *)
(***************************************************************************)
ScreenSettles ==
  \A s \in Screens :
    <>[](screen[s].linked /\ screen[s].shown # None)
    => <>[](screen[s].shown = [key |-> screen[s].window, value |-> latest[screen[s].window]])

(***************************************************************************)
(* Why OwnSaveSeen and ScreenBehindOnlyByBlemish hold.                     *)
(***************************************************************************)
\* Nothing is promised, and no change is numbered, beyond what the views show.
NothingAhead ==
  /\ \A k \in Keys : promised[k] <= latest[k] /\ latest[k] <= now
  /\ \A w \in Writers, k \in Keys : k \in Shows(writer[w].kind) => writer[w].n <= latest[k]

\* An entry that came between KEYS and DEL shows the change that is dropping entries.
ListedIsAll ==
  \A w \in Writers, k \in Keys :
    /\ writer[w].pc = "listed" /\ k \in Shows(writer[w].kind) \cap Drops(writer[w].kind)
    /\ k \notin writer[w].listed
    /\ cache[k] # None /\ ~cache[k].overtaken
    => cache[k].value >= writer[w].n

\* The screens are told of a booking only after it is promised to whoever asks.
PromisedFirst ==
  \A k \in Windows :
    /\ told <= promised[k]
    /\ \A w \in Writers : writer[w].kind = "booking" /\ writer[w].pc = "dropped" => writer[w].n <= promised[k]

\* What a request was promised when it was sent, it gets, unless it gets an overtaken entry.
ReaderGetsPromised(q) ==
  /\ q.key \in Keys /\ q.floor <= promised[q.key]
  /\ q.pc \in {"read", "answered"} /\ ~q.overtaken => q.value >= q.floor
ReadersGetPromised == \A r \in Readers : reader[r].pc # "idle" => ReaderGetsPromised(reader[r])

\* A chessboard without a blemish that heard everything shows it, or is about to.
Follows(s) ==
  ~screen[s].blemish =>
    /\ \A r \in Loading(s) : reader[r].key = screen[s].window
    /\ ~screen[s].mail =>
         IF Loading(s) = {}
         THEN screen[s].shown # None =>
                screen[s].shown.key = screen[s].window /\ screen[s].shown.value >= told
         ELSE \E r \in Loading(s) : reader[r].floor >= told
ScreensFollow ==
  /\ \A s \in Screens : Follows(s)
  /\ \A w \in Writers : writer[w].by # None => writer[w].window # None

ViewsInv ==
  /\ TypeOK /\ NothingAhead /\ CacheNotBehind /\ ListedIsAll
  /\ PromisedFirst /\ ReadersGetPromised /\ ScreensFollow
=============================================================================
