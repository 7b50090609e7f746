--------------------------- MODULE PlatformProofs ---------------------------
(***************************************************************************)
(* What is shown of a hotel and what is remembered of its guests, for any  *)
(* number of requests, of screens and periods, of officers, machines and   *)
(* bookings.                                                               *)
(***************************************************************************)
EXTENDS HotelViews, GuestData, TLAPS

-----------------------------------------------------------------------------
(* Views *)

LEMMA KindsShow ==
  /\ \A kind \in AllKinds : Shows(kind) \subseteq Windows \cup {"days", "plans"}
  /\ Shows("booking") = Windows /\ Drops("booking") = Windows
BY DEF AllKinds, Shows, Drops

LEMMA ViewsStart == Init => ViewsInv
<1> SUFFICES ASSUME Init PROVE ViewsInv
  OBVIOUS
<1>1. NoWriter \in WriterType /\ NoReader \in ReaderType
  BY DEF NoWriter, NoReader, WriterType, ReaderType, AllKinds, Stamp
<1>2. PICK w \in Windows :
        screen = [s \in Screens |-> [window |-> w, shown |-> None, linked |-> TRUE, mail |-> FALSE, blemish |-> FALSE]]
  BY DEF Init
<1>3. TypeOK
  BY <1>1, <1>2, ViewsAssumption DEF Init, TypeOK, ScreenType, Stamp
<1>4. NothingAhead /\ CacheNotBehind /\ ListedIsAll /\ PromisedFirst
  BY DEF Init, NothingAhead, CacheNotBehind, ListedIsAll, PromisedFirst, NoWriter, Keys
<1>5. ReadersGetPromised /\ \A s \in Screens : Loading(s) = {}
  BY DEF Init, ReadersGetPromised, Loading, NoReader
<1>6. ScreensFollow
  BY <1>2, <1>5 DEF ScreensFollow, Follows, Init, NoWriter
<1> QED BY <1>3, <1>4, <1>5, <1>6 DEF ViewsInv

(* One reader moves. *)
LEMMA ReaderChanges ==
  ASSUME TypeOK, NEW r \in Readers, NEW row \in ReaderType, reader' = [reader EXCEPT ![r] = row]
  PROVE  /\ reader' \in [Readers -> ReaderType]
         /\ reader'[r] = row /\ \A q \in Readers \ {r} : reader'[q] = reader[q]
         /\ \A s : Loading(s)' = (Loading(s) \ {r}) \cup (IF row.pc # "idle" /\ row.for = s THEN {r} ELSE {})
<1>1. reader' \in [Readers -> ReaderType] /\ reader'[r] = row /\ \A q \in Readers \ {r} : reader'[q] = reader[q]
  BY DEF TypeOK
<1>2. ASSUME NEW s
      PROVE Loading(s)' = (Loading(s) \ {r}) \cup (IF row.pc # "idle" /\ row.for = s THEN {r} ELSE {})
  BY <1>1 DEF Loading
<1> QED BY <1>1, <1>2

\* Nothing new for a chessboard.
LEMMA FollowsStill ==
  ASSUME NEW s \in Screens, Follows(s), told' = told, Loading(s)' = Loading(s),
         \A q \in Loading(s) : reader'[q].key = reader[q].key /\ reader'[q].floor = reader[q].floor,
         screen'[s].window = screen[s].window, screen'[s].shown = screen[s].shown,
         screen'[s].mail = screen[s].mail, screen'[s].blemish = screen[s].blemish
  PROVE  Follows(s)'
BY DEF Follows

\* A chessboard loads once more.
LEMMA FollowsByLoad ==
  ASSUME NEW s \in Screens, Follows(s), told' = told, NEW r \in Readers,
         Loading(s)' = Loading(s) \cup {r},
         \A q \in Loading(s) : reader'[q] = reader[q],
         reader'[r].floor >= told,
         ~screen'[s].blemish =>
           /\ ~screen[s].blemish
           /\ reader'[r].key = screen'[s].window
           /\ Loading(s) = {} \/ screen'[s].window = screen[s].window
  PROVE  Follows(s)'
BY DEF Follows

\* A request that reads goes on with the same key and floor for the same screen.
LEMMA ReadGoesOn ==
  ASSUME ViewsInv, NEW r \in Readers, NEW row \in ReaderType, reader' = [reader EXCEPT ![r] = row],
         reader[r].pc # "idle", row.pc # "idle",
         row.key = reader[r].key, row.floor = reader[r].floor, row.for = reader[r].for,
         ReaderGetsPromised(row),
         UNCHANGED <<now, latest, promised, told, writer, screen, faults>>,
         cache' \in [Keys -> Entry \cup {None}], CacheNotBehind', ListedIsAll'
  PROVE  ViewsInv'
<1>1. /\ reader' \in [Readers -> ReaderType] /\ reader'[r] = row /\ \A q \in Readers \ {r} : reader'[q] = reader[q]
      /\ \A s : Loading(s)' = (Loading(s) \ {r}) \cup (IF row.pc # "idle" /\ row.for = s THEN {r} ELSE {})
  BY ReaderChanges DEF ViewsInv
<1>2. \A s : Loading(s)' = Loading(s)
  BY <1>1 DEF Loading
<1>3. ReadersGetPromised'
  BY <1>1 DEF ViewsInv, ReadersGetPromised, ReaderGetsPromised
<1>4. \A s \in Screens : Follows(s)'
  <2> SUFFICES ASSUME NEW s \in Screens PROVE Follows(s)'
    OBVIOUS
  <2>1. \A q \in Loading(s) : reader'[q].key = reader[q].key /\ reader'[q].floor = reader[q].floor
    BY <1>1 DEF Loading
  <2>2. Follows(s)
    BY DEF ViewsInv, ScreensFollow
  <2> QED BY <1>2, <2>1, <2>2, FollowsStill
<1> QED BY <1>1, <1>3, <1>4 DEF ViewsInv, TypeOK, NothingAhead, PromisedFirst, ScreensFollow

LEMMA GetKeeps == ASSUME ViewsInv, NEW r \in Readers, Get(r) PROVE ViewsInv'
<1> DEFINE q == reader[r]
           e == cache[q.key]
           row == IF e = None THEN [q EXCEPT !.pc = "missed"]
                  ELSE [q EXCEPT !.pc = "answered", !.value = e.value, !.overtaken = e.overtaken]
<1>1. q \in ReaderType /\ q.pc = "asked" /\ ReaderGetsPromised(q)
  BY DEF ViewsInv, TypeOK, ReadersGetPromised, Get
<1>2. /\ reader' = [reader EXCEPT ![r] = row]
      /\ UNCHANGED <<now, latest, cache, promised, told, writer, screen, faults>>
  BY DEF Get, cached
<1>3. q.key \in Keys /\ (e # None => e \in Entry)
  BY <1>1 DEF ViewsInv, TypeOK, ReaderGetsPromised
<1>4. row \in ReaderType /\ row.pc # "idle" /\ row.key = q.key /\ row.floor = q.floor /\ row.for = q.for
  BY <1>1, <1>3 DEF ReaderType, Entry
<1>5. ReaderGetsPromised(row)
  <2>1. CASE e = None
    BY <1>1, <1>4, <2>1 DEF ReaderGetsPromised, ReaderType
  <2>2. CASE e # None
    <3>1. row.value = e.value /\ row.overtaken = e.overtaken
      BY <1>1, <2>2 DEF ReaderType
    <3>2. ~e.overtaken => e.value >= promised[q.key]
      BY <1>3, <2>2 DEF ViewsInv, CacheNotBehind
    <3>3. promised[q.key] \in Nat /\ e.value \in Nat /\ q.floor \in Nat
      BY <1>1, <1>3, <2>2 DEF ViewsInv, TypeOK, Entry, ReaderType, Stamp
    <3> QED BY <1>1, <1>4, <3>1, <3>2, <3>3 DEF ReaderGetsPromised
  <2> QED BY <2>1, <2>2
<1>6. CacheNotBehind' /\ ListedIsAll' /\ cache' \in [Keys -> Entry \cup {None}]
  BY <1>2 DEF ViewsInv, TypeOK, CacheNotBehind, ListedIsAll
<1> HIDE DEF row
<1> QED BY <1>1, <1>2, <1>4, <1>5, <1>6, ReadGoesOn

LEMMA SelectKeeps == ASSUME ViewsInv, NEW r \in Readers, Select(r) PROVE ViewsInv'
<1> DEFINE q == reader[r]
           row == [q EXCEPT !.pc = "read", !.value = latest[q.key]]
<1>1. q \in ReaderType /\ q.pc = "missed" /\ ReaderGetsPromised(q) /\ q.key \in Keys
  BY DEF ViewsInv, TypeOK, ReadersGetPromised, ReaderGetsPromised, Select
<1>2. /\ reader' = [reader EXCEPT ![r] = row]
      /\ UNCHANGED <<now, latest, cache, promised, told, writer, screen, faults>>
  BY DEF Select, cached, ViewsInv, TypeOK
<1>3. latest[q.key] \in Nat /\ promised[q.key] \in Nat /\ promised[q.key] <= latest[q.key] /\ q.floor \in Nat
  BY <1>1 DEF ViewsInv, TypeOK, NothingAhead, Stamp, ReaderType
<1>4. row \in ReaderType /\ row.pc # "idle" /\ row.key = q.key /\ row.floor = q.floor /\ row.for = q.for /\ row.value = latest[q.key]
  BY <1>1, <1>3 DEF ReaderType, Stamp
<1>5. ReaderGetsPromised(row)
  BY <1>1, <1>3, <1>4 DEF ReaderGetsPromised
<1>6. CacheNotBehind' /\ ListedIsAll' /\ cache' \in [Keys -> Entry \cup {None}]
  BY <1>2 DEF ViewsInv, TypeOK, CacheNotBehind, ListedIsAll
<1> HIDE DEF row
<1> QED BY <1>1, <1>2, <1>4, <1>5, <1>6, ReadGoesOn

LEMMA SetKeeps == ASSUME ViewsInv, NEW r \in Readers, Set(r) PROVE ViewsInv'
<1> DEFINE q == reader[r]
           row == [q EXCEPT !.pc = "answered"]
           e == [value |-> q.value, expires |-> TRUE, overtaken |-> q.value # latest[q.key]]
<1>1. q \in ReaderType /\ q.pc = "read" /\ ReaderGetsPromised(q) /\ q.key \in Keys /\ q.value \in Nat
  BY DEF ViewsInv, TypeOK, ReadersGetPromised, ReaderGetsPromised, Set, ReaderType, Stamp
<1>2. /\ reader' = [reader EXCEPT ![r] = row] /\ cache' = [cache EXCEPT ![q.key] = e]
      /\ UNCHANGED <<now, latest, promised, told, writer, screen, faults>>
  BY DEF Set, ViewsInv, TypeOK
<1>3. row \in ReaderType /\ row.pc # "idle" /\ row.key = q.key /\ row.floor = q.floor /\ row.for = q.for
      /\ row.value = q.value /\ row.overtaken = q.overtaken
  BY <1>1 DEF ReaderType
<1>4. ReaderGetsPromised(row)
  BY <1>1, <1>3 DEF ReaderGetsPromised
<1>5. e \in Entry /\ (~e.overtaken => e.value = latest[q.key])
  BY <1>1 DEF Entry, Stamp
<1> HIDE DEF e
<1>6. /\ cache' \in [Keys -> Entry \cup {None}] /\ cache'[q.key] = e
      /\ \A k \in Keys \ {q.key} : cache'[k] = cache[k]
  BY <1>1, <1>2, <1>5 DEF ViewsInv, TypeOK
<1>7. CacheNotBehind'
  BY <1>1, <1>2, <1>5, <1>6 DEF ViewsInv, CacheNotBehind, NothingAhead
<1>8. ListedIsAll'
  BY <1>1, <1>2, <1>5, <1>6 DEF ViewsInv, ListedIsAll, NothingAhead
<1> HIDE DEF row
<1> QED BY <1>1, <1>2, <1>3, <1>4, <1>6, <1>7, <1>8, ReadGoesOn

\* A load begins: the request is promised what was promised by now.
LEMMA AskedIsPromised ==
  ASSUME ViewsInv, NEW k \in Keys, NEW s \in Screens \cup {None}
  PROVE  /\ Asked(k, s) \in ReaderType /\ Asked(k, s).pc = "asked" /\ Asked(k, s).key = k /\ Asked(k, s).for = s
         /\ Asked(k, s).floor = promised[k] /\ ReaderGetsPromised(Asked(k, s))
         /\ k \in Windows => Asked(k, s).floor >= told
<1>1. promised[k] \in Nat /\ told \in Nat
  BY DEF ViewsInv, TypeOK, Stamp
<1>2. /\ Asked(k, s) \in ReaderType /\ Asked(k, s).pc = "asked" /\ Asked(k, s).key = k /\ Asked(k, s).for = s
      /\ Asked(k, s).floor = promised[k]
  BY <1>1 DEF Asked, NoReader, ReaderType, Stamp
<1>3. k \in Windows => told <= promised[k]
  BY DEF ViewsInv, PromisedFirst
<1> QED BY <1>1, <1>2, <1>3 DEF ReaderGetsPromised

LEMMA AskKeeps == ASSUME ViewsInv, NEW r \in Readers, NEW k \in Keys, Ask(r, k) PROVE ViewsInv'
<1> DEFINE row == Asked(k, None)
<1>1. /\ reader' = [reader EXCEPT ![r] = row] /\ reader[r].pc = "idle"
      /\ UNCHANGED <<now, latest, cache, promised, told, writer, screen, faults>>
  BY DEF Ask, cached
<1>2. row \in ReaderType /\ row.for = None /\ ReaderGetsPromised(row)
  BY AskedIsPromised
<1> HIDE DEF row
<1>3. /\ reader' \in [Readers -> ReaderType] /\ reader'[r] = row /\ \A q \in Readers \ {r} : reader'[q] = reader[q]
      /\ \A s : Loading(s)' = (Loading(s) \ {r}) \cup (IF row.pc # "idle" /\ row.for = s THEN {r} ELSE {})
  BY <1>1, <1>2, ReaderChanges DEF ViewsInv
<1>4. \A s \in Screens : Follows(s)'
  <2> SUFFICES ASSUME NEW s \in Screens PROVE Follows(s)'
    OBVIOUS
  <2>1. Loading(s)' = Loading(s) /\ r \notin Loading(s)
    BY <1>1, <1>2, <1>3, ViewsAssumption DEF Loading
  <2>2. \A q \in Loading(s) : reader'[q] = reader[q]
    BY <1>3, <2>1 DEF Loading
  <2>3. Follows(s)
    BY DEF ViewsInv, ScreensFollow
  <2> QED BY <1>1, <2>1, <2>2, <2>3, FollowsStill
<1>5. ReadersGetPromised'
  BY <1>1, <1>2, <1>3 DEF ViewsInv, ReadersGetPromised, ReaderGetsPromised
<1> QED BY <1>1, <1>3, <1>4, <1>5 DEF ViewsInv, TypeOK, NothingAhead, CacheNotBehind, ListedIsAll, PromisedFirst, ScreensFollow

(* A load ends. *)
LEMMA LoadEnds ==
  ASSUME ViewsInv, NEW r \in Readers, reader[r].pc # "idle", reader' = [reader EXCEPT ![r] = NoReader],
         UNCHANGED <<now, latest, cache, promised, told, writer>>, faults' \in 0..MaxFaults,
         screen' \in [Screens -> ScreenType],
         \A s \in Screens : reader[r].for # s => screen'[s] = screen[s],
         \A s \in Screens : reader[r].for = s => Follows(s)'
  PROVE  ViewsInv'
<1>1. NoReader \in ReaderType /\ NoReader.pc = "idle"
  BY DEF NoReader, ReaderType, Stamp
<1>2. /\ reader' \in [Readers -> ReaderType] /\ reader'[r] = NoReader /\ \A q \in Readers \ {r} : reader'[q] = reader[q]
      /\ \A s : Loading(s)' = Loading(s) \ {r}
  <2>1. TypeOK
    BY DEF ViewsInv
  <2>2. /\ reader' \in [Readers -> ReaderType] /\ reader'[r] = NoReader /\ \A q \in Readers \ {r} : reader'[q] = reader[q]
        /\ \A s : Loading(s)' = (Loading(s) \ {r}) \cup (IF NoReader.pc # "idle" /\ NoReader.for = s THEN {r} ELSE {})
    BY <1>1, <2>1, ReaderChanges
  <2> QED BY <1>1, <2>2
<1>3. \A s \in Screens : Follows(s)'
  <2> SUFFICES ASSUME NEW s \in Screens, reader[r].for # s PROVE Follows(s)'
    OBVIOUS
  <2>1. Loading(s)' = Loading(s) /\ r \notin Loading(s)
    BY <1>2 DEF Loading
  <2>2. \A q \in Loading(s) : reader'[q] = reader[q]
    BY <1>2, <2>1 DEF Loading
  <2>3. Follows(s)
    BY DEF ViewsInv, ScreensFollow
  <2> QED BY <2>1, <2>2, <2>3, FollowsStill
<1>4. ReadersGetPromised'
  BY <1>1, <1>2 DEF ViewsInv, ReadersGetPromised, ReaderGetsPromised
<1> QED BY <1>2, <1>3, <1>4 DEF ViewsInv, TypeOK, NothingAhead, CacheNotBehind, ListedIsAll, PromisedFirst, ScreensFollow

LEMMA AnswerKeeps == ASSUME ViewsInv, NEW r \in Readers, Answer(r) PROVE ViewsInv'
<1> DEFINE q == reader[r]
<1>1. /\ reader' = [reader EXCEPT ![r] = NoReader] /\ q.pc = "answered"
      /\ UNCHANGED <<now, latest, cache, promised, told, writer, faults>>
  BY DEF Answer, cached
<1>2. q \in ReaderType /\ q.key \in Keys /\ q.value \in Nat /\ q.floor \in Nat /\ ReaderGetsPromised(q) /\ told \in Nat
  BY <1>1 DEF ViewsInv, TypeOK, ReadersGetPromised, ReaderGetsPromised, ReaderType, Stamp
<1>3. CASE q.for = None
  <2>1. screen' = screen /\ \A s \in Screens : q.for # s
    BY <1>3, ViewsAssumption DEF Answer
  <2> QED BY <1>1, <2>1, LoadEnds DEF ViewsInv, TypeOK
<1>4. ASSUME NEW t \in Screens, q.for = t PROVE ViewsInv'
  <2> DEFINE c == screen[t]
             row == [c EXCEPT !.shown = [key |-> q.key, value |-> q.value],
                              !.blemish = c.blemish \/ q.overtaken \/ Loading(t) # {r}]
  <2>1. c \in ScreenType /\ t # None
    BY <1>4, ViewsAssumption DEF ViewsInv, TypeOK
  <2>2. screen' = [screen EXCEPT ![t] = row]
    BY <1>4, <2>1 DEF Answer
  <2>3. /\ row \in ScreenType /\ row.window = c.window /\ row.mail = c.mail
        /\ row.shown = [key |-> q.key, value |-> q.value]
        /\ ~row.blemish => ~c.blemish /\ ~q.overtaken /\ Loading(t) = {r}
    BY <1>2, <2>1 DEF ScreenType, View, Stamp, ReaderType
  <2> HIDE DEF row
  <2>4. /\ screen' \in [Screens -> ScreenType] /\ screen'[t] = row
        /\ \A s \in Screens : t # s => screen'[s] = screen[s]
    BY <1>4, <2>2, <2>3 DEF ViewsInv, TypeOK
  <2>5. Follows(t)'
    <3> SUFFICES ASSUME ~row.blemish
                 PROVE  /\ Loading(t)' = {}
                        /\ ~row.mail => q.key = row.window /\ q.value >= told
      BY <1>1, <2>3, <2>4 DEF Follows
    <3>1. Loading(t)' = {}
      BY <1>1, <1>4, <2>3 DEF Loading, NoReader, ViewsInv, TypeOK
    <3>2. Follows(t) /\ r \in Loading(t) /\ Loading(t) = {r} /\ ~c.blemish /\ ~q.overtaken
      BY <1>4, <2>3 DEF ViewsInv, ScreensFollow
    <3>3. q.key = c.window /\ (~c.mail => q.floor >= told)
      BY <3>2 DEF Follows
    <3>4. q.value >= q.floor
      BY <1>1, <1>2, <3>2 DEF ReaderGetsPromised
    <3> QED BY <1>2, <2>3, <3>1, <3>3, <3>4
  <2> QED BY <1>1, <1>4, <2>4, <2>5, LoadEnds DEF ViewsInv, TypeOK
<1> QED BY <1>2, <1>3, <1>4 DEF ReaderType

LEMMA ReadFailsKeeps == ASSUME ViewsInv, NEW r \in Readers, ReadFails(r) PROVE ViewsInv'
<1>1. /\ reader' = [reader EXCEPT ![r] = NoReader] /\ reader[r].pc # "idle"
      /\ UNCHANGED <<now, latest, cache, promised, told, writer>> /\ faults' \in 0..MaxFaults
      /\ reader[r] \in ReaderType /\ reader[r].for \in Screens \cup {None}
  BY ViewsAssumption DEF ReadFails, cached, ViewsInv, TypeOK, ReaderType
<1>2. CASE reader[r].for = None
  <2>1. screen' = screen /\ \A s \in Screens : reader[r].for # s
    BY <1>2, ViewsAssumption DEF ReadFails
  <2> QED BY <1>1, <2>1, LoadEnds DEF ViewsInv, TypeOK
<1>3. ASSUME NEW t \in Screens, reader[r].for = t PROVE ViewsInv'
  <2> DEFINE row == [screen[t] EXCEPT !.blemish = TRUE]
  <2>1. screen[t] \in ScreenType /\ t # None
    BY <1>3, ViewsAssumption DEF ViewsInv, TypeOK
  <2>2. screen' = [screen EXCEPT ![t] = row] /\ row \in ScreenType /\ row.blemish
    BY <1>3, <2>1 DEF ReadFails, ScreenType
  <2> HIDE DEF row
  <2>3. /\ screen' \in [Screens -> ScreenType] /\ screen'[t] = row
        /\ \A s \in Screens : t # s => screen'[s] = screen[s]
    BY <1>3, <2>2 DEF ViewsInv, TypeOK
  <2>4. Follows(t)'
    BY <2>2, <2>3 DEF Follows
  <2> QED BY <1>1, <1>3, <2>3, <2>4, LoadEnds
<1> QED BY <1>1, <1>2, <1>3

(* One chessboard moves. *)

\* It loads, and no other does.
LEMMA ScreenLoads ==
  ASSUME ViewsInv, NEW t \in Screens, NEW k \in Windows, NEW r \in Readers, reader[r].pc = "idle",
         reader' = [reader EXCEPT ![r] = Asked(k, t)],
         UNCHANGED <<now, latest, cache, promised, told, faults>>,
         screen' \in [Screens -> ScreenType],
         \A s \in Screens \ {t} : screen'[s] = screen[s],
         ~screen'[t].blemish =>
           /\ ~screen[t].blemish
           /\ k = screen'[t].window
           /\ Loading(t) = {} \/ screen'[t].window = screen[t].window,
         writer' \in [Writers -> WriterType], NothingAhead', ListedIsAll', PromisedFirst',
         \A w \in Writers : writer'[w].by # None => writer'[w].window # None
  PROVE  ViewsInv'
<1> DEFINE row == Asked(k, t)
<1>1. /\ row \in ReaderType /\ row.pc = "asked" /\ row.key = k /\ row.for = t /\ ReaderGetsPromised(row)
      /\ row.floor >= told
  BY AskedIsPromised DEF Keys
<1> HIDE DEF row
<1>2. /\ reader' \in [Readers -> ReaderType] /\ reader'[r] = row /\ \A q \in Readers \ {r} : reader'[q] = reader[q]
      /\ \A s : Loading(s)' = (Loading(s) \ {r}) \cup (IF row.pc # "idle" /\ row.for = s THEN {r} ELSE {})
      /\ \A s : r \notin Loading(s)
  BY <1>1, ReaderChanges DEF ViewsInv, row, Loading
<1>3. \A s : \A q \in Loading(s) : reader'[q] = reader[q]
  BY <1>2 DEF Loading
<1>4. \A s \in Screens : Follows(s)
  BY DEF ViewsInv, ScreensFollow
<1>5. Follows(t)'
  <2>1. Loading(t)' = Loading(t) \cup {r}
    BY <1>1, <1>2
  <2> QED BY <1>1, <1>2, <1>3, <1>4, <2>1, FollowsByLoad
<1>6. \A s \in Screens \ {t} : Follows(s)'
  <2> SUFFICES ASSUME NEW s \in Screens \ {t} PROVE Follows(s)'
    OBVIOUS
  <2>1. Loading(s)' = Loading(s) \ {r} /\ r \notin Loading(s)
    BY <1>1, <1>2
  <2>2. Loading(s)' = Loading(s)
    BY <2>1
  <2> QED BY <1>3, <1>4, <2>2, FollowsStill
<1>7. ReadersGetPromised'
  BY <1>1, <1>2 DEF ViewsInv, ReadersGetPromised, ReaderGetsPromised
<1> QED BY <1>2, <1>5, <1>6, <1>7 DEF ViewsInv, TypeOK, CacheNotBehind, ScreensFollow

LEMMA NavigateKeeps == ASSUME ViewsInv, NEW t \in Screens, NEW k \in Windows, Navigate(t, k) PROVE ViewsInv'
<1> DEFINE row == [screen[t] EXCEPT !.window = k, !.blemish = screen[t].blemish \/ Loading(t) # {}]
<1>1. PICK r \in Readers : reader[r].pc = "idle" /\ reader' = [reader EXCEPT ![r] = Asked(k, t)]
  BY DEF Navigate
<1>2. screen[t] \in ScreenType /\ screen' = [screen EXCEPT ![t] = row] /\ UNCHANGED <<now, latest, cache, promised, told, writer, faults>>
  BY DEF Navigate, cached, ViewsInv, TypeOK
<1>3. row \in ScreenType /\ row.window = k /\ (~row.blemish => ~screen[t].blemish /\ Loading(t) = {})
  BY <1>2 DEF ScreenType
<1> HIDE DEF row
<1>4. screen' \in [Screens -> ScreenType] /\ screen'[t] = row /\ \A s \in Screens \ {t} : screen'[s] = screen[s]
  BY <1>2, <1>3 DEF ViewsInv, TypeOK
<1>5. /\ writer' \in [Writers -> WriterType] /\ NothingAhead' /\ ListedIsAll' /\ PromisedFirst'
      /\ \A w \in Writers : writer'[w].by # None => writer'[w].window # None
  BY <1>2 DEF ViewsInv, TypeOK, NothingAhead, ListedIsAll, PromisedFirst, ScreensFollow
<1> QED BY <1>1, <1>2, <1>3, <1>4, <1>5, ScreenLoads

LEMMA UpdateKeeps == ASSUME ViewsInv, NEW t \in Screens, Update(t) PROVE ViewsInv'
<1> DEFINE k == screen[t].window
           row == [screen[t] EXCEPT !.mail = FALSE]
<1>1. PICK r \in Readers : reader[r].pc = "idle" /\ reader' = [reader EXCEPT ![r] = Asked(k, t)]
  BY DEF Update
<1>2. screen[t] \in ScreenType /\ screen' = [screen EXCEPT ![t] = row] /\ UNCHANGED <<now, latest, cache, promised, told, writer, faults>>
  BY DEF Update, cached, ViewsInv, TypeOK
<1>3. row \in ScreenType /\ row.window = k /\ row.blemish = screen[t].blemish /\ k \in Windows
  BY <1>2 DEF ScreenType
<1> HIDE DEF row
<1>4. screen' \in [Screens -> ScreenType] /\ screen'[t] = row /\ \A s \in Screens \ {t} : screen'[s] = screen[s]
  BY <1>2, <1>3 DEF ViewsInv, TypeOK
<1>5. /\ writer' \in [Writers -> WriterType] /\ NothingAhead' /\ ListedIsAll' /\ PromisedFirst'
      /\ \A w \in Writers : writer'[w].by # None => writer'[w].window # None
  BY <1>2 DEF ViewsInv, TypeOK, NothingAhead, ListedIsAll, PromisedFirst, ScreensFollow
<1> QED BY <1>1, <1>2, <1>3, <1>4, <1>5, ScreenLoads

LEMMA SocketKeeps == ASSUME ViewsInv, NEW t \in Screens, Unlink(t) \/ Link(t) PROVE ViewsInv'
<1> DEFINE c == screen[t]
           row == IF c.linked THEN [c EXCEPT !.linked = FALSE, !.mail = FALSE, !.blemish = c.blemish \/ c.mail]
                  ELSE [c EXCEPT !.linked = TRUE]
<1>1. /\ c \in ScreenType /\ screen' = [screen EXCEPT ![t] = row] /\ faults' \in 0..MaxFaults
      /\ UNCHANGED <<now, latest, cache, promised, told, writer, reader>>
  <2>1. c \in ScreenType /\ faults \in 0..MaxFaults
    BY DEF ViewsInv, TypeOK
  <2>2. CASE Unlink(t)
    <3>1. screen' = [screen EXCEPT ![t] = row] /\ UNCHANGED <<now, latest, cache, promised, told, writer, reader>>
      BY <2>1, <2>2 DEF Unlink, cached
    <3>2. faults' \in 0..MaxFaults
      BY <2>1, <2>2, ViewsAssumption DEF Unlink
    <3> QED BY <2>1, <3>1, <3>2
  <2>3. CASE Link(t)
    BY <2>1, <2>3 DEF Link, cached
  <2> QED BY <2>2, <2>3
<1>2. row \in ScreenType /\ row.window = c.window /\ row.shown = c.shown
      /\ (~row.blemish => ~c.blemish /\ row.mail = c.mail)
  BY <1>1 DEF ScreenType
<1> HIDE DEF row
<1>3. screen' \in [Screens -> ScreenType] /\ screen'[t] = row /\ \A s \in Screens \ {t} : screen'[s] = screen[s]
  BY <1>1, <1>2 DEF ViewsInv, TypeOK
<1>4. \A s : Loading(s)' = Loading(s)
  BY <1>1 DEF Loading
<1>5. \A s \in Screens : Follows(s)'
  <2> SUFFICES ASSUME NEW s \in Screens PROVE Follows(s)'
    OBVIOUS
  <2>1. Follows(s)
    BY DEF ViewsInv, ScreensFollow
  <2> QED BY <1>1, <1>2, <1>3, <1>4, <2>1 DEF Follows
<1> QED BY <1>1, <1>3, <1>5 DEF ViewsInv, TypeOK, NothingAhead, CacheNotBehind, ListedIsAll, PromisedFirst,
            ReadersGetPromised, ReaderGetsPromised, ScreensFollow

(* One writer moves. *)
LEMMA WriterChanges ==
  ASSUME TypeOK, NEW w \in Writers, NEW row \in WriterType, writer' = [writer EXCEPT ![w] = row]
  PROVE  /\ writer' \in [Writers -> WriterType] /\ writer'[w] = row
         /\ \A v \in Writers \ {w} : writer'[v] = writer[v]
BY DEF TypeOK

\* A writer, as far as the views go.
WriterFits(row) ==
  /\ \A k \in Keys : k \in Shows(row.kind) => row.n <= latest[k]
  /\ row.pc = "listed" =>
       \A k \in (Keys \cap Shows(row.kind) \cap Drops(row.kind)) \ row.listed :
         cache[k] # None /\ ~cache[k].overtaken => cache[k].value >= row.n
  /\ row.kind = "booking" /\ row.pc = "dropped" => \A k \in Windows : row.n <= promised[k]
  /\ row.by # None => row.window # None

LEMMA WriterMoves ==
  ASSUME ViewsInv, NEW w \in Writers, NEW row \in WriterType, writer' = [writer EXCEPT ![w] = row],
         UNCHANGED <<now, latest, cache, promised, told>>, WriterFits(row)
  PROVE  /\ writer' \in [Writers -> WriterType] /\ NothingAhead' /\ ListedIsAll' /\ PromisedFirst'
         /\ \A v \in Writers : writer'[v].by # None => writer'[v].window # None
<1>1. /\ writer' \in [Writers -> WriterType] /\ writer'[w] = row /\ \A v \in Writers \ {w} : writer'[v] = writer[v]
  BY WriterChanges DEF ViewsInv
<1>2. NothingAhead'
  BY <1>1 DEF ViewsInv, NothingAhead, WriterFits
<1>3. ListedIsAll'
  BY <1>1 DEF ViewsInv, ListedIsAll, WriterFits
<1>4. PromisedFirst'
  BY <1>1 DEF ViewsInv, PromisedFirst, WriterFits
<1>5. \A v \in Writers : writer'[v].by # None => writer'[v].window # None
  BY <1>1 DEF ViewsInv, ScreensFollow, WriterFits
<1> QED BY <1>1, <1>2, <1>3, <1>4, <1>5

\* Nothing but a writer moves.
LEMMA OnlyWriterMoves ==
  ASSUME ViewsInv, UNCHANGED <<now, latest, cache, promised, told, reader, screen>>, faults' \in 0..MaxFaults,
         writer' \in [Writers -> WriterType], NothingAhead', ListedIsAll', PromisedFirst',
         \A v \in Writers : writer'[v].by # None => writer'[v].window # None
  PROVE  ViewsInv'
<1>1. \A s : Loading(s)' = Loading(s)
  BY DEF Loading
<1>2. ScreensFollow'
  BY <1>1 DEF ViewsInv, ScreensFollow, Follows
<1> QED BY <1>2 DEF ViewsInv, TypeOK, CacheNotBehind, ReadersGetPromised, ReaderGetsPromised

LEMMA NoWriterFits == ASSUME ViewsInv PROVE NoWriter \in WriterType /\ WriterFits(NoWriter)
<1>1. \A k \in Keys : latest[k] \in Nat /\ 0 <= latest[k]
  BY DEF ViewsInv, TypeOK, Stamp
<1> QED BY <1>1 DEF NoWriter, WriterType, WriterFits, AllKinds, Stamp

LEMMA BeginKeeps ==
  ASSUME ViewsInv, NEW w \in Writers, NEW kind \in Kinds, NEW s \in Screens \cup {None}, Begin(w, kind, s)
  PROVE  ViewsInv'
<1> DEFINE row == [NoWriter EXCEPT !.pc = "begun", !.kind = kind, !.by = s,
                                   !.window = IF s = None THEN None ELSE screen[s].window]
<1>1. /\ writer' = [writer EXCEPT ![w] = row]
      /\ UNCHANGED <<now, latest, cache, promised, told, reader, screen, faults>>
  BY DEF Begin, cached
<1>2. s # None => screen[s].window \in Windows /\ screen[s].window # None
  BY ViewsAssumption DEF ViewsInv, TypeOK, ScreenType, Keys
<1>3. row \in WriterType /\ row.n = 0 /\ row.pc = "begun" /\ row.by = s /\ (s # None => row.window # None)
  BY <1>2, ViewsAssumption DEF NoWriter, WriterType, Stamp
<1>4. \A k \in Keys : 0 <= latest[k]
  BY DEF ViewsInv, TypeOK, Stamp
<1>5. WriterFits(row)
  BY <1>3, <1>4 DEF WriterFits
<1> HIDE DEF row
<1> QED BY <1>1, <1>3, <1>5, WriterMoves, OnlyWriterMoves DEF ViewsInv, TypeOK

LEMMA WriteFailsKeeps == ASSUME ViewsInv, NEW w \in Writers, WriteFails(w) PROVE ViewsInv'
<1>1. /\ writer' = [writer EXCEPT ![w] = NoWriter] /\ faults' \in 0..MaxFaults
      /\ UNCHANGED <<now, latest, cache, promised, told, reader, screen>>
  BY ViewsAssumption DEF WriteFails, cached, ViewsInv, TypeOK
<1> QED BY <1>1, NoWriterFits, WriterMoves, OnlyWriterMoves

LEMMA ListKeysKeeps == ASSUME ViewsInv, NEW w \in Writers, ListKeys(w) PROVE ViewsInv'
<1> DEFINE q == writer[w]
           row == [q EXCEPT !.pc = "listed", !.listed = {k \in Keys \cap Drops(q.kind) : cache[k] # None}]
<1>1. /\ q \in WriterType /\ writer' = [writer EXCEPT ![w] = row]
      /\ UNCHANGED <<now, latest, cache, promised, told, reader, screen, faults>>
  BY DEF ListKeys, cached, ViewsInv, TypeOK
<1>2. /\ row \in WriterType /\ row.n = q.n /\ row.kind = q.kind /\ row.pc = "listed" /\ row.by = q.by /\ row.window = q.window
      /\ row.listed = {k \in Keys \cap Drops(q.kind) : cache[k] # None}
  BY <1>1 DEF WriterType
<1>3. WriterFits(row)
  BY <1>2 DEF WriterFits, ViewsInv, NothingAhead, ScreensFollow
<1> HIDE DEF row
<1> QED BY <1>1, <1>2, <1>3, WriterMoves, OnlyWriterMoves DEF ViewsInv, TypeOK

LEMMA FinishKeeps == ASSUME ViewsInv, NEW w \in Writers, Finish(w) PROVE ViewsInv'
<1> DEFINE t == writer[w].by
           k == writer[w].window
<1>1. /\ writer[w] \in WriterType /\ t \in Screens \cup {None} /\ (t # None => k \in Windows)
      /\ writer' = [writer EXCEPT ![w] = NoWriter]
      /\ UNCHANGED <<now, latest, cache, promised, told, faults>>
  BY DEF Finish, cached, ViewsInv, TypeOK, WriterType, ScreensFollow
<1>2. /\ writer' \in [Writers -> WriterType] /\ NothingAhead' /\ ListedIsAll' /\ PromisedFirst'
      /\ \A v \in Writers : writer'[v].by # None => writer'[v].window # None
  BY <1>1, NoWriterFits, WriterMoves
<1>3. CASE t = None
  BY <1>1, <1>2, <1>3, OnlyWriterMoves DEF Finish, ViewsInv, TypeOK
<1>4. CASE t # None
  <2> DEFINE row == [screen[t] EXCEPT !.blemish = screen[t].blemish \/ Loading(t) # {} \/ k # screen[t].window]
  <2>1. PICK r \in Readers : reader[r].pc = "idle" /\ reader' = [reader EXCEPT ![r] = Asked(k, t)]
    BY <1>4 DEF Finish
  <2>2. screen[t] \in ScreenType /\ screen' = [screen EXCEPT ![t] = row]
    BY <1>1, <1>4 DEF Finish, ViewsInv, TypeOK
  <2>3. /\ row \in ScreenType /\ row.window = screen[t].window
        /\ ~row.blemish => ~screen[t].blemish /\ Loading(t) = {} /\ k = screen[t].window
    BY <2>2 DEF ScreenType
  <2> HIDE DEF row
  <2>4. screen' \in [Screens -> ScreenType] /\ screen'[t] = row /\ \A s \in Screens \ {t} : screen'[s] = screen[s]
    BY <1>1, <1>4, <2>2, <2>3 DEF ViewsInv, TypeOK
  <2> QED BY <1>1, <1>2, <1>4, <2>1, <2>3, <2>4, ScreenLoads
<1> QED BY <1>3, <1>4

LEMMA CommitKeeps == ASSUME ViewsInv, NEW w \in Writers, Commit(w) PROVE ViewsInv'
<1> DEFINE q == writer[w]
           row == [q EXCEPT !.n = now', !.pc = IF DropsEarly(q.kind) THEN "dropped" ELSE "committed"]
<1>1. /\ now \in Nat /\ now' = now + 1 /\ now' \in Nat
      /\ latest' = [k \in Keys |-> IF k \in Shows(q.kind) THEN now' ELSE latest[k]]
      /\ q \in WriterType /\ writer' = [writer EXCEPT ![w] = row]
      /\ UNCHANGED <<cache, promised, told, reader, screen, faults>>
  <2>1. now \in Nat /\ now' = now + 1 /\ now' \in Nat
    BY DEF Commit, ViewsInv, TypeOK, Stamp
  <2>2. q \in WriterType /\ writer' = [writer EXCEPT ![w] = row]
    BY DEF Commit, ViewsInv, TypeOK
  <2> QED BY <2>1, <2>2 DEF Commit, cached
<1>2. /\ row \in WriterType /\ row.n = now' /\ row.kind = q.kind /\ row.pc # "listed"
      /\ row.by = q.by /\ row.window = q.window
      /\ row.kind = "booking" => row.pc = "committed"
  BY <1>1 DEF WriterType, Stamp, DropsEarly
<1> HIDE DEF row
<1>3. /\ writer' \in [Writers -> WriterType] /\ writer'[w] = row /\ \A v \in Writers \ {w} : writer'[v] = writer[v]
  BY <1>1, <1>2, WriterChanges DEF ViewsInv
<1>4. \A k \in Keys : latest[k] \in Nat /\ promised[k] \in Nat /\ latest[k] <= now /\ promised[k] <= latest[k]
  BY DEF ViewsInv, TypeOK, NothingAhead, Stamp
<1>5. \A k \in Keys : latest'[k] \in Nat /\ latest[k] <= latest'[k] /\ latest'[k] <= now' /\ (k \in Shows(q.kind) => latest'[k] = now')
  BY <1>1, <1>4
<1>6. \A v \in Writers \ {w} : writer[v].n \in Nat
  BY DEF ViewsInv, TypeOK, WriterType, Stamp
<1>7. NothingAhead'
  <2>1. \A k \in Keys : promised'[k] <= latest'[k] /\ latest'[k] <= now'
    BY <1>1, <1>4, <1>5
  <2>2. ASSUME NEW v \in Writers, NEW k \in Keys, k \in Shows(writer'[v].kind) PROVE writer'[v].n <= latest'[k]
    <3>1. CASE v = w
      BY <1>1, <1>2, <1>3, <1>5, <2>2, <3>1
    <3>2. CASE v # w
      <4>1. writer[v].n <= latest[k]
        BY <1>3, <2>2, <3>2 DEF ViewsInv, NothingAhead
      <4> QED BY <1>3, <1>4, <1>5, <1>6, <3>2, <4>1
    <3> QED BY <3>1, <3>2
  <2> QED BY <2>1, <2>2 DEF NothingAhead
<1>8. ListedIsAll'
  BY <1>1, <1>2, <1>3 DEF ViewsInv, ListedIsAll
<1>9. PromisedFirst'
  BY <1>1, <1>2, <1>3 DEF ViewsInv, PromisedFirst
<1>10. \A s : Loading(s)' = Loading(s)
  BY <1>1 DEF Loading
<1>11. ScreensFollow'
  BY <1>1, <1>2, <1>3, <1>10 DEF ViewsInv, ScreensFollow, Follows
<1>12. TypeOK'
  BY <1>1, <1>3, <1>5 DEF ViewsInv, TypeOK, Stamp
<1> QED BY <1>1, <1>7, <1>8, <1>9, <1>11, <1>12 DEF ViewsInv, CacheNotBehind, ReadersGetPromised, ReaderGetsPromised

LEMMA DropKeeps == ASSUME ViewsInv, NEW w \in Writers, Drop(w) PROVE ViewsInv'
<1> DEFINE q == writer[w]
           row == [q EXCEPT !.pc = "dropped", !.listed = {}]
<1>1. /\ q \in WriterType /\ q.pc = "listed" /\ q.n \in Nat /\ writer' = [writer EXCEPT ![w] = row]
      /\ cache' = [k \in Keys |-> IF k \in q.listed THEN None ELSE cache[k]]
      /\ promised' = [k \in Keys |-> IF k \in Shows(q.kind) \cap Drops(q.kind) /\ q.n > promised[k] THEN q.n ELSE promised[k]]
      /\ UNCHANGED <<now, latest, told, reader, screen, faults>>
  BY DEF Drop, ViewsInv, TypeOK, WriterType, Stamp
<1>2. row \in WriterType /\ row.n = q.n /\ row.kind = q.kind /\ row.pc = "dropped" /\ row.by = q.by /\ row.window = q.window
  BY <1>1 DEF WriterType
<1> HIDE DEF row
<1>3. /\ writer' \in [Writers -> WriterType] /\ writer'[w] = row /\ \A v \in Writers \ {w} : writer'[v] = writer[v]
  BY <1>1, <1>2, WriterChanges DEF ViewsInv
<1>4. \A k \in Keys : promised[k] \in Nat /\ latest[k] \in Nat /\ promised[k] <= latest[k] /\ latest[k] <= now
  BY DEF ViewsInv, TypeOK, NothingAhead, Stamp
<1>5. \A k \in Keys :
        /\ promised'[k] \in Nat /\ promised[k] <= promised'[k]
        /\ k \in Shows(q.kind) \cap Drops(q.kind) => q.n <= promised'[k]
        /\ promised'[k] = promised[k] \/ (k \in Shows(q.kind) \cap Drops(q.kind) /\ promised'[k] = q.n)
  BY <1>1, <1>4
<1>6. \A k \in Keys : cache'[k] = None \/ (k \notin q.listed /\ cache'[k] = cache[k])
  BY <1>1
<1>7. NothingAhead'
  <2>1. ASSUME NEW k \in Keys PROVE promised'[k] <= latest'[k]
    <3>1. k \in Shows(q.kind) => q.n <= latest[k]
      BY DEF ViewsInv, NothingAhead
    <3> QED BY <1>1, <1>4, <1>5, <3>1
  <2>2. ASSUME NEW v \in Writers, NEW k \in Keys PROVE k \in Shows(writer'[v].kind) => writer'[v].n <= latest'[k]
    BY <1>1, <1>2, <1>3 DEF ViewsInv, NothingAhead
  <2> QED BY <1>1, <1>4, <2>1, <2>2 DEF NothingAhead
<1>8. CacheNotBehind'
  <2> SUFFICES ASSUME NEW k \in Keys, cache'[k] # None, ~cache'[k].overtaken PROVE cache'[k].value >= promised'[k]
    BY DEF CacheNotBehind
  <2>1. k \notin q.listed /\ cache'[k] = cache[k] /\ cache[k].value >= promised[k]
    BY <1>6 DEF ViewsInv, CacheNotBehind
  <2>2. k \in Shows(q.kind) \cap Drops(q.kind) => cache[k].value >= q.n
    BY <1>1, <2>1 DEF ViewsInv, ListedIsAll
  <2> QED BY <1>5, <2>1, <2>2
<1>9. ListedIsAll'
  BY <1>2, <1>3, <1>6 DEF ViewsInv, ListedIsAll
<1>10. PromisedFirst'
  <2> SUFFICES ASSUME NEW k \in Windows
               PROVE  /\ told <= promised'[k]
                      /\ \A v \in Writers : writer'[v].kind = "booking" /\ writer'[v].pc = "dropped" => writer'[v].n <= promised'[k]
    BY <1>1 DEF PromisedFirst
  <2>1. k \in Keys /\ told \in Nat /\ told <= promised[k]
    BY DEF Keys, ViewsInv, TypeOK, PromisedFirst, Stamp
  <2>2. ASSUME NEW v \in Writers \ {w}, writer[v].kind = "booking", writer[v].pc = "dropped" PROVE writer[v].n <= promised'[k]
    <3>1. writer[v].n \in Nat /\ writer[v].n <= promised[k]
      BY <2>2 DEF ViewsInv, TypeOK, WriterType, Stamp, PromisedFirst
    <3> QED BY <1>4, <1>5, <2>1, <3>1
  <2>3. q.kind = "booking" => q.n <= promised'[k]
    BY <1>5, <2>1, KindsShow
  <2> QED BY <1>2, <1>3, <1>4, <1>5, <2>1, <2>2, <2>3
<1>11. ReadersGetPromised'
  <2> SUFFICES ASSUME NEW r \in Readers, reader[r].pc # "idle" PROVE ReaderGetsPromised(reader[r])'
    BY <1>1 DEF ReadersGetPromised
  <2>1. ReaderGetsPromised(reader[r]) /\ reader[r].floor \in Nat
    BY DEF ViewsInv, ReadersGetPromised, TypeOK, ReaderType, Stamp
  <2> QED BY <1>1, <1>4, <1>5, <2>1 DEF ReaderGetsPromised
<1>12. \A s : Loading(s)' = Loading(s)
  BY <1>1 DEF Loading
<1>13. ScreensFollow'
  BY <1>1, <1>2, <1>3, <1>12 DEF ViewsInv, ScreensFollow, Follows
<1>14. TypeOK'
  BY <1>1, <1>3, <1>5 DEF ViewsInv, TypeOK, Stamp
<1> QED BY <1>7, <1>8, <1>9, <1>10, <1>11, <1>13, <1>14 DEF ViewsInv

LEMMA NotifyKeeps == ASSUME ViewsInv, NEW w \in Writers, Notify(w) PROVE ViewsInv'
<1> DEFINE q == writer[w]
           row == [q EXCEPT !.pc = "announced"]
<1>1. /\ q \in WriterType /\ q.kind = "booking" /\ q.pc = "dropped" /\ q.n \in Nat /\ told \in Nat
      /\ writer' = [writer EXCEPT ![w] = row]
      /\ told' = IF q.n > told THEN q.n ELSE told
      /\ screen' = [s \in Screens |-> IF screen[s].linked THEN [screen[s] EXCEPT !.mail = TRUE]
                                      ELSE [screen[s] EXCEPT !.blemish = TRUE]]
      /\ UNCHANGED <<now, latest, cache, promised, reader, faults>>
  BY DEF Notify, Announced, cached, ViewsInv, TypeOK, WriterType, Stamp
<1>2. row \in WriterType /\ row.n = q.n /\ row.kind = q.kind /\ row.pc = "announced" /\ row.by = q.by /\ row.window = q.window
  BY <1>1 DEF WriterType
<1> HIDE DEF row
<1>3. /\ writer' \in [Writers -> WriterType] /\ writer'[w] = row /\ \A v \in Writers \ {w} : writer'[v] = writer[v]
  BY <1>1, <1>2, WriterChanges DEF ViewsInv
<1>4. NothingAhead' /\ ListedIsAll'
  BY <1>1, <1>2, <1>3 DEF ViewsInv, NothingAhead, ListedIsAll
<1>5. PromisedFirst'
  BY <1>1, <1>2, <1>3 DEF ViewsInv, PromisedFirst
<1>6. \A s \in Screens : screen'[s] \in ScreenType /\ screen'[s].window = screen[s].window
        /\ (~screen'[s].blemish => ~screen[s].blemish /\ screen'[s].mail)
  <2> SUFFICES ASSUME NEW s \in Screens
               PROVE  screen'[s] \in ScreenType /\ screen'[s].window = screen[s].window
                      /\ (~screen'[s].blemish => ~screen[s].blemish /\ screen'[s].mail)
    OBVIOUS
  <2>1. screen[s] \in ScreenType
    BY DEF ViewsInv, TypeOK
  <2>2. CASE screen[s].linked
    <3>1. screen'[s] = [screen[s] EXCEPT !.mail = TRUE]
      BY <1>1, <2>2
    <3> QED BY <2>1, <3>1 DEF ScreenType
  <2>3. CASE ~screen[s].linked
    <3>1. screen'[s] = [screen[s] EXCEPT !.blemish = TRUE]
      BY <1>1, <2>3
    <3> QED BY <2>1, <3>1 DEF ScreenType
  <2> QED BY <2>2, <2>3
<1>7. \A s : Loading(s)' = Loading(s)
  BY <1>1 DEF Loading
<1>8. ScreensFollow'
  BY <1>1, <1>2, <1>3, <1>6, <1>7 DEF ViewsInv, ScreensFollow, Follows
<1>9. TypeOK'
  BY <1>1, <1>3, <1>6 DEF ViewsInv, TypeOK, Stamp
<1> QED BY <1>1, <1>4, <1>5, <1>8, <1>9 DEF ViewsInv, CacheNotBehind, ReadersGetPromised, ReaderGetsPromised

LEMMA ExpireKeeps == ASSUME ViewsInv, NEW k \in Keys, Expire(k) PROVE ViewsInv'
<1>1. /\ cache' \in [Keys -> Entry \cup {None}] /\ \A j \in Keys : cache'[j] = None \/ cache'[j] = cache[j]
      /\ UNCHANGED <<now, latest, promised, told, writer, reader, screen, faults>>
  BY DEF Expire, ViewsInv, TypeOK
<1>2. \A s : Loading(s)' = Loading(s)
  BY <1>1 DEF Loading
<1>3. ScreensFollow'
  BY <1>1, <1>2 DEF ViewsInv, ScreensFollow, Follows
<1> QED BY <1>1, <1>3 DEF ViewsInv, TypeOK, NothingAhead, CacheNotBehind, ListedIsAll, PromisedFirst,
            ReadersGetPromised, ReaderGetsPromised

LEMMA RestartKeeps == ASSUME ViewsInv, Restart PROVE ViewsInv'
<1>1. /\ writer' = [w \in Writers |-> NoWriter] /\ reader' = [r \in Readers |-> NoReader] /\ faults' \in 0..MaxFaults
      /\ UNCHANGED <<now, latest, cache, promised, told>>
  <2>1. faults' \in 0..MaxFaults
    <3>1. faults \in 0..MaxFaults /\ faults < MaxFaults /\ faults' = faults + 1
      BY DEF Restart, ViewsInv, TypeOK
    <3> QED BY <3>1, ViewsAssumption
  <2> QED BY <2>1 DEF Restart, cached
<1>2. NoWriter \in WriterType /\ WriterFits(NoWriter) /\ NoReader \in ReaderType /\ NoReader.pc = "idle"
  BY NoWriterFits DEF NoReader, ReaderType, Stamp
<1>3. /\ writer' \in [Writers -> WriterType] /\ NothingAhead' /\ ListedIsAll' /\ PromisedFirst'
      /\ \A v \in Writers : writer'[v].by # None => writer'[v].window # None
  BY <1>1, <1>2 DEF ViewsInv, NothingAhead, ListedIsAll, PromisedFirst, WriterFits
<1>4. ReadersGetPromised' /\ \A s : Loading(s)' = {}
  BY <1>1, <1>2 DEF ReadersGetPromised, Loading
<1>5. \A s \in Screens :
        /\ screen'[s] \in ScreenType /\ screen'[s].window = screen[s].window /\ screen'[s].shown = screen[s].shown
        /\ ~screen'[s].blemish => ~screen[s].blemish /\ ~screen[s].mail /\ Loading(s) = {}
  <2> SUFFICES ASSUME NEW s \in Screens
               PROVE  /\ screen'[s] \in ScreenType /\ screen'[s].window = screen[s].window /\ screen'[s].shown = screen[s].shown
                      /\ ~screen'[s].blemish => ~screen[s].blemish /\ ~screen[s].mail /\ Loading(s) = {}
    OBVIOUS
  <2>1. /\ screen[s] \in ScreenType
        /\ screen'[s] = [screen[s] EXCEPT !.linked = FALSE, !.mail = FALSE,
                           !.blemish = screen[s].blemish \/ screen[s].mail \/ Loading(s) # {}]
    BY DEF ViewsInv, TypeOK, Restart
  <2> QED BY <2>1 DEF ScreenType
<1>6. ScreensFollow'
  <2> SUFFICES ASSUME NEW s \in Screens PROVE Follows(s)'
    BY <1>3 DEF ScreensFollow
  <2>1. Follows(s)
    BY DEF ViewsInv, ScreensFollow
  <2> QED BY <1>1, <1>4, <1>5, <2>1 DEF Follows
<1>7. TypeOK'
  <2>1. screen' \in [Screens -> ScreenType]
    BY <1>5 DEF Restart
  <2> QED BY <1>1, <1>2, <1>3, <2>1 DEF ViewsInv, TypeOK
<1> QED BY <1>1, <1>3, <1>4, <1>6, <1>7 DEF ViewsInv, CacheNotBehind

LEMMA ViewsNextKeeps == ViewsInv /\ [Next]_vars => ViewsInv'
<1> SUFFICES ASSUME ViewsInv, [Next]_vars PROVE ViewsInv'
  OBVIOUS
<1>1. CASE UNCHANGED vars
  <2>1. UNCHANGED <<now, latest, cache, promised, told, writer, reader, screen, faults>>
    BY <1>1 DEF vars
  <2> QED BY <2>1, OnlyWriterMoves DEF ViewsInv, TypeOK, NothingAhead, ListedIsAll, PromisedFirst, ScreensFollow
<1>2. CASE Reads
  BY <1>2, GetKeeps, SelectKeeps, SetKeeps, AnswerKeeps DEF Reads
<1>3. CASE Writes
  BY <1>3, CommitKeeps, ListKeysKeeps, DropKeeps, NotifyKeeps, FinishKeeps DEF Writes
<1>4. ASSUME NEW r \in Readers, (\E k \in Keys : Ask(r, k)) \/ ReadFails(r) PROVE ViewsInv'
  BY <1>4, AskKeeps, ReadFailsKeeps
<1>5. ASSUME NEW s \in Screens, (\E w \in Windows : Navigate(s, w)) \/ Update(s) \/ Unlink(s) \/ Link(s) PROVE ViewsInv'
  BY <1>5, NavigateKeeps, UpdateKeeps, SocketKeeps
<1>6. ASSUME NEW w \in Writers, (\E kind \in Kinds, s \in Screens \cup {None} : Begin(w, kind, s)) \/ WriteFails(w)
      PROVE  ViewsInv'
  BY <1>6, BeginKeeps, WriteFailsKeeps
<1> QED BY <1>1, <1>2, <1>3, <1>4, <1>5, <1>6, ExpireKeeps, RestartKeeps DEF Next

LEMMA ViewsAlways == Spec => []ViewsInv
BY ViewsStart, ViewsNextKeeps, PTL DEF Spec

\* Whoever asks for a view after a change of it was saved sees the change, or is
\* served an entry written by a request that had read before the COMMIT: for any
\* number of requests of both sorts (getTimeline, priceByPlan, invalidate,
\* dropPriceCache).
THEOREM OwnSavesAreSeen == Spec => []OwnSaveSeen
<1>1. ViewsInv => OwnSaveSeen
  BY DEF ViewsInv, ReadersGetPromised, ReaderGetsPromised, OwnSaveSeen
<1> QED BY <1>1, ViewsAlways, PTL

\* A chessboard that has nothing left to load shows its own period and every
\* booking that was announced, unless something went wrong on its way: for any
\* number of chessboards, periods and loads that overtake one another
\* (useTimeline, notifyUpdate).
THEOREM ScreensKeepUp == Spec => []ScreenBehindOnlyByBlemish
<1>1. ViewsInv => ScreenBehindOnlyByBlemish
  BY DEF ViewsInv, ScreensFollow, Follows, ScreenBehindOnlyByBlemish
<1> QED BY <1>1, ViewsAlways, PTL

-----------------------------------------------------------------------------
(* Guests *)

LEMMA GuestsStart == GuestsInit => GuestsInv
<1> SUFFICES ASSUME GuestsInit PROVE GuestsInv
  OBVIOUS
<1>1. PICK s \in Finished \cup {"live"} :
        guest = [b \in Bookings |-> [status |-> s, name |-> TRUE, contact |-> TRUE, version |-> 0]]
  BY DEF GuestsInit
<1>2. GuestsTypeOK
  BY <1>1 DEF GuestsInit, GuestsTypeOK, GuestRow, Finished, All
<1>3. \A d, step : ~At(d, step) \/ d \notin People
  BY DEF GuestsInit, At
<1> QED BY <1>1, <1>2, <1>3 DEF GuestsInv, RowsAreWhole, Whole, RipeIsOver, NotesAreClean, LiveGuestKnown,
            NoTraceIsLeft, GuestsInit

\* One desk goes on; the rows, the notes and the journal are left alone.
LEMMA DeskMoves ==
  ASSUME GuestsInv, NEW d \in People, NEW row \in DeskRow \cup {Nobody},
         desk' = [desk EXCEPT ![d] = row], UNCHANGED <<guest, note, trace, runner>>,
         late' \in [name : SUBSET Bookings, trace : SUBSET Bookings],
         late.name \subseteq late'.name, late.trace \subseteq late'.trace,
         At(d, "form")' \/ At(d, "write")' => Whole(row.shown),
         At(d, "erase")' => d \in Officers /\ guest[row.of].status # "live",
         ~At(d, "scrub")',
         At(d, "scrub") => desk[d].of \in late'.trace
  PROVE  GuestsInv'
<1>1. desk'[d] = row /\ \A e \in People \ {d} : desk'[e] = desk[e]
  BY DEF GuestsInv, GuestsTypeOK
<1>2. \A e \in People \ {d} : \A s : At(e, s)' <=> At(e, s)
  BY <1>1 DEF At
<1>3. GuestsTypeOK'
  BY DEF GuestsInv, GuestsTypeOK
<1>4. RowsAreWhole'
  BY <1>1, <1>2 DEF GuestsInv, RowsAreWhole
<1>5. RipeIsOver'
  BY <1>1, <1>2 DEF GuestsInv, RipeIsOver, Over
<1>6. NotesAreClean'
  BY <1>1, <1>2 DEF GuestsInv, NotesAreClean
<1>7. LiveGuestKnown'
  BY DEF GuestsInv, LiveGuestKnown
<1>8. NoTraceIsLeft'
  <2> SUFFICES ASSUME NEW b \in Bookings, ~guest[b].name, b \notin late'.trace,
                      \A e \in Officers : At(e, "scrub")' => desk'[e].of # b
               PROVE  ~guest[b].contact /\ b \notin note /\ trace[b] = {}
    BY DEF NoTraceIsLeft
  <2>1. \A e \in Officers : At(e, "scrub") => desk[e].of # b
    BY <1>1, <1>2 DEF People
  <2> QED BY <2>1 DEF GuestsInv, NoTraceIsLeft
<1> QED BY <1>3, <1>4, <1>5, <1>6, <1>7, <1>8 DEF GuestsInv

LEMMA FormsMove ==
  ASSUME GuestsInv, NEW d \in People,
         \/ Close(d) \/ DeskFails(d)
         \/ d \in Officers /\ \E b \in Bookings : Anonymize(d, b)
         \/ \E b \in Bookings : OpenForm(d, b)
         \/ \E status \in Finished \cup {"live"}, edited \in Edits : BeginSave(d, status, edited)
  PROVE  GuestsInv'
<1>1. /\ guest \in [Bookings -> GuestRow] /\ desk \in [People -> DeskRow \cup {Nobody}]
      /\ late \in [name : SUBSET Bookings, trace : SUBSET Bookings]
  BY DEF GuestsInv, GuestsTypeOK
<1>2. CASE Close(d)
  <2>1. desk' = [desk EXCEPT ![d] = Nobody] /\ UNCHANGED <<guest, note, trace, runner, late>> /\ desk'[d] = Nobody
    BY <1>1, <1>2 DEF Close, Free
  <2>2. ~At(d, "scrub")
    BY <1>2 DEF Close, At
  <2> QED BY <1>1, <2>1, <2>2, DeskMoves DEF At
<1>3. CASE DeskFails(d)
  <2>1. /\ desk' = [desk EXCEPT ![d] = Nobody] /\ UNCHANGED <<guest, note, trace, runner>> /\ desk'[d] = Nobody
        /\ late' = IF At(d, "scrub") THEN [late EXCEPT !.trace = @ \cup {desk[d].of}] ELSE late
        /\ desk[d] # Nobody
    BY <1>1, <1>3 DEF DeskFails, Free
  <2>2. desk[d].of \in Bookings
    BY <1>1, <2>1 DEF DeskRow
  <2>3. /\ late' \in [name : SUBSET Bookings, trace : SUBSET Bookings]
        /\ late.name \subseteq late'.name /\ late.trace \subseteq late'.trace
        /\ At(d, "scrub") => desk[d].of \in late'.trace
    BY <1>1, <2>1, <2>2
  <2> QED BY <2>1, <2>3, DeskMoves DEF At
<1>4. ASSUME NEW b \in Bookings, d \in Officers, Anonymize(d, b) PROVE GuestsInv'
  <2> DEFINE row == [step |-> "erase", of |-> b]
  <2>1. /\ desk' = [desk EXCEPT ![d] = row] /\ UNCHANGED <<guest, note, trace, runner, late>> /\ desk'[d] = row
        /\ desk[d] = Nobody /\ guest[b].status \in Finished
    BY <1>1, <1>4 DEF Anonymize, MayForget
  <2>2. row \in DeskRow
    BY DEF DeskRow
  <2> QED BY <1>1, <1>4, <2>1, <2>2, DeskMoves DEF At, Finished
<1>5. ASSUME NEW b \in Bookings, OpenForm(d, b) PROVE GuestsInv'
  <2> DEFINE row == [step |-> "form", of |-> b, shown |-> guest[b]]
  <2>1. /\ desk' = [desk EXCEPT ![d] = row] /\ UNCHANGED <<guest, note, trace, runner, late>> /\ desk'[d] = row
        /\ desk[d] = Nobody
    BY <1>1, <1>5 DEF OpenForm
  <2>2. row \in DeskRow
    BY <1>1 DEF DeskRow
  <2>3. Whole(row.shown)
    BY DEF GuestsInv, RowsAreWhole
  <2> QED BY <1>1, <2>1, <2>2, <2>3, DeskMoves DEF At
<1>6. ASSUME NEW status \in Finished \cup {"live"}, NEW edited \in Edits, BeginSave(d, status, edited)
      PROVE  GuestsInv'
  <2> DEFINE b == desk[d].of
             shown == [desk[d].shown EXCEPT !.status = status]
             spoken == edited \cup {k \in All : desk[d].shown[k] # guest[b][k]}
             row == [step |-> "write", of |-> b, shown |-> shown, told |-> spoken]
  <2>1. /\ At(d, "form") /\ UNCHANGED <<guest, note, trace, runner, late>>
        /\ desk' = [desk EXCEPT ![d] = IF desk[d].shown.version # guest[b].version THEN Nobody ELSE row]
    BY <1>6 DEF BeginSave
  <2>2. b \in Bookings /\ desk[d].shown \in GuestRow /\ ~At(d, "scrub") /\ Whole(desk[d].shown)
    BY <1>1, <2>1 DEF At, DeskRow, GuestsInv, RowsAreWhole
  <2>3. shown \in GuestRow /\ Whole(shown)
    BY <2>2 DEF GuestRow, Finished, Whole
  <2>4. spoken \in SUBSET {"name", "contact"}
    BY GuestsAssumption DEF All
  <2>5. row \in DeskRow
    BY <2>2, <2>3, <2>4 DEF DeskRow
  <2> HIDE DEF shown, spoken
  <2>6. CASE desk' = [desk EXCEPT ![d] = row]
    <3>1. desk'[d] = row
      BY <1>1, <2>6
    <3>2. row.step = "write" /\ row.shown = shown
      OBVIOUS
    <3>3. ~At(d, "scrub")' /\ ~At(d, "erase")' /\ Whole(row.shown)
      BY <2>3, <3>1, <3>2 DEF At
    <3> HIDE DEF row
    <3> QED BY <1>1, <2>1, <2>2, <2>5, <2>6, <3>3, DeskMoves
  <2>7. CASE desk' = [desk EXCEPT ![d] = Nobody]
    <3>1. desk'[d] = Nobody
      BY <1>1, <2>7
    <3> QED BY <1>1, <2>1, <2>2, <2>7, <3>1, DeskMoves DEF At
  <2> QED BY <2>1, <2>6, <2>7
<1> QED BY <1>2, <1>3, <1>4, <1>5, <1>6

\* The form writes its copy: a name it takes away was taken before, from the row or
\* from a row written since.
LEMMA WriteKeeps == ASSUME GuestsInv, NEW d \in People, Write(d) PROVE GuestsInv'
<1> DEFINE b == desk[d].of
           shown == desk[d].shown
           row == [shown EXCEPT !.version = guest[b].version + 1]
<1>1. /\ guest \in [Bookings -> GuestRow] /\ desk \in [People -> DeskRow \cup {Nobody}]
      /\ late \in [name : SUBSET Bookings, trace : SUBSET Bookings]
  BY DEF GuestsInv, GuestsTypeOK
<1>2. /\ At(d, "write") /\ guest' = [guest EXCEPT ![b] = row] /\ desk' = [desk EXCEPT ![d].step = "tell"]
      /\ UNCHANGED <<note, trace, runner>>
      /\ late' = [name |-> IF shown.status = "live" /\ (Erasing(b) \/ ~shown.name) THEN late.name \cup {b} ELSE late.name,
                  trace |-> IF guest[b].name /\ ~shown.name THEN late.trace \cup {b} ELSE late.trace]
  BY DEF Write
<1>3. b \in Bookings /\ shown \in GuestRow /\ Whole(shown) /\ desk[d] \in DeskRow /\ desk[d].step = "write"
  BY <1>1, <1>2 DEF At, DeskRow, GuestsInv, RowsAreWhole
<1>4. guest[b] \in GuestRow
  BY <1>1, <1>3
<1>5. row \in GuestRow /\ row.name = shown.name /\ row.contact = shown.contact /\ row.status = shown.status
  BY <1>3, <1>4 DEF GuestRow
<1>6. guest'[b] = row /\ \A c \in Bookings \ {b} : guest'[c] = guest[c]
  BY <1>1, <1>2, <1>3
<1>7. desk'[d] = [desk[d] EXCEPT !.step = "tell"] /\ \A e \in People \ {d} : desk'[e] = desk[e]
  BY <1>1, <1>2
<1>8. desk'[d] \in DeskRow /\ desk'[d].step = "tell"
  BY <1>3, <1>7 DEF DeskRow
<1>9. /\ \A e \in People \ {d} : \A s : At(e, s)' <=> At(e, s)
      /\ \A s : At(d, s)' => s = "tell"
  BY <1>7, <1>8 DEF At
<1>10. /\ late' \in [name : SUBSET Bookings, trace : SUBSET Bookings]
       /\ late.name \subseteq late'.name /\ late.trace \subseteq late'.trace
  BY <1>1, <1>2, <1>3
<1>11. GuestsTypeOK'
  <2>1. guest' \in [Bookings -> GuestRow]
    BY <1>1, <1>2, <1>3, <1>5
  <2>2. desk' \in [People -> DeskRow \cup {Nobody}]
    BY <1>1, <1>7, <1>8, <1>2
  <2> QED BY <1>2, <1>10, <2>1, <2>2 DEF GuestsInv, GuestsTypeOK
<1> HIDE DEF row
<1>12. RowsAreWhole'
  BY <1>3, <1>5, <1>6, <1>7, <1>9 DEF GuestsInv, RowsAreWhole, Whole
<1>13. ASSUME NEW c \in Bookings, Over(c), c = b => Erasing(b) PROVE Over(c)'
  <2>1. CASE c = b
    BY <1>2, <1>3, <1>5, <1>6, <1>13, <2>1 DEF Over
  <2>2. CASE c # b
    BY <1>6, <1>10, <1>13, <2>2 DEF Over
  <2> QED BY <2>1, <2>2
<1>14. RipeIsOver'
  <2>1. ASSUME NEW e \in People, At(e, "erase")' PROVE Over(desk[e].of)' /\ desk'[e].of = desk[e].of
    <3>1. At(e, "erase") /\ e \in Officers /\ e # d
      BY <1>9, <2>1 DEF GuestsInv, NotesAreClean
    <3>2. desk[e].of \in Bookings /\ Over(desk[e].of) /\ desk'[e] = desk[e]
      BY <1>1, <1>7, <3>1 DEF At, DeskRow, GuestsInv, RipeIsOver
    <3> QED BY <1>13, <3>1, <3>2 DEF Erasing
  <2>2. ASSUME NEW m \in Machines, NEW c \in runner[m].ripe PROVE Over(c)'
    <3>1. c \in Bookings /\ Over(c)
      BY DEF GuestsInv, GuestsTypeOK, RipeIsOver
    <3> QED BY <1>13, <3>1 DEF Erasing
  <2> QED BY <1>2, <2>1, <2>2 DEF RipeIsOver, Over
<1>15. NotesAreClean'
  BY <1>2, <1>7, <1>9, <1>10 DEF GuestsInv, NotesAreClean
<1>16. LiveGuestKnown'
  BY <1>2, <1>3, <1>5, <1>6, <1>10 DEF GuestsInv, LiveGuestKnown
<1>17. NoTraceIsLeft'
  <2> SUFFICES ASSUME NEW c \in Bookings, ~guest'[c].name, c \notin late'.trace,
                      \A e \in Officers : At(e, "scrub")' => desk'[e].of # c
               PROVE  ~guest'[c].contact /\ c \notin note /\ trace[c] = {}
    BY <1>2 DEF NoTraceIsLeft
  <2>1. \A e \in Officers : At(e, "scrub") => desk[e].of # c
    <3>1. ~At(d, "scrub")
      BY <1>3 DEF At
    <3> QED BY <1>7, <1>9, <3>1 DEF People
  <2>2. ~guest[c].name /\ c \notin late.trace
    BY <1>2, <1>3, <1>5, <1>6, <1>10
  <2>3. ~guest[c].contact /\ c \notin note /\ trace[c] = {}
    BY <2>1, <2>2 DEF GuestsInv, NoTraceIsLeft
  <2> QED BY <1>12, <2>3 DEF RowsAreWhole, Whole
<1> QED BY <1>11, <1>12, <1>14, <1>15, <1>16, <1>17 DEF GuestsInv

\* The journal is told: of a guest still known, or late.
LEMMA TellKeeps == ASSUME GuestsInv, NEW d \in People, Tell(d) PROVE GuestsInv'
<1> DEFINE b == desk[d].of
           spoken == desk[d].told
<1>1. /\ desk \in [People -> DeskRow \cup {Nobody}] /\ trace \in [Bookings -> SUBSET All]
      /\ late \in [name : SUBSET Bookings, trace : SUBSET Bookings]
  BY DEF GuestsInv, GuestsTypeOK
<1>2. /\ At(d, "tell") /\ trace' = [trace EXCEPT ![b] = @ \cup spoken] /\ desk' = [desk EXCEPT ![d] = Nobody]
      /\ UNCHANGED <<guest, note, runner>>
      /\ late' = IF spoken # {} /\ Erasing(b) THEN [late EXCEPT !.trace = @ \cup {b}] ELSE late
  BY DEF Tell, Free
<1>3. b \in Bookings /\ spoken \in SUBSET All /\ desk[d].step = "tell"
  BY <1>1, <1>2 DEF At, DeskRow, All
<1>4. desk'[d] = Nobody /\ \A e \in People \ {d} : desk'[e] = desk[e]
  BY <1>1, <1>2
<1>5. /\ \A e \in People : \A s : At(e, s)' => At(e, s) /\ e # d
      /\ \A e \in People : At(e, "scrub") => At(e, "scrub")' /\ e # d
  BY <1>3, <1>4 DEF At
<1>6. /\ late' \in [name : SUBSET Bookings, trace : SUBSET Bookings]
      /\ late'.name = late.name /\ late.trace \subseteq late'.trace
      /\ spoken # {} /\ Erasing(b) => b \in late'.trace
  BY <1>1, <1>2, <1>3
<1>7. GuestsTypeOK'
  <2>1. trace' \in [Bookings -> SUBSET All]
    BY <1>1, <1>2, <1>3
  <2>2. desk' \in [People -> DeskRow \cup {Nobody}]
    BY <1>1, <1>2
  <2> QED BY <1>2, <1>6, <2>1, <2>2 DEF GuestsInv, GuestsTypeOK
<1>8. RowsAreWhole' /\ RipeIsOver' /\ NotesAreClean' /\ LiveGuestKnown'
  BY <1>2, <1>4, <1>5, <1>6 DEF GuestsInv, RowsAreWhole, RipeIsOver, Over, NotesAreClean, LiveGuestKnown
<1>9. NoTraceIsLeft'
  <2> SUFFICES ASSUME NEW c \in Bookings, ~guest[c].name, c \notin late'.trace,
                      \A e \in Officers : At(e, "scrub")' => desk'[e].of # c
               PROVE  ~guest[c].contact /\ c \notin note /\ trace'[c] = {}
    BY <1>2 DEF NoTraceIsLeft
  <2>1. ~guest[c].contact /\ c \notin note /\ trace[c] = {}
    BY <1>4, <1>5, <1>6 DEF GuestsInv, NoTraceIsLeft, People
  <2>2. c = b => spoken = {}
    BY <1>6 DEF Erasing
  <2> QED BY <1>1, <1>2, <1>3, <2>1, <2>2
<1> QED BY <1>7, <1>8, <1>9 DEF GuestsInv

\* A payment's note names a guest still known, or comes late.
LEMMA PaymentKeeps == ASSUME GuestsInv, NEW b \in Bookings, AddPayment(b) PROVE GuestsInv'
<1>1. /\ note' = note \cup {b} /\ UNCHANGED <<guest, trace, desk, runner>>
      /\ late' = IF Erasing(b) THEN [late EXCEPT !.trace = @ \cup {b}] ELSE late
  BY DEF AddPayment
<1>2. /\ late' \in [name : SUBSET Bookings, trace : SUBSET Bookings]
      /\ late'.name = late.name /\ late.trace \subseteq late'.trace
      /\ Erasing(b) => b \in late'.trace
  BY <1>1 DEF GuestsInv, GuestsTypeOK
<1>3. \A e, s : At(e, s)' <=> At(e, s)
  BY <1>1 DEF At
<1>4. GuestsTypeOK'
  BY <1>1, <1>2 DEF GuestsInv, GuestsTypeOK
<1>5. RowsAreWhole' /\ RipeIsOver' /\ LiveGuestKnown'
  BY <1>1, <1>2, <1>3 DEF GuestsInv, RowsAreWhole, RipeIsOver, Over, LiveGuestKnown
<1>6. NotesAreClean'
  BY <1>1, <1>2, <1>3 DEF GuestsInv, NotesAreClean, Erasing
<1>7. NoTraceIsLeft'
  BY <1>1, <1>2, <1>3 DEF GuestsInv, NoTraceIsLeft, Erasing
<1> QED BY <1>4, <1>5, <1>6, <1>7 DEF GuestsInv

\* What forgetting leaves of the rows.
LEMMA ForgottenRows ==
  ASSUME GuestsInv, NEW bs \in SUBSET Bookings, NEW kinds, guest' = Forgotten(bs, kinds)
  PROVE  /\ guest' \in [Bookings -> GuestRow]
         /\ \A b \in Bookings : Whole(guest'[b]) /\ guest'[b].status = guest[b].status
         /\ \A b \in bs : /\ ~guest'[b].contact
                          /\ guest'[b].name <=> guest[b].name /\ "name" \notin kinds
         /\ \A b \in Bookings \ bs : guest'[b] = guest[b]
<1>1. guest \in [Bookings -> GuestRow]
  BY DEF GuestsInv, GuestsTypeOK
<1>2. ASSUME NEW b \in bs
      PROVE  /\ guest'[b] \in GuestRow /\ guest'[b].status = guest[b].status /\ guest'[b].contact = FALSE
             /\ guest'[b].name <=> guest[b].name /\ "name" \notin kinds
  <2>1. guest[b] \in GuestRow /\ b \in Bookings
    BY <1>1
  <2>2. guest'[b] = [guest[b] EXCEPT !.name = guest[b].name /\ "name" \notin kinds, !.contact = FALSE]
    BY <2>1 DEF Forgotten
  <2> QED BY <2>1, <2>2 DEF GuestRow
<1>3. \A b \in Bookings \ bs : guest'[b] = guest[b]
  BY DEF Forgotten
<1>4. guest' \in [Bookings -> GuestRow]
  <2>1. \A b \in Bookings : guest'[b] \in GuestRow
    BY <1>1, <1>2, <1>3
  <2>2. guest' = [b \in Bookings |-> guest'[b]]
    BY DEF Forgotten
  <2> QED BY <2>1, <2>2
<1>5. \A b \in Bookings : Whole(guest[b])
  BY DEF GuestsInv, RowsAreWhole
<1> QED BY <1>2, <1>3, <1>4, <1>5 DEF Whole

LEMMA EraseKeeps == ASSUME GuestsInv, NEW d \in People, Erase(d) PROVE GuestsInv'
<1> DEFINE b == desk[d].of
<1>1. /\ desk \in [People -> DeskRow \cup {Nobody}] /\ note \subseteq Bookings
  BY DEF GuestsInv, GuestsTypeOK
<1>2. /\ At(d, "erase") /\ guest' = Forgotten({b}, All) /\ note' = note \ {b}
      /\ desk' = [desk EXCEPT ![d].step = "scrub"] /\ UNCHANGED <<trace, runner, late>>
  BY DEF Erase
<1>3. b \in Bookings /\ d \in Officers /\ desk[d] \in DeskRow /\ desk[d].step = "erase" /\ Over(b)
  BY <1>1, <1>2 DEF At, DeskRow, GuestsInv, NotesAreClean, RipeIsOver
<1>4. /\ guest' \in [Bookings -> GuestRow] /\ \A c \in Bookings : Whole(guest'[c])
      /\ guest'[b].status = guest[b].status /\ ~guest'[b].name /\ ~guest'[b].contact
      /\ \A c \in Bookings \ {b} : guest'[c] = guest[c]
  <2>1. {b} \in SUBSET Bookings /\ "name" \in All
    BY <1>3 DEF All
  <2> QED BY <1>2, <2>1, ForgottenRows
<1>5. desk'[d] = [desk[d] EXCEPT !.step = "scrub"] /\ \A e \in People \ {d} : desk'[e] = desk[e]
  BY <1>1, <1>2
<1>6. desk'[d] \in DeskRow /\ desk'[d].step = "scrub" /\ desk'[d].of = b
  BY <1>3, <1>5 DEF DeskRow
<1>7. /\ \A e \in People \ {d} : \A s : At(e, s)' <=> At(e, s)
      /\ At(d, "scrub")' /\ \A s : At(d, s)' => s = "scrub"
  BY <1>5, <1>6, GuestsAssumption DEF At
<1>8. GuestsTypeOK'
  <2>1. desk' \in [People -> DeskRow \cup {Nobody}]
    BY <1>1, <1>2, <1>5, <1>6
  <2> QED BY <1>2, <1>4, <2>1 DEF GuestsInv, GuestsTypeOK
<1>9. RowsAreWhole'
  BY <1>4, <1>5, <1>7 DEF GuestsInv, RowsAreWhole
<1>10. \A c \in Bookings : Over(c) => Over(c)'
  BY <1>2, <1>4 DEF Over
<1>11. RipeIsOver'
  <2>1. ASSUME NEW e \in People, At(e, "erase")' PROVE Over(desk[e].of)' /\ desk'[e].of = desk[e].of
    <3>1. At(e, "erase") /\ e # d /\ desk'[e] = desk[e]
      BY <1>5, <1>7, <2>1
    <3>2. desk[e].of \in Bookings /\ Over(desk[e].of)
      BY <1>1, <3>1 DEF At, DeskRow, GuestsInv, RipeIsOver
    <3> QED BY <1>10, <3>1, <3>2 DEF Over
  <2>2. ASSUME NEW m \in Machines, NEW c \in runner[m].ripe PROVE Over(c)'
    BY <1>10 DEF GuestsInv, GuestsTypeOK, RipeIsOver
  <2> QED BY <1>2, <2>1, <2>2 DEF RipeIsOver, Over
<1>12. NotesAreClean'
  BY <1>2, <1>3, <1>5, <1>6, <1>7 DEF GuestsInv, NotesAreClean
<1>13. LiveGuestKnown'
  BY <1>2, <1>3, <1>4 DEF GuestsInv, LiveGuestKnown, Over
<1>14. NoTraceIsLeft'
  <2> SUFFICES ASSUME NEW c \in Bookings, ~guest'[c].name, c \notin late.trace,
                      \A e \in Officers : At(e, "scrub")' => desk'[e].of # c
               PROVE  ~guest'[c].contact /\ c \notin note' /\ trace[c] = {}
    BY <1>2 DEF NoTraceIsLeft
  <2>1. c # b
    BY <1>3, <1>6, <1>7
  <2>2. \A e \in Officers : At(e, "scrub") => desk[e].of # c
    <3>1. ~At(d, "scrub")
      BY <1>3 DEF At
    <3> QED BY <1>5, <1>7, <3>1 DEF People
  <2> QED BY <1>2, <1>4, <2>1, <2>2 DEF GuestsInv, NoTraceIsLeft
<1> QED BY <1>8, <1>9, <1>11, <1>12, <1>13, <1>14 DEF GuestsInv

LEMMA ScrubKeeps == ASSUME GuestsInv, NEW d \in People, Scrub(d) PROVE GuestsInv'
<1> DEFINE b == desk[d].of
<1>1. /\ desk \in [People -> DeskRow \cup {Nobody}] /\ trace \in [Bookings -> SUBSET All]
  BY DEF GuestsInv, GuestsTypeOK
<1>2. /\ At(d, "scrub") /\ trace' = Scrubbed({b}, All) /\ desk' = [desk EXCEPT ![d] = Nobody]
      /\ UNCHANGED <<guest, note, runner, late>>
  BY DEF Scrub, Free
<1>3. b \in Bookings /\ desk[d].step = "scrub" /\ (b \notin note \/ b \in late.trace)
  BY <1>1, <1>2 DEF At, DeskRow, GuestsInv, NotesAreClean
<1>4. desk'[d] = Nobody /\ \A e \in People \ {d} : desk'[e] = desk[e]
  BY <1>1, <1>2
<1>5. /\ \A e \in People : \A s : At(e, s)' => At(e, s) /\ e # d
      /\ \A e \in People \ {d} : At(e, "scrub") => At(e, "scrub")'
  BY <1>4 DEF At
<1>6. trace' \in [Bookings -> SUBSET All] /\ trace'[b] = {} /\ \A c \in Bookings \ {b} : trace'[c] = trace[c]
  BY <1>1, <1>2, <1>3 DEF Scrubbed
<1>7. GuestsTypeOK'
  <2>1. desk' \in [People -> DeskRow \cup {Nobody}]
    BY <1>1, <1>2
  <2> QED BY <1>2, <1>6, <2>1 DEF GuestsInv, GuestsTypeOK
<1>8. RowsAreWhole' /\ RipeIsOver' /\ NotesAreClean' /\ LiveGuestKnown'
  BY <1>2, <1>4, <1>5 DEF GuestsInv, RowsAreWhole, RipeIsOver, Over, NotesAreClean, LiveGuestKnown
<1>9. NoTraceIsLeft'
  <2> SUFFICES ASSUME NEW c \in Bookings, ~guest[c].name, c \notin late.trace,
                      \A e \in Officers : At(e, "scrub")' => desk'[e].of # c
               PROVE  ~guest[c].contact /\ c \notin note /\ trace'[c] = {}
    BY <1>2 DEF NoTraceIsLeft
  <2>1. CASE c = b
    BY <1>3, <1>6, <2>1 DEF GuestsInv, RowsAreWhole, Whole
  <2>2. CASE c # b
    <3>1. \A e \in Officers : At(e, "scrub") => desk[e].of # c
      BY <1>4, <1>5, <2>2 DEF People
    <3> QED BY <1>6, <2>2, <3>1 DEF GuestsInv, NoTraceIsLeft
  <2> QED BY <2>1, <2>2
<1> QED BY <1>7, <1>8, <1>9 DEF GuestsInv

\* A rule erases what it took for ripe, the journal with the row.
LEMMA ApplyKeeps == ASSUME GuestsInv, NEW m \in Machines, Apply(m) PROVE GuestsInv'
<1> DEFINE r == runner[m].rule
           ripe == runner[m].ripe
           kinds == Erases(r)
<1>1. /\ runner \in [Machines -> [rule : 0..3, ripe : SUBSET Bookings]] /\ note \subseteq Bookings
      /\ trace \in [Bookings -> SUBSET All]
  BY DEF GuestsInv, GuestsTypeOK
<1>2. /\ guest' = Forgotten(ripe, kinds) /\ trace' = Scrubbed(ripe, kinds)
      /\ note' = IF "name" \in kinds THEN note \ ripe ELSE note
      /\ runner' = [runner EXCEPT ![m] = [rule |-> IF r = 3 THEN 0 ELSE r, ripe |-> {}]]
      /\ UNCHANGED <<desk, late>>
  BY DEF Apply, Turn
<1>3. ripe \in SUBSET Bookings /\ (kinds = All \/ kinds = {"contact"})
  BY <1>1 DEF Erases
<1>4. /\ guest' \in [Bookings -> GuestRow]
      /\ \A b \in Bookings : Whole(guest'[b]) /\ guest'[b].status = guest[b].status
      /\ \A b \in ripe : ~guest'[b].contact /\ (guest'[b].name <=> guest[b].name /\ "name" \notin kinds)
      /\ \A b \in Bookings \ ripe : guest'[b] = guest[b]
  BY <1>2, <1>3, ForgottenRows
<1>5. /\ trace' \in [Bookings -> SUBSET All]
      /\ \A b \in Bookings : trace'[b] = IF b \in ripe THEN trace[b] \ kinds ELSE trace[b]
  BY <1>1, <1>2 DEF Scrubbed
<1>6. /\ runner' \in [Machines -> [rule : 0..3, ripe : SUBSET Bookings]]
      /\ \A n \in Machines : runner'[n].ripe \subseteq runner[n].ripe
  BY <1>1, <1>2
<1>7. GuestsTypeOK'
  BY <1>2, <1>4, <1>5, <1>6 DEF GuestsInv, GuestsTypeOK
<1>8. \A e, s : At(e, s)' <=> At(e, s)
  BY <1>2 DEF At
<1>9. RowsAreWhole'
  BY <1>2, <1>4, <1>8 DEF GuestsInv, RowsAreWhole
<1>10. \A b \in Bookings : Over(b) => Over(b)'
  BY <1>2, <1>4 DEF Over
<1>11. RipeIsOver'
  <2>1. ASSUME NEW e \in People, At(e, "erase") PROVE Over(desk[e].of)'
    <3>1. desk[e].of \in Bookings /\ Over(desk[e].of)
      BY <2>1 DEF At, DeskRow, GuestsInv, GuestsTypeOK, RipeIsOver
    <3> QED BY <1>2, <1>10, <3>1 DEF Over
  <2>2. ASSUME NEW n \in Machines, NEW b \in runner'[n].ripe PROVE Over(b)'
    BY <1>6, <1>10 DEF GuestsInv, GuestsTypeOK, RipeIsOver
  <2> QED BY <1>2, <1>8, <2>1, <2>2 DEF RipeIsOver, Over
<1>12. NotesAreClean'
  BY <1>2, <1>8 DEF GuestsInv, NotesAreClean
<1>13. LiveGuestKnown'
  <2> SUFFICES ASSUME NEW b \in Bookings, guest'[b].status = "live", ~guest'[b].name PROVE b \in late.name
    BY <1>2 DEF LiveGuestKnown
  <2>1. CASE b \in ripe
    BY <1>4, <2>1 DEF GuestsInv, RipeIsOver, Over
  <2>2. CASE b \notin ripe
    BY <1>4, <2>2 DEF GuestsInv, LiveGuestKnown
  <2> QED BY <2>1, <2>2
<1>14. NoTraceIsLeft'
  <2> SUFFICES ASSUME NEW b \in Bookings, ~guest'[b].name, b \notin late.trace,
                      \A e \in Officers : At(e, "scrub") => desk[e].of # b
               PROVE  ~guest'[b].contact /\ b \notin note' /\ trace'[b] = {}
    BY <1>2, <1>8 DEF NoTraceIsLeft
  <2>1. ~guest'[b].contact
    BY <1>4 DEF Whole
  <2>2. CASE ~guest[b].name
    <3>1. b \notin note /\ trace[b] = {}
      BY <2>2 DEF GuestsInv, NoTraceIsLeft
    <3> QED BY <1>2, <1>5, <2>1, <3>1
  <2>3. CASE guest[b].name
    <3>1. b \in ripe /\ "name" \in kinds
      BY <1>4, <2>3
    <3>2. kinds = All
      BY <1>3, <3>1
    <3>3. trace'[b] = {}
      BY <1>1, <1>5, <3>1, <3>2
    <3> QED BY <1>2, <2>1, <3>1, <3>3
  <2> QED BY <2>2, <2>3
<1> QED BY <1>7, <1>9, <1>11, <1>12, <1>13, <1>14 DEF GuestsInv

\* A process turns to a rule and takes for ripe what is over.
LEMMA RunnerMoves ==
  ASSUME GuestsInv, NEW m \in Machines, NEW r \in 0..3, NEW ripe \in SUBSET Bookings,
         \A b \in ripe : guest[b].status \in Finished,
         runner' = [runner EXCEPT ![m] = [rule |-> r, ripe |-> ripe]],
         UNCHANGED <<guest, note, trace, desk, late>>
  PROVE  GuestsInv'
<1>1. runner \in [Machines -> [rule : 0..3, ripe : SUBSET Bookings]]
  BY DEF GuestsInv, GuestsTypeOK
<1>2. /\ runner'[m].ripe = ripe /\ \A n \in Machines \ {m} : runner'[n] = runner[n]
      /\ runner' \in [Machines -> [rule : 0..3, ripe : SUBSET Bookings]]
  BY <1>1
<1>3. GuestsTypeOK'
  BY <1>2 DEF GuestsInv, GuestsTypeOK
<1>4. \A e, s : At(e, s)' <=> At(e, s)
  BY DEF At
<1>5. RipeIsOver'
  BY <1>2, <1>4 DEF GuestsInv, RipeIsOver, Over, Finished
<1>6. RowsAreWhole' /\ NotesAreClean' /\ LiveGuestKnown' /\ NoTraceIsLeft'
  BY <1>4 DEF GuestsInv, RowsAreWhole, NotesAreClean, LiveGuestKnown, NoTraceIsLeft
<1> QED BY <1>3, <1>5, <1>6 DEF GuestsInv

\* What a rule takes for ripe is over.
LEMMA RunsKeep ==
  ASSUME GuestsInv, NEW m \in Machines, TakeRipe(m) \/ RunEnds(m) \/ RunFails(m) PROVE GuestsInv'
<1>1. runner \in [Machines -> [rule : 0..3, ripe : SUBSET Bookings]]
  BY DEF GuestsInv, GuestsTypeOK
<1>2. UNCHANGED <<guest, note, trace, desk, late>>
  BY DEF TakeRipe, RunEnds, RunFails
<1>3. CASE TakeRipe(m)
  <2>1. PICK r \in runner[m].rule + 1..3 : runner' = [runner EXCEPT ![m] = [rule |-> r, ripe |-> Ripe(r)]]
    BY <1>3 DEF TakeRipe
  <2>2. r \in 0..3 /\ r \in 1..3
    BY <1>1
  <2>3. Ripe(r) \in SUBSET Bookings /\ \A b \in Ripe(r) : guest[b].status \in Finished
    BY <2>2 DEF Ripe, CancelledRipe, ContactsRipe, FolioNameRipe, Finished
  <2> QED BY <1>2, <2>1, <2>2, <2>3, RunnerMoves
<1>4. CASE RunEnds(m) \/ RunFails(m)
  <2>1. runner' = [runner EXCEPT ![m] = [rule |-> 0, ripe |-> {}]]
    BY <1>4 DEF RunEnds, RunFails, Turn
  <2>2. 0 \in 0..3 /\ {} \in SUBSET Bookings
    OBVIOUS
  <2> QED BY <1>2, <2>1, <2>2, RunnerMoves
<1> QED BY <1>3, <1>4

LEMMA GuestsNextKeeps == GuestsInv /\ [GuestsStep]_guestVars => GuestsInv'
<1> SUFFICES ASSUME GuestsInv, [GuestsStep]_guestVars PROVE GuestsInv'
  OBVIOUS
<1>1. ASSUME UNCHANGED <<guest, note, trace, desk, runner, late>> PROVE GuestsInv'
  BY <1>1 DEF GuestsInv, GuestsTypeOK, RowsAreWhole, Whole, RipeIsOver, Over, NotesAreClean, LiveGuestKnown,
              NoTraceIsLeft, At
<1>2. CASE DayPasses \/ UNCHANGED guestVars
  BY <1>1, <1>2 DEF DayPasses, guestVars
<1>3. ASSUME NEW d \in People, DeskStep(d) PROVE GuestsInv'
  BY <1>3, WriteKeeps, TellKeeps, EraseKeeps, ScrubKeeps DEF DeskStep
<1>4. ASSUME NEW d \in People, Close(d) \/ DeskFails(d) PROVE GuestsInv'
  BY <1>4, FormsMove
<1>5. ASSUME NEW d \in Officers, NEW b \in Bookings, Anonymize(d, b) PROVE GuestsInv'
  BY <1>5, FormsMove DEF People
<1>6. ASSUME NEW d \in Desks, NEW b \in Bookings, OpenForm(d, b) PROVE GuestsInv'
  BY <1>6, FormsMove DEF People
<1>7. ASSUME NEW d \in Desks, NEW status \in Finished \cup {"live"}, NEW edited \in Edits,
             BeginSave(d, status, edited)
      PROVE  GuestsInv'
  BY <1>7, FormsMove DEF People
<1>8. ASSUME NEW m \in Machines, RulesStep(m) \/ RunFails(m) PROVE GuestsInv'
  BY <1>8, ApplyKeeps, RunsKeep DEF RulesStep
<1> QED BY <1>2, <1>3, <1>4, <1>5, <1>6, <1>7, <1>8, PaymentKeeps DEF GuestsStep

LEMMA GuestsAlways == GuestsInit /\ [][GuestsStep]_guestVars => []GuestsInv
BY GuestsStart, GuestsNextKeeps, PTL

\* A guest who is expected or in the house has a name (anonymize refuses a live
\* booking), unless the booking was put back across an erasure or after it.
THEOREM GuestInHouseIsKnown == GuestsInit /\ [][GuestsStep]_guestVars => []LiveGuestKnown
<1>1. GuestsInv => LiveGuestKnown
  BY DEF GuestsInv
<1> QED BY <1>1, GuestsAlways, PTL

\* Whoever erases a guest, and whatever is saved and paid meanwhile: the row, the
\* notes and the journal forget him together (anonymize, runRetention), but for
\* what was written late or cut off between the row and the journal.
THEOREM ForgottenEverywhere == GuestsInit /\ [][GuestsStep]_guestVars => []NoTraceIsLeft
<1>1. GuestsInv => NoTraceIsLeft
  BY DEF GuestsInv
<1> QED BY <1>1, GuestsAlways, PTL
=============================================================================
