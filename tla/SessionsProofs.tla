--------------------------- MODULE SessionsProofs ---------------------------
(***************************************************************************)
(* The dispatcher's desk.  A dispatcher who was switched off is out, and a *)
(* tab in which a hotel was entered stays there: for any number of people, *)
(* hotels, tabs and requests, however many tokens were issued.  What the   *)
(* chessboard shows and is confirmed is done: for any bookings, rooms and  *)
(* desks.                                                                  *)
(***************************************************************************)
EXTENDS Sessions, Chessboard, RoomPlacesProofs, SequenceTheorems

-----------------------------------------------------------------------------
(* Tokens *)

LEMMA SessionsOf ==
  /\ \A u \in Users : Own(u) \in Session /\ ~OnBehalf(Own(u))
  /\ \A h \in Hotels, u \in Users : Inside(h, u) \in Session /\ OnBehalf(Inside(h, u))
  /\ \A s \in Session : s # None /\ s.sub \in Users /\ s.tid \in Hotels \cup {None} /\ s.imp \in Users \cup {None}
BY SessionsAssumption, NoneAssumption DEF Own, Inside, Session, OnBehalf

LEMMA TokensOf ==
  /\ \A x \in Token : x # None /\ x.ses \in Session /\ x.n \in Nat
  /\ \A s \in Session, n \in Nat : [ses |-> s, n |-> n] \in Token
  /\ SesOf(None) = None /\ \A x \in Token : SesOf(x) = x.ses
BY NoneAssumption DEF Token, SesOf

LEMMA PathsOf == ASSUME NEW s \in Session \cup {None}, s # None /\ OnBehalf(s) => s.tid \in Hotels
                 PROVE  Path(s) \in Paths
BY DEF Path, Paths, General

LEMMA RowsAre ==
  ASSUME rows \in Seq(Row)
  PROVE  /\ Len(rows) \in Nat /\ DOMAIN rows = 1..Len(rows)
         /\ \A n \in 1..Len(rows) : rows[n] \in Row
BY LenProperties, ElementOfSeq

LEMMA RowDies ==
  ASSUME rows \in Seq(Row), NEW n \in 1..Len(rows), rows' = [rows EXCEPT ![n].live = FALSE]
  PROVE  /\ rows' \in Seq(Row) /\ Len(rows') = Len(rows)
         /\ \A k \in 1..Len(rows) : /\ rows'[k].ses = rows[k].ses /\ rows'[k].crossed = rows[k].crossed
                                    /\ rows'[k].live => rows[k].live
<1> DEFINE x == [rows[n] EXCEPT !.live = FALSE]
<1>1. rows[n] \in Row
  BY RowsAre
<1>2. x \in Row /\ x.ses = rows[n].ses /\ x.crossed = rows[n].crossed /\ ~x.live
  BY <1>1 DEF Row
<1>3. rows' = [rows EXCEPT ![n] = x]
  OBVIOUS
<1> HIDE DEF x
<1>4. /\ rows' \in Seq(Row) /\ Len(rows') = Len(rows)
      /\ \A k \in 1..Len(rows) : rows'[k] = IF k = n THEN x ELSE rows[k]
  <2>1. x \in Row
    BY <1>2
  <2>2. ASSUME NEW s, s = [rows EXCEPT ![n] = x]
        PROVE  /\ s \in Seq(Row) /\ Len(s) = Len(rows)
               /\ \A k \in 1..Len(rows) : s[k] = IF k = n THEN x ELSE rows[k]
    BY ONLY <2>1, <2>2, rows \in Seq(Row), n \in 1..Len(rows), ExceptSeq
  <2> QED BY ONLY <2>2, <1>3
<1>5. ASSUME NEW k \in 1..Len(rows)
      PROVE  /\ rows'[k].ses = rows[k].ses /\ rows'[k].crossed = rows[k].crossed
             /\ rows'[k].live => rows[k].live
  <2>1. CASE k = n
    BY <1>2, <1>4, <2>1
  <2>2. CASE k # n
    BY <1>4, <2>2
  <2> QED BY <2>1, <2>2
<1> QED BY <1>4, <1>5

LEMMA RowComes ==
  ASSUME rows \in Seq(Row), NEW x \in Row, rows' = Append(rows, x)
  PROVE  /\ rows' \in Seq(Row) /\ Len(rows') = Len(rows) + 1
         /\ \A k \in 1..Len(rows) : rows'[k] = rows[k]
         /\ rows'[Len(rows) + 1] = x
BY RowsAre

LEMMA RowsOfOneDie ==
  ASSUME rows \in Seq(Row), NEW d \in Users,
         rows' = [n \in DOMAIN rows |-> IF rows[n].ses.sub = d THEN [rows[n] EXCEPT !.live = FALSE] ELSE rows[n]]
  PROVE  /\ rows' \in Seq(Row) /\ Len(rows') = Len(rows)
         /\ \A k \in 1..Len(rows) : /\ rows'[k].ses = rows[k].ses /\ rows'[k].crossed = rows[k].crossed
                                    /\ rows'[k].live => rows[k].live /\ rows[k].ses.sub # d
<1> DEFINE y(n) == IF rows[n].ses.sub = d THEN [rows[n] EXCEPT !.live = FALSE] ELSE rows[n]
<1>1. \A n \in 1..Len(rows) : rows[n] \in Row
  BY RowsAre
<1>2. \A n \in 1..Len(rows) : /\ y(n) \in Row /\ y(n).ses = rows[n].ses /\ y(n).crossed = rows[n].crossed
                              /\ y(n).live => rows[n].live /\ rows[n].ses.sub # d
  BY <1>1 DEF Row
<1>3. rows' = [n \in 1..Len(rows) |-> y(n)]
  BY RowsAre
<1> HIDE DEF y
<1>4. rows' \in Seq(Row) /\ Len(rows') = Len(rows)
  <2>1. Len(rows) \in Nat /\ rows' \in [1..Len(rows) -> Row]
    <3>1. Len(rows) \in Nat
      BY RowsAre
    <3>2. \A n \in 1..Len(rows) : y(n) \in Row
      BY <1>2
    <3> QED BY ONLY <3>1, <3>2, <1>3
  <2>2. rows' \in Seq(Row)
    BY <2>1, SeqDef
  <2>3. Len(rows') \in Nat /\ 1..Len(rows') = 1..Len(rows)
    BY <2>1, <2>2, LenProperties
  <2> QED BY <2>1, <2>2, <2>3
<1>5. \A k \in 1..Len(rows) : rows'[k] = y(k)
  BY <1>3
<1> QED BY <1>2, <1>4, <1>5
-----------------------------------------------------------------------------
(* What a step may do *)

\* Inductive: the types, what is in hand, and whose tokens are out.
Sound == SessionsInv /\ DeactivatedIsOut

\* What a row and a request owe a dispatcher who was switched off.
RowOut(x) == x.ses.sub \in Dispatchers /\ ~active[x.ses.sub] /\ x.live => x.crossed
JobOut(r) == r.ses # None /\ r.ses.sub \in Dispatchers /\ ~active[r.ses.sub] /\ Beyond(r) => r.crossed

\* What may become of the session of a page, entered and worked under.
Works(r) == SesOf(Memory(r))
Keeps(r, p) ==
  \/ p.entered = r.entered /\ Works(p) = Works(r)
  \/ Works(p) \in Session /\ p.entered = Works(p)
  \/ Works(p) = None /\ p.entered \in {None, r.entered}
  \/ Works(r) = None /\ Works(p) = r.entered /\ p.entered = r.entered
  \/ /\ Works(r) = None /\ Works(p) \in Session
     /\ ~(r.entered \in Session /\ OnBehalf(r.entered))
     /\ p.entered \in {r.entered, Works(p)}

TabsKeep ==
  \/ UNCHANGED tab
  \/ \E t \in Tabs, p \in Page : tab' = [tab EXCEPT ![t] = p] /\ Keeps(tab[t], p)

LEMMA OutIs ==
  ASSUME TypeOK
  PROVE  DeactivatedIsOut <=> /\ \A n \in 1..Len(rows) : RowOut(rows[n])
                              /\ \A j \in Jobs : JobOut(job[j])
BY RowsAre DEF TypeOK, DeactivatedIsOut, RowOut, JobOut

LEMMA IdleIs == Idle \in Request /\ \A k : Idle.ses = None /\ Idle.kind = "idle" /\ Idle.row = 0 /\ Idle.tab = None
BY DEF Idle, Request, Paths, General

\* Requests change, pages do not.
LEMMA JobsMove ==
  ASSUME Sound, NEW f \in [Jobs -> Request], job' = f,
         rows' \in Seq(Row), Len(rows') >= Len(rows), \A n \in 1..Len(rows') : RowOut(rows'[n]),
         cookie' = cookie \/ cookie' \in [Paths -> 0..Len(rows')],
         UNCHANGED <<active, open, tab>>, codes' \in SUBSET Session, trouble' \in Nat,
         \A k \in Jobs : f[k] = job[k] \/ (InHand(f[k])' /\ JobOut(f[k]))
  PROVE  Sound' /\ TabsKeep
<1>1. TypeOK'
  <2>1. cookie' \in [Paths -> 0..Len(rows')]
    <3>1. Len(rows) \in Nat /\ Len(rows') \in Nat /\ 0..Len(rows) \subseteq 0..Len(rows')
      BY LenProperties DEF Sound, SessionsInv, TypeOK
    <3> QED BY <3>1 DEF Sound, SessionsInv, TypeOK
  <2> QED BY <2>1 DEF Sound, SessionsInv, TypeOK
<1>2. ASSUME NEW k \in Jobs, f[k] = job[k]
      PROVE  InHand(f[k])' /\ JobOut(f[k])
  <2>1. InHand(f[k]) /\ JobOut(f[k])
    BY <1>2, OutIs DEF Sound, SessionsInv
  <2>2. f[k].row \in Nat /\ Len(rows) \in Nat /\ Len(rows') \in Nat
    BY LenProperties DEF Request, Sound, SessionsInv, TypeOK
  <2> QED BY <2>1, <2>2 DEF InHand
<1>3. \A k \in Jobs : InHand(f[k])' /\ JobOut(f[k])
  BY <1>2
<1>4. \A k \in Jobs : InHand(job[k])' /\ JobOut(job[k])'
  BY <1>3 DEF JobOut, InHand
<1>5. \A n \in 1..Len(rows)' : RowOut(rows[n])'
  BY DEF RowOut
<1>6. (DeactivatedIsOut <=> /\ \A n \in 1..Len(rows) : RowOut(rows[n])
                           /\ \A j \in Jobs : JobOut(job[j]))'
  BY <1>1, OutIs, PTL
<1>7. \A t \in Tabs : HotelInHand(tab[t])'
  BY DEF Sound, SessionsInv, HotelInHand
<1> QED BY <1>1, <1>4, <1>5, <1>6, <1>7 DEF Sound, SessionsInv, TabsKeep

\* One request moves on.
LEMMA JobMoves ==
  ASSUME Sound, NEW j \in Jobs, NEW r \in Request, job' = [job EXCEPT ![j] = r],
         rows' \in Seq(Row), Len(rows') >= Len(rows), \A n \in 1..Len(rows') : RowOut(rows'[n]),
         cookie' = cookie \/ cookie' \in [Paths -> 0..Len(rows')],
         UNCHANGED <<active, open, tab>>, codes' \in SUBSET Session, trouble' \in Nat,
         InHand(r)', JobOut(r)
  PROVE  Sound' /\ TabsKeep
<1>1. job \in [Jobs -> Request]
  BY DEF Sound, SessionsInv, TypeOK
<1> DEFINE f == [job EXCEPT ![j] = r]
<1>2. f \in [Jobs -> Request] /\ f[j] = r /\ \A k \in Jobs \ {j} : f[k] = job[k]
  BY <1>1
<1>3. \A k \in Jobs : f[k] = job[k] \/ f[k] = r
  BY <1>2
<1>4. ASSUME NEW g \in [Jobs -> Request], g = f
      PROVE  Sound' /\ TabsKeep
  <2>1. \A k \in Jobs : g[k] = job[k] \/ g[k] = r
    BY <1>3, <1>4
  <2>2. \A k \in Jobs : g[k] = job[k] \/ (InHand(g[k])' /\ JobOut(g[k]))
    <3>1. ASSUME NEW k \in Jobs, g[k] = r
          PROVE  InHand(g[k])' /\ JobOut(g[k])
      BY <3>1 DEF InHand, JobOut
    <3> QED BY <2>1, <3>1
  <2>3. job' = g
    BY <1>4
  <2> HIDE DEF f
  <2> QED BY <2>2, <2>3, JobsMove
<1> QED BY <1>2, <1>4

LEMMA RowsSame ==
  ASSUME Sound, UNCHANGED rows
  PROVE  rows' \in Seq(Row) /\ Len(rows') >= Len(rows) /\ \A n \in 1..Len(rows') : RowOut(rows'[n])
<1>1. Len(rows) \in Nat
  BY LenProperties DEF Sound, SessionsInv, TypeOK
<1> QED BY <1>1, OutIs DEF Sound, SessionsInv, TypeOK

\* What may become of the requests when the page of the tab t becomes p: each stays, loses
\* its tab, or is as it should be and has no session to owe anything for.
Turns(t, p, f) ==
  \A k \in Jobs : \/ f[k] = job[k] /\ (p.screen = "sso" => tab[t].screen = "sso" \/ job[k].tab # t)
                  \/ f[k] = [job[k] EXCEPT !.tab = None]
                  \/ InHand(f[k])' /\ (f[k].ses # None => ~Beyond(f[k]))

\* A page changes, and the requests with it.
LEMMA PageMoves ==
  ASSUME Sound, NEW t \in Tabs, NEW p \in Page, tab' = [tab EXCEPT ![t] = p],
         HotelInHand(p), Keeps(tab[t], p),
         NEW f \in [Jobs -> Request], job' = f,
         UNCHANGED <<rows, active, open>>, codes' \in SUBSET Session,
         cookie' \in [Paths -> 0..Len(rows)], trouble' \in Nat,
         Turns(t, p, f)
  PROVE  Sound' /\ TabsKeep
<1>1. tab' \in [Tabs -> Page] /\ tab'[t] = p /\ \A q \in Tabs \ {t} : tab'[q] = tab[q]
  BY DEF Sound, SessionsInv, TypeOK
<1>2. TypeOK'
  BY <1>1 DEF Sound, SessionsInv, TypeOK
<1>3. \A q \in Tabs : HotelInHand(tab[q])'
  BY <1>1 DEF Sound, SessionsInv, HotelInHand
<1>4. ASSUME NEW k \in Jobs
      PROVE  InHand(f[k])' /\ JobOut(f[k])
  <2>0. InHand(job[k]) /\ JobOut(job[k]) /\ job[k] \in Request
    BY OutIs DEF Sound, SessionsInv, TypeOK
  <2>1. CASE f[k] = job[k] /\ (p.screen = "sso" => tab[t].screen = "sso" \/ job[k].tab # t)
    <3>1. job[k].tab # None => job[k].tab \in Tabs
      BY <2>0 DEF Request
    <3>2. job[k].tab # None /\ tab[job[k].tab].screen # "sso" => tab'[job[k].tab].screen # "sso"
      BY <1>1, <2>1, <3>1
    <3> QED BY <2>0, <2>1, <3>2 DEF InHand
  <2>2. CASE f[k] = [job[k] EXCEPT !.tab = None]
    <3>1. /\ f[k].tab = None /\ f[k].row = job[k].row /\ f[k].kind = job[k].kind
          /\ f[k].stage = job[k].stage /\ f[k].ses = job[k].ses /\ f[k].path = job[k].path
          /\ f[k].held = job[k].held /\ f[k].crossed = job[k].crossed
      BY <2>0, <2>2 DEF Request
    <3>2. JobOut(f[k])
      BY <2>0, <3>1 DEF JobOut, Beyond
    <3>3. InHand(f[k])'
      BY <2>0, <3>1 DEF InHand
    <3> QED BY <3>2, <3>3
  <2>3. CASE InHand(f[k])' /\ (f[k].ses # None => ~Beyond(f[k]))
    BY <2>3 DEF JobOut
  <2> QED BY <2>1, <2>2, <2>3 DEF Turns
<1>5. (\A k \in Jobs : InHand(job[k])') /\ (\A k \in Jobs : JobOut(job[k])')
  BY <1>4 DEF JobOut, InHand
<1>6. \A n \in 1..Len(rows)' : RowOut(rows[n])'
  BY RowsSame DEF RowOut
<1>7. (DeactivatedIsOut <=> /\ \A n \in 1..Len(rows) : RowOut(rows[n])
                           /\ \A j \in Jobs : JobOut(job[j]))'
  BY <1>2, OutIs, PTL
<1> QED BY <1>2, <1>3, <1>5, <1>6, <1>7 DEF Sound, SessionsInv, TabsKeep

-----------------------------------------------------------------------------
(* The service *)

LEMMA RequestIs ==
  ASSUME Sound, NEW j \in Jobs
  PROVE  job[j] \in Request /\ InHand(job[j]) /\ JobOut(job[j])
BY OutIs DEF Sound, SessionsInv, TypeOK

\* A request comes to its next stage.
LEMMA StageMoves ==
  ASSUME Sound, NEW j \in Jobs,
         NEW stage \in {"sent", "taken", "cleared", "issued", "refused", "failed"},
         job' = [job EXCEPT ![j].stage = stage],
         rows' \in Seq(Row), Len(rows') >= Len(rows), \A n \in 1..Len(rows') : RowOut(rows'[n]),
         UNCHANGED <<cookie, active, open, tab>>, codes' \in SUBSET Session, trouble' \in Nat,
         job[j].kind # "idle", job[j].kind = "logout" => stage \in {"issued", "refused", "failed"},
         stage \in {"taken", "cleared", "issued"} => job[j].ses # None \/ job[j].kind = "logout",
         stage = "cleared" /\ job[j].ses # None /\ job[j].ses.sub \in Dispatchers
           => active[job[j].ses.sub] \/ Beyond(job[j])
  PROVE  Sound' /\ TabsKeep
<1>1. job[j] \in Request /\ InHand(job[j]) /\ JobOut(job[j])
  BY RequestIs
<1>2. ASSUME NEW r, r = [job[j] EXCEPT !.stage = stage]
      PROVE  Sound' /\ TabsKeep
  <2>1. /\ r \in Request /\ r.stage = stage /\ r.kind = job[j].kind /\ r.tab = job[j].tab /\ r.path = job[j].path
        /\ r.ses = job[j].ses /\ r.row = job[j].row /\ r.held = job[j].held /\ r.crossed = job[j].crossed
    BY <1>1, <1>2 DEF Request
  <2>2. JobOut(r)
    BY <1>1, <2>1 DEF JobOut, Beyond
  <2>3. r.row <= Len(rows')
    <3>1. job[j].row \in Nat /\ Len(rows) \in Nat /\ Len(rows') \in Nat
      BY <1>1, LenProperties DEF Request, Sound, SessionsInv, TypeOK
    <3> QED BY <3>1, <1>1, <2>1 DEF InHand
  <2>4. InHand(r)'
    BY <1>1, <2>1, <2>3 DEF InHand
  <2>5. job' = [job EXCEPT ![j] = r]
    BY <1>2
  <2> QED BY <2>1, <2>2, <2>4, <2>5, JobMoves
<1> QED BY <1>2

LEMMA LookUpKeeps ==
  ASSUME Sound, NEW j \in Jobs, LookUp(j), trouble' \in Nat PROVE Sound' /\ TabsKeep
<1>1. job[j] \in Request /\ InHand(job[j]) /\ JobOut(job[j]) /\ job[j].kind = "refresh"
  BY RequestIs DEF LookUp
<1>2. \A n \in 1..Len(rows) : rows[n] \in Row /\ rows[n].ses \in Session
  BY RowsAre DEF Sound, SessionsInv, TypeOK, Row
<1> DEFINE n == job[j].row
           good == n > 0 /\ rows[n].live /\ OwnCookie(job[j].path, rows[n].ses) /\ active[rows[n].ses.sub]
<1>3. good => n \in 1..Len(rows) /\ rows[n].ses \in Session /\ rows[n].ses # None
  <2>1. n \in Nat /\ Len(rows) \in Nat /\ n <= Len(rows)
    BY <1>1, LenProperties DEF InHand, Request, Sound, SessionsInv, TypeOK
  <2> QED BY <2>1, <1>2, NoneAssumption
<1>4. ASSUME NEW r, r = [job[j] EXCEPT !.stage = IF good THEN "looked" ELSE "refused",
                                       !.ses = IF good THEN rows[n].ses ELSE None]
      PROVE  Sound' /\ TabsKeep
  <2>1. /\ r \in Request /\ r.kind = "refresh" /\ r.tab = job[j].tab /\ r.path = job[j].path
        /\ r.row = n /\ r.held = job[j].held /\ r.crossed = job[j].crossed
        /\ r.stage = IF good THEN "looked" ELSE "refused"
        /\ r.ses = IF good THEN rows[n].ses ELSE None
    <3>1. (IF good THEN rows[n].ses ELSE None) \in Session \cup {None}
      BY <1>3
    <3> HIDE DEF good
    <3> QED BY <1>1, <1>4, <3>1 DEF Request
  <2>2. JobOut(r)
    BY <2>1 DEF JobOut, Beyond
  <2>3. InHand(r)'
    <3>1. good => r.ses # None /\ r.row > 0 /\ OwnCookie(r.path, r.ses)
      BY <2>1, <1>3
    <3>2. r.row <= Len(rows)' /\ UNCHANGED tab
      BY <1>1, <2>1 DEF InHand, LookUp
    <3> HIDE DEF good
    <3> QED BY <1>1, <2>1, <3>1, <3>2 DEF InHand
  <2>4. job' = [job EXCEPT ![j] = r]
    BY <1>4 DEF LookUp
  <2>5. UNCHANGED <<rows, cookie, active, open, tab>> /\ codes' \in SUBSET Session
    BY DEF LookUp, Sound, SessionsInv, TypeOK
  <2> QED BY <2>1, <2>2, <2>3, <2>4, <2>5, RowsSame, JobMoves
<1> QED BY <1>4

\* Rows of which some die.
LEMMA RowsThatDie ==
  ASSUME Sound, UNCHANGED active, rows' \in Seq(Row), Len(rows') = Len(rows),
         \A k \in 1..Len(rows) : /\ rows'[k].ses = rows[k].ses /\ rows'[k].crossed = rows[k].crossed
                                 /\ rows'[k].live => rows[k].live
  PROVE  Len(rows') >= Len(rows) /\ \A n \in 1..Len(rows') : RowOut(rows'[n])
<1>1. Len(rows) \in Nat /\ \A n \in 1..Len(rows) : RowOut(rows[n])
  BY OutIs, LenProperties DEF Sound, SessionsInv, TypeOK
<1> QED BY <1>1 DEF RowOut

LEMMA RevokeKeeps ==
  ASSUME Sound, NEW j \in Jobs, trouble' \in Nat, Revoke(j) \/ RevokeOnLogout(j) PROVE Sound' /\ TabsKeep
<1>1. job[j] \in Request /\ InHand(job[j]) /\ JobOut(job[j])
  BY RequestIs
<1>2. rows \in Seq(Row) /\ Len(rows) \in Nat /\ job[j].row \in Nat /\ job[j].row <= Len(rows)
  BY <1>1, LenProperties DEF InHand, Request, Sound, SessionsInv, TypeOK
<1>3. UNCHANGED <<cookie, active, open, tab>> /\ codes' \in SUBSET Session
  BY DEF Revoke, RevokeOnLogout, Sound, SessionsInv, TypeOK
<1>4. CASE Revoke(j)
  <2>1. job[j].row \in 1..Len(rows) /\ rows' = [rows EXCEPT ![job[j].row].live = FALSE]
    BY <1>1, <1>2, <1>4 DEF Revoke, InHand
  <2>2. ASSUME NEW n \in 1..Len(rows), n = job[j].row
        PROVE  rows' \in Seq(Row) /\ Len(rows') >= Len(rows) /\ \A k \in 1..Len(rows') : RowOut(rows'[k])
    <3>1. rows' = [rows EXCEPT ![n].live = FALSE]
      BY <2>1, <2>2
    <3> QED BY <3>1, <1>2, <1>3, RowDies, RowsThatDie
  <2>3. ASSUME NEW stage \in {"taken", "cleared"}, stage = IF OnBehalf(job[j].ses) THEN "taken" ELSE "cleared"
        PROVE  Sound' /\ TabsKeep
    <3>1. job' = [job EXCEPT ![j].stage = stage] /\ job[j].kind = "refresh" /\ job[j].stage = "looked"
      BY <1>4, <2>3 DEF Revoke, To
    <3>2. job[j].ses # None /\ (stage = "cleared" => Beyond(job[j]))
      BY <1>1, <2>3, <3>1 DEF InHand, Beyond
    <3> QED BY <1>3, <2>1, <2>2, <3>1, <3>2, StageMoves
  <2> QED BY <2>3
<1>5. CASE RevokeOnLogout(j)
  <2>1. rows' \in Seq(Row) /\ Len(rows') >= Len(rows) /\ \A k \in 1..Len(rows') : RowOut(rows'[k])
    <3>1. CASE job[j].row = 0
      BY <1>5, <3>1, RowsSame DEF RevokeOnLogout
    <3>2. CASE job[j].row # 0
      <4>1. ASSUME NEW n \in 1..Len(rows), n = job[j].row
            PROVE  rows' \in Seq(Row) /\ Len(rows') >= Len(rows) /\ \A k \in 1..Len(rows') : RowOut(rows'[k])
        <5>1. rows' = [rows EXCEPT ![n].live = FALSE]
          BY <1>5, <3>2, <4>1 DEF RevokeOnLogout
        <5> QED BY <5>1, <1>2, <1>3, RowDies, RowsThatDie
      <4> QED BY <4>1, <1>2, <3>2
    <3> QED BY <3>1, <3>2
  <2>2. job' = [job EXCEPT ![j].stage = "issued"] /\ job[j].kind = "logout"
    BY <1>5 DEF RevokeOnLogout, To
  <2> QED BY <1>3, <2>1, <2>2, StageMoves
<1> QED BY <1>4, <1>5

LEMMA StepsKeep ==
  ASSUME Sound, NEW j \in Jobs, trouble' \in Nat, TakeCode(j) \/ Resolve(j) \/ Breaks(j) PROVE Sound' /\ TabsKeep
<1>1. job[j] \in Request /\ InHand(job[j]) /\ JobOut(job[j])
  BY RequestIs
<1>2. UNCHANGED <<rows, cookie, active, open, tab>> /\ codes' \in SUBSET Session
  BY DEF TakeCode, Resolve, Breaks, Sound, SessionsInv, TypeOK
<1>3. rows' \in Seq(Row) /\ Len(rows') >= Len(rows) /\ \A n \in 1..Len(rows') : RowOut(rows'[n])
  BY <1>2, RowsSame
<1>4. CASE TakeCode(j)
  <2>1. ASSUME NEW stage \in {"taken", "refused"}, stage = IF job[j].ses \in codes THEN "taken" ELSE "refused"
        PROVE  Sound' /\ TabsKeep
    <3>1. job' = [job EXCEPT ![j].stage = stage] /\ job[j].kind = "exchange"
      BY <1>4, <2>1 DEF TakeCode, To
    <3>2. job[j].ses # None
      BY <1>1, <3>1 DEF InHand
    <3> QED BY <1>2, <1>3, <3>1, <3>2, StageMoves
  <2> QED BY <2>1
<1>5. CASE Resolve(j)
  <2>1. job[j].kind # "idle" /\ job[j].kind # "logout" /\ job[j].ses # None
    BY <1>1, <1>5 DEF Resolve, InHand, Request
  <2>2. PICK stage \in {"cleared", "refused"} :
          job' = [job EXCEPT ![j].stage = stage] /\ (stage = "cleared" => active[job[j].ses.sub])
    BY <1>5 DEF Resolve, To, Standing
  <2> QED BY <1>2, <1>3, <2>1, <2>2, StageMoves
<1>6. CASE Breaks(j)
  <2>1. job' = [job EXCEPT ![j].stage = "refused"] /\ job[j].kind # "idle"
    BY <1>6 DEF Breaks, To
  <2> QED BY <1>2, <1>3, <2>1, StageMoves
<1> QED BY <1>4, <1>5, <1>6

LEMMA IssueKeeps ==
  ASSUME Sound, NEW j \in Jobs, trouble' \in Nat, Issue(j) PROVE Sound' /\ TabsKeep
<1>1. job[j] \in Request /\ InHand(job[j]) /\ JobOut(job[j]) /\ job[j].stage = "cleared"
  BY RequestIs DEF Issue
<1>2. UNCHANGED <<cookie, active, open, tab>> /\ codes' \in SUBSET Session
  BY DEF Issue, Sound, SessionsInv, TypeOK
<1>3. job[j].kind # "idle" /\ job[j].kind # "logout" /\ job[j].ses # None /\ job[j].ses \in Session
  BY <1>1 DEF InHand, Request
<1>4. CASE job[j].kind = "enter"
  <2>1. UNCHANGED rows /\ job' = [job EXCEPT ![j].stage = "issued"]
    BY <1>4 DEF Issue, To
  <2> QED BY <1>2, <1>3, <1>4, <2>1, RowsSame, StageMoves
<1>5. CASE job[j].kind # "enter"
  <2>1. PICK x : x = [ses |-> job[j].ses, live |-> TRUE, crossed |-> job[j].crossed]
    OBVIOUS
  <2>2. x \in Row /\ RowOut(x)
    BY <1>1, <1>3, <2>1 DEF Row, RowOut, Request, JobOut, Beyond
  <2>3. rows \in Seq(Row) /\ Len(rows) \in Nat /\ \A n \in 1..Len(rows) : RowOut(rows[n])
    BY OutIs, LenProperties DEF Sound, SessionsInv, TypeOK
  <2>4. rows' = Append(rows, x)
    BY <1>5, <2>1 DEF Issue
  <2>5. /\ rows' \in Seq(Row) /\ Len(rows') = Len(rows) + 1
        /\ \A k \in 1..Len(rows) : rows'[k] = rows[k]
        /\ rows'[Len(rows) + 1] = x
    BY <2>2, <2>3, <2>4, RowComes
  <2>6. rows' \in Seq(Row) /\ Len(rows') >= Len(rows) /\ \A n \in 1..Len(rows') : RowOut(rows'[n])
    <3>1. \A n \in 1..Len(rows') : n \in 1..Len(rows) \/ n = Len(rows) + 1
      BY <2>3, <2>5
    <3> QED BY <2>2, <2>3, <2>5, <3>1
  <2>7. ASSUME NEW n \in Nat, n = Len(rows) + 1, NEW r, r = [job[j] EXCEPT !.stage = "issued", !.row = n]
        PROVE  Sound' /\ TabsKeep
    <3>1. /\ r \in Request /\ r.stage = "issued" /\ r.kind = job[j].kind /\ r.tab = job[j].tab /\ r.path = job[j].path
          /\ r.ses = job[j].ses /\ r.row = n /\ r.held = job[j].held /\ r.crossed = job[j].crossed
      BY ONLY <1>1, r = [job[j] EXCEPT !.stage = "issued", !.row = n], n \in Nat DEF Request
    <3>2. JobOut(r)
      BY <3>1 DEF JobOut, Beyond
    <3>3. r.row <= Len(rows')
      BY <2>3, <2>5, <2>7, <3>1
    <3>4. InHand(r)'
      BY <1>1, <1>2, <1>3, <3>1, <3>3 DEF InHand
    <3>5. job' = [job EXCEPT ![j] = r]
      <4>1. job' = [job EXCEPT ![j] = [job[j] EXCEPT !.stage = "issued", !.row = Len(rows) + 1]]
        BY <1>5 DEF Issue
      <4> QED BY ONLY <4>1, <2>7
    <3>6. r \in Request
      BY <3>1
    <3> QED BY <1>2, <2>6, <3>2, <3>4, <3>5, <3>6, JobMoves
  <2>8. Len(rows) + 1 \in Nat
    BY <2>3
  <2> QED BY ONLY <2>7, <2>8
<1> QED BY <1>4, <1>5

LEMMA RestartKeeps ==
  ASSUME Sound, trouble' \in Nat, Restart PROVE Sound' /\ TabsKeep
<1>1. ASSUME NEW f, f = [j \in Jobs |-> IF job[j].kind # "idle" THEN [job[j] EXCEPT !.stage = "failed"] ELSE job[j]]
      PROVE  Sound' /\ TabsKeep
  <2>1. ASSUME NEW k \in Jobs
        PROVE  f[k] \in Request /\ (f[k] = job[k] \/ (InHand(f[k])' /\ JobOut(f[k])))
    <3>1. job[k] \in Request /\ InHand(job[k])
      BY RequestIs
    <3>2. CASE job[k].kind = "idle"
      BY <1>1, <3>1, <3>2
    <3>3. CASE job[k].kind # "idle"
      <4>1. f[k] = [job[k] EXCEPT !.stage = "failed"]
        BY <1>1, <3>3
      <4>2. /\ f[k] \in Request /\ f[k].stage = "failed" /\ f[k].kind = job[k].kind /\ f[k].tab = job[k].tab
            /\ f[k].path = job[k].path /\ f[k].ses = job[k].ses /\ f[k].row = job[k].row /\ f[k].held = job[k].held
        BY <3>1, <4>1 DEF Request
      <4>3. JobOut(f[k])
        BY <4>2 DEF JobOut, Beyond
      <4>4. InHand(f[k])'
        BY <3>1, <3>3, <4>2 DEF InHand, Restart
      <4> QED BY <4>2, <4>3, <4>4
    <3> QED BY <3>2, <3>3
  <2>2. f \in [Jobs -> Request]
    BY <1>1, <2>1
  <2>3. job' = f /\ UNCHANGED <<rows, cookie, active, open, tab>> /\ codes' \in SUBSET Session
    BY <1>1 DEF Restart
  <2> QED BY <2>1, <2>2, <2>3, RowsSame, JobsMove
<1> QED BY <1>1

-----------------------------------------------------------------------------
(* The pages *)

LEMMA PageIs ==
  ASSUME Sound, NEW t \in Tabs
  PROVE  tab[t] \in Page /\ HotelInHand(tab[t]) /\ Keeps(tab[t], tab[t])
BY DEF Sound, SessionsInv, TypeOK, Keeps

LEMMA FormsOfPages ==
  ASSUME NEW r \in Page
  PROVE  /\ \A x \in Token \cup {None} :
              /\ Holding(r, x) \in Page /\ Holding(r, x).token = x
              /\ Holding(r, x).entered = r.entered /\ Holding(r, x).screen = r.screen
         /\ \A screen \in {"loading", "out", "sso", "in", "stopped"} :
              /\ [r EXCEPT !.screen = screen] \in Page
              /\ Loaded(r, screen) \in Page /\ Loaded(r, screen).token = r.token /\ Loaded(r, screen).screen = screen
              /\ Loaded(r, screen).entered = IF r.token = None THEN None ELSE r.entered
         /\ \A k \in Jobs \cup {None} : [r EXCEPT !.busy = k] \in Page /\ [r EXCEPT !.renews = k] \in Page
<1>1. ASSUME NEW x \in Token \cup {None}
      PROVE  /\ Holding(r, x) \in Page /\ Holding(r, x).token = x
             /\ Holding(r, x).entered = r.entered /\ Holding(r, x).screen = r.screen
  BY DEF Page, Holding
<1>2. ASSUME NEW screen \in {"loading", "out", "sso", "in", "stopped"}
      PROVE  /\ [r EXCEPT !.screen = screen] \in Page
             /\ Loaded(r, screen) \in Page /\ Loaded(r, screen).token = r.token /\ Loaded(r, screen).screen = screen
             /\ Loaded(r, screen).entered = IF r.token = None THEN None ELSE r.entered
  <2>1. [r EXCEPT !.screen = screen] \in Page
    BY <1>2 DEF Page
  <2>2. Loaded(r, screen) = [r EXCEPT !.renews = None, !.busy = None, !.screen = screen,
                                      !.entered = IF r.token = None THEN None ELSE r.entered]
    BY DEF Loaded, Page
  <2>3. (IF r.token = None THEN None ELSE r.entered) \in Session \cup {None}
    BY DEF Page
  <2> QED BY <1>2, <2>1, <2>2, <2>3 DEF Page
<1>3. ASSUME NEW k \in Jobs \cup {None} PROVE [r EXCEPT !.busy = k] \in Page /\ [r EXCEPT !.renews = k] \in Page
  BY <1>3 DEF Page
<1> QED BY <1>1, <1>2, <1>3

\* A page with the same token, entered alike and remembered alike.
LEMMA PageLike ==
  ASSUME NEW q, NEW r, NEW p, HotelInHand(r), Keeps(q, r),
         p.token = r.token, p.entered = r.entered, Memory(p) = Memory(r)
  PROVE  HotelInHand(p) /\ Keeps(q, p)
BY DEF HotelInHand, Keeps, Works

\* A page changes alone.
LEMMA PageAlone ==
  ASSUME Sound, NEW t \in Tabs, NEW p \in Page, tab' = [tab EXCEPT ![t] = p],
         HotelInHand(p), Keeps(tab[t], p), p.screen = "sso" => tab[t].screen = "sso",
         UNCHANGED <<rows, cookie, active, open, codes, job>>, trouble' \in Nat
  PROVE  Sound' /\ TabsKeep
<1>1. ASSUME NEW f \in [Jobs -> Request], f = job
      PROVE  Sound' /\ TabsKeep
  <2>1. job' = f /\ codes' \in SUBSET Session /\ cookie' \in [Paths -> 0..Len(rows)]
    BY <1>1 DEF Sound, SessionsInv, TypeOK
  <2>2. Turns(t, p, f)
    BY <1>1 DEF Turns
  <2>3. UNCHANGED <<rows, active, open>>
    OBVIOUS
  <2> QED BY <2>1, <2>2, <2>3, PageMoves
<1> QED BY <1>1 DEF Sound, SessionsInv, TypeOK

\* A page asks, or hears the answer.
LEMMA PageAndJob ==
  ASSUME Sound, NEW t \in Tabs, NEW p \in Page, tab' = [tab EXCEPT ![t] = p],
         HotelInHand(p), Keeps(tab[t], p), p.screen = "sso" => tab[t].screen = "sso",
         NEW j \in Jobs, NEW x \in Request, job' = [job EXCEPT ![j] = x],
         InHand(x)', x.ses # None => ~Beyond(x),
         UNCHANGED <<rows, active, open, codes>>, cookie' \in [Paths -> 0..Len(rows)], trouble' \in Nat
  PROVE  Sound' /\ TabsKeep
<1>1. ASSUME NEW f \in [Jobs -> Request], f = [job EXCEPT ![j] = x]
      PROVE  Sound' /\ TabsKeep
  <2>1. job' = f /\ codes' \in SUBSET Session
    BY <1>1 DEF Sound, SessionsInv, TypeOK
  <2>2. \A k \in Jobs : f[k] = job[k] \/ f[k] = x
    BY <1>1 DEF Sound, SessionsInv, TypeOK
  <2>3. ASSUME NEW k \in Jobs, f[k] = x
        PROVE  InHand(f[k])' /\ (f[k].ses # None => ~Beyond(f[k]))
    BY <2>3 DEF InHand
  <2>4. Turns(t, p, f)
    BY <2>2, <2>3 DEF Turns
  <2> QED BY <2>1, <2>4, PageMoves
<1>2. [job EXCEPT ![j] = x] \in [Jobs -> Request]
  BY DEF Sound, SessionsInv, TypeOK
<1> QED BY <1>1, <1>2

LEMMA RenewKeeps ==
  ASSUME Sound, NEW t \in Tabs, NEW r \in Page, HotelInHand(r), Keeps(tab[t], r), r.screen # "sso",
         Renew(t, r), UNCHANGED <<rows, cookie, active, open, codes>>, trouble' \in Nat
  PROVE  Sound' /\ TabsKeep
<1>1. CASE r.renews # None
  BY <1>1, PageAlone DEF Renew
<1>2. CASE r.renews = None
  <2>1. PICK j \in Jobs : LET p == Path(SesOf(r.token)) IN
           /\ tab' = [tab EXCEPT ![t] = [r EXCEPT !.renews = j]]
           /\ job' = [job EXCEPT ![j] = [Idle EXCEPT !.kind = "refresh", !.tab = t,
                        !.path = p, !.row = cookie[p], !.held = r.token]]
    BY <1>2 DEF Renew
  <2>2. Path(SesOf(r.token)) \in Paths /\ r.token \in Token \cup {None}
    <3>1. r.token \in Token \cup {None} /\ SesOf(r.token) \in Session \cup {None}
      BY TokensOf DEF Page
    <3>2. SesOf(r.token) # None => SesOf(r.token).tid \in Hotels \cup {None}
      BY <3>1, SessionsOf
    <3> QED BY <3>1, <3>2 DEF Path, Paths, General
  <2>3. ASSUME NEW path \in Paths, path = Path(SesOf(r.token)), NEW n \in 0..Len(rows), n = cookie[path],
               NEW p, p = [r EXCEPT !.renews = j],
               NEW x, x = [Idle EXCEPT !.kind = "refresh", !.tab = t, !.path = path, !.row = n, !.held = r.token]
        PROVE  Sound' /\ TabsKeep
    <3>1. p \in Page /\ p.token = r.token /\ p.entered = r.entered /\ p.screen = r.screen /\ Memory(p) = Memory(r)
      BY <2>3 DEF Page, Memory
    <3>2. n \in Nat /\ n <= Len(rows)
      BY LenProperties DEF Sound, SessionsInv, TypeOK
    <3>3. /\ x \in Request /\ x.kind = "refresh" /\ x.tab = t /\ x.path = path /\ x.row = n /\ x.held = r.token
          /\ x.stage = "sent" /\ x.ses = None
      BY ONLY <2>2, <2>3, <3>2, path \in Paths, t \in Tabs DEF Request, Idle
    <3>4. tab'[t].screen # "sso"
      BY <2>1, <2>3, <3>1 DEF Sound, SessionsInv, TypeOK
    <3>5. InHand(x)'
      BY <2>3, <3>2, <3>3, <3>4 DEF InHand
    <3>6. tab' = [tab EXCEPT ![t] = p] /\ job' = [job EXCEPT ![j] = x]
      BY <2>1, <2>3
    <3>7. cookie' \in [Paths -> 0..Len(rows)]
      BY DEF Sound, SessionsInv, TypeOK
    <3>8. HotelInHand(p) /\ Keeps(tab[t], p)
      BY <3>1, PageLike
    <3>9. p \in Page /\ x \in Request /\ p.screen # "sso" /\ x.ses = None
      BY <3>1, <3>3
    <3> QED BY <3>5, <3>6, <3>7, <3>8, <3>9, PageAndJob
  <2>4. cookie[Path(SesOf(r.token))] \in 0..Len(rows)
    BY <2>2 DEF Sound, SessionsInv, TypeOK
  <2> QED BY <2>2, <2>3, <2>4
<1> QED BY <1>1, <1>2

LEMMA LoadsKeep ==
  ASSUME Sound, NEW t \in Tabs, trouble' \in Nat,
         Refused(t) \/ Recognised(t) \/ Unrecognised(t) \/ Drop(t)
  PROVE  Sound' /\ TabsKeep
<1>1. tab[t] \in Page /\ HotelInHand(tab[t]) /\ Keeps(tab[t], tab[t])
  BY PageIs
<1>2. CASE Refused(t)
  <2>1. tab[t].screen # "sso" /\ Renew(t, tab[t]) /\ UNCHANGED <<rows, cookie, active, open, codes>>
    BY <1>2 DEF Refused
  <2> QED BY <1>1, <2>1, RenewKeeps
<1>3. CASE Recognised(t)
  <2>1. ASSUME NEW p, p = [tab[t] EXCEPT !.screen = "in"]
        PROVE  Sound' /\ TabsKeep
    <3>1. p \in Page /\ p.token = tab[t].token /\ p.entered = tab[t].entered /\ p.screen = "in" /\ Memory(p) = Memory(tab[t])
      BY <1>1, <1>3, <2>1 DEF Page, Memory, Recognised
    <3>2. tab' = [tab EXCEPT ![t] = p] /\ UNCHANGED <<rows, cookie, active, open, codes, job>>
      BY <1>3, <2>1 DEF Recognised
    <3>3. HotelInHand(p) /\ Keeps(tab[t], p)
      BY <1>1, <3>1, PageLike
    <3>4. p \in Page /\ p.screen # "sso"
      BY <3>1
    <3> QED BY <3>2, <3>3, <3>4, PageAlone
  <2> QED BY <2>1
<1>4. CASE Unrecognised(t)
  <2>1. tab[t].screen = "loading" /\ UNCHANGED <<rows, cookie, active, open, codes>>
    BY <1>4 DEF Unrecognised
  <2>2. CASE tab[t].panel
    <3>1. ASSUME NEW p, p = [Holding([tab[t] EXCEPT !.panel = FALSE], None) EXCEPT !.entered = None]
          PROVE  Sound' /\ TabsKeep
      <4>1. p \in Page /\ p.token = None /\ p.entered = None /\ p.screen = "loading"
        BY <1>1, <2>1, <3>1 DEF Page, Holding
      <4>2. HotelInHand(p) /\ Keeps(tab[t], p)
        BY <4>1 DEF HotelInHand, Keeps, Works, Memory, SesOf
      <4>3. Renew(t, p)
        BY <1>4, <2>2, <3>1 DEF Unrecognised
      <4> QED BY <2>1, <4>1, <4>2, <4>3, RenewKeeps
    <3> QED BY <3>1
  <2>3. CASE ~tab[t].panel
    <3>1. Renew(t, tab[t])
      BY <1>4, <2>3 DEF Unrecognised
    <3> QED BY <1>1, <2>1, <3>1, RenewKeeps
  <2> QED BY <2>2, <2>3
<1>5. CASE Drop(t)
  <2>1. ASSUME NEW p, p = [Holding([tab[t] EXCEPT !.panel = FALSE], None) EXCEPT !.screen = "out", !.entered = None]
        PROVE  Sound' /\ TabsKeep
    <3>1. p \in Page /\ p.token = None /\ p.entered = None /\ p.screen = "out"
      BY <1>1, <2>1 DEF Page, Holding
    <3>2. HotelInHand(p) /\ Keeps(tab[t], p)
      BY <3>1 DEF HotelInHand, Keeps, Works, Memory, SesOf
    <3>3. tab' = [tab EXCEPT ![t] = p] /\ UNCHANGED <<rows, cookie, active, open, codes, job>>
      BY <1>5, <2>1 DEF Drop
    <3>4. p \in Page /\ p.screen # "sso"
      BY <3>1
    <3> QED BY <3>2, <3>3, <3>4, PageAlone
  <2> QED BY <2>1
<1> QED BY <1>2, <1>3, <1>4, <1>5

\* A load gives up the session only if there is no token to find.
LEMMA LoadedKeeps ==
  ASSUME NEW r \in Page, HotelInHand(r), NEW p \in Page, p.screen \in {"loading", "sso"}, p.token = r.token,
         p.entered = IF r.token = None THEN None ELSE r.entered
  PROVE  HotelInHand(p) /\ Keeps(r, p)
<1>1. HotelInHand(p)
  BY DEF HotelInHand
<1>2. p.entered \in {None, r.entered} /\ (r.token # None => p.entered = r.entered)
  OBVIOUS
<1>3. CASE p.screen = "sso" \/ r.token = None
  <2>1. Works(p) = None
    BY <1>3 DEF Works, Memory, SesOf
  <2> QED BY <1>1, <1>2, <2>1 DEF Keeps
<1>4. CASE p.screen = "loading" /\ r.token # None /\ r.screen # "sso"
  <2>1. Works(p) = Works(r)
    BY <1>4 DEF Works, Memory
  <2> QED BY <1>1, <1>2, <1>4, <2>1 DEF Keeps
<1>5. CASE p.screen = "loading" /\ r.token # None /\ r.screen = "sso"
  <2>1. r.token.ses \in Session
    BY <1>5, TokensOf DEF Page
  <2>2. Works(r) = None /\ Works(p) = r.token.ses
    BY <1>5 DEF Works, Memory, SesOf
  <2>3. CASE r.entered \in Session /\ OnBehalf(r.entered)
    <3>1. r.entered = r.token.ses
      BY <2>3, NoneAssumption DEF HotelInHand
    <3> QED BY <1>1, <1>2, <1>5, <2>2, <3>1 DEF Keeps
  <2>4. CASE ~(r.entered \in Session /\ OnBehalf(r.entered))
    BY <1>1, <1>2, <1>5, <2>1, <2>2, <2>4 DEF Keeps
  <2> QED BY <2>3, <2>4
<1> QED BY <1>3, <1>4, <1>5

LEMMA ReloadKeeps ==
  ASSUME Sound, NEW t \in Tabs, trouble' \in Nat, Reload(t) PROVE Sound' /\ TabsKeep
<1>1. tab[t] \in Page /\ HotelInHand(tab[t])
  BY PageIs
<1>2. ASSUME NEW p, p = Loaded(tab[t], "loading"),
             NEW f, f = [j \in Jobs |-> IF job[j].tab = t THEN [job[j] EXCEPT !.tab = None] ELSE job[j]]
      PROVE  Sound' /\ TabsKeep
  <2>1. /\ p \in Page /\ p.screen = "loading" /\ p.token = tab[t].token
        /\ p.entered = IF tab[t].token = None THEN None ELSE tab[t].entered
    BY <1>1, <1>2, FormsOfPages
  <2>2. HotelInHand(p) /\ Keeps(tab[t], p)
    BY <1>1, <2>1, LoadedKeeps
  <2>3. \A k \in Jobs : f[k] \in Request
    BY <1>2, RequestIs DEF Request
  <2>4. f \in [Jobs -> Request]
    BY <1>2, <2>3
  <2>5. tab' = [tab EXCEPT ![t] = p] /\ job' = f /\ UNCHANGED <<rows, cookie, active, open, codes>>
    BY <1>2 DEF Reload
  <2>6. codes' \in SUBSET Session /\ cookie' \in [Paths -> 0..Len(rows)]
    BY <2>5 DEF Sound, SessionsInv, TypeOK
  <2>7. p \in Page /\ p.screen # "sso"
    BY <2>1
  <2>8. Turns(t, p, f)
    BY <1>2, <2>7 DEF Turns
  <2> QED BY <2>2, <2>4, <2>5, <2>6, <2>7, <2>8, PageMoves
<1> QED BY <1>2

LEMMA OpenLinkKeeps ==
  ASSUME Sound, NEW t \in Tabs, NEW j \in Jobs, NEW s \in Session, trouble' \in Nat, OpenLink(t, j, s)
  PROVE  Sound' /\ TabsKeep
<1>1. tab[t] \in Page /\ HotelInHand(tab[t])
  BY PageIs
<1>2. Path(s) \in Paths
  BY SessionsOf DEF Path, Paths, General
<1>3. ASSUME NEW p, p = [Loaded(tab[t], "sso") EXCEPT !.busy = j],
             NEW x, x = [Idle EXCEPT !.kind = "exchange", !.tab = t, !.ses = s, !.path = Path(s)],
             NEW g, g = [k \in Jobs |-> IF job[k].tab = t THEN [job[k] EXCEPT !.tab = None] ELSE job[k]],
             NEW f, f = [g EXCEPT ![j] = x]
      PROVE  Sound' /\ TabsKeep
  <2>1. p \in Page /\ HotelInHand(p) /\ Keeps(tab[t], p) /\ p.screen = "sso"
    <3>1. /\ p \in Page /\ p.screen = "sso" /\ p.token = tab[t].token
          /\ p.entered = IF tab[t].token = None THEN None ELSE tab[t].entered
      BY <1>1, <1>3 DEF Page, Loaded
    <3> QED BY <1>1, <3>1, LoadedKeeps
  <2>2. x \in Request /\ x.kind = "exchange" /\ x.stage = "sent" /\ x.ses = s /\ x.row = 0
    BY <1>2, <1>3 DEF Request, Idle
  <2>3. \A k \in Jobs : g[k] \in Request
    BY <1>3, RequestIs DEF Request
  <2>4. f \in [Jobs -> Request] /\ f[j] = x /\ \A k \in Jobs \ {j} : f[k] = g[k]
    BY <1>3, <2>2, <2>3
  <2>5. tab' = [tab EXCEPT ![t] = p] /\ job' = f /\ UNCHANGED <<rows, cookie, active, open, codes>>
    BY <1>3 DEF OpenLink
  <2>6. codes' \in SUBSET Session /\ cookie' \in [Paths -> 0..Len(rows)]
    BY <2>5 DEF Sound, SessionsInv, TypeOK
  <2>7. InHand(x)' /\ ~Beyond(x)
    <3>1. 0 <= Len(rows)'
      <4>1. Len(rows) \in Nat /\ UNCHANGED rows
        BY <2>5, LenProperties DEF Sound, SessionsInv, TypeOK
      <4> QED BY <4>1
    <3>2. ~Beyond(x)
      BY <2>2 DEF Beyond
    <3> QED BY <2>2, <3>1, <3>2, NoneAssumption DEF InHand
  <2>8. ASSUME NEW k \in Jobs
        PROVE  \/ f[k] = job[k] /\ (p.screen = "sso" => tab[t].screen = "sso" \/ job[k].tab # t)
               \/ f[k] = [job[k] EXCEPT !.tab = None]
               \/ InHand(f[k])' /\ (f[k].ses # None => ~Beyond(f[k]))
    <3>1. CASE k = j
      <4>1. f[k] = x
        BY <2>4, <3>1
      <4> QED BY <2>7, <4>1 DEF InHand
    <3>2. CASE k # j /\ job[k].tab = t
      BY <1>3, <2>4, <3>2
    <3>3. CASE k # j /\ job[k].tab # t
      BY <1>3, <2>4, <3>3
    <3> QED BY <3>1, <3>2, <3>3
  <2>9. Turns(t, p, f)
    BY <2>8 DEF Turns
  <2>10. f \in [Jobs -> Request] /\ UNCHANGED <<rows, active, open>>
    BY <2>4, <2>5
  <2> QED BY <2>1, <2>5, <2>6, <2>9, <2>10, PageMoves
<1> QED BY <1>3

LEMMA AskKeeps ==
  ASSUME Sound, NEW t \in Tabs, NEW j \in Jobs, trouble' \in Nat,
         NEW kind \in {"login", "exit", "enter", "logout"}, NEW s \in Session \cup {None}, NEW path \in Paths,
         kind # "logout" => s # None, kind = "logout" => s = None,
         Ask(t, j, kind, s, path, tab[t])
  PROVE  Sound' /\ TabsKeep
<1>1. tab[t] \in Page /\ HotelInHand(tab[t]) /\ Keeps(tab[t], tab[t])
  BY PageIs
<1>2. Len(rows) \in Nat /\ UNCHANGED <<rows, active, open, codes>> /\ cookie' \in [Paths -> 0..Len(rows)]
  BY LenProperties DEF Ask, Sound, SessionsInv, TypeOK
<1>3. cookie[path] \in 0..Len(rows)
  BY DEF Sound, SessionsInv, TypeOK
<1>4. ASSUME NEW p, p = [tab[t] EXCEPT !.busy = j], NEW n \in Nat, n = IF kind = "logout" THEN cookie[path] ELSE 0,
             NEW stage \in {"sent", "taken"}, stage = IF kind \in {"exchange", "logout"} THEN "sent" ELSE "taken",
             NEW x, x = [Idle EXCEPT !.kind = kind, !.tab = t, !.ses = s, !.path = path, !.row = n, !.stage = stage]
      PROVE  Sound' /\ TabsKeep
  <2>1. p \in Page /\ p.token = tab[t].token /\ p.entered = tab[t].entered /\ p.screen = tab[t].screen
        /\ Memory(p) = Memory(tab[t])
    BY <1>1, <1>4 DEF Page, Memory
  <2>2. HotelInHand(p) /\ Keeps(tab[t], p)
    BY <1>1, <2>1, PageLike
  <2>3. /\ x \in Request /\ x.kind = kind /\ x.stage = stage /\ x.ses = s /\ x.row = n
    BY ONLY <1>4, t \in Tabs, kind \in {"login", "exit", "enter", "logout"}, s \in Session \cup {None},
            path \in Paths DEF Request, Idle
  <2>4. n <= Len(rows)
    BY <1>2, <1>3, <1>4
  <2>5. InHand(x)' /\ ~Beyond(x)
    <3>1. x.row <= Len(rows)'
      BY <1>2, <2>3, <2>4
    <3>2. ~Beyond(x)
      BY <2>3 DEF Beyond
    <3>3. kind = "logout" => stage = "sent"
      BY <1>4
    <3> QED BY <2>3, <3>1, <3>2, <3>3 DEF InHand
  <2>6. tab' = [tab EXCEPT ![t] = p] /\ job' = [job EXCEPT ![j] = x]
    BY <1>4 DEF Ask
  <2>7. p \in Page /\ (p.screen = "sso" => tab[t].screen = "sso") /\ x \in Request
    BY <2>1, <2>3
  <2> QED BY <1>2, <2>2, <2>5, <2>6, <2>7, PageAndJob
<1>5. (IF kind = "logout" THEN cookie[path] ELSE 0) \in Nat
  BY <1>2, <1>3
<1> QED BY <1>4, <1>5

LEMMA AsksKeep ==
  ASSUME Sound, NEW t \in Tabs, NEW j \in Jobs, trouble' \in Nat,
         \/ \E u \in Users : Login(t, j, u)
         \/ \E h \in Hotels : EnterHotel(t, j, h)
         \/ Exit(t, j) \/ Logout(t, j)
  PROVE  Sound' /\ TabsKeep
<1>1. tab[t] \in Page
  BY PageIs
<1>2. General \in Paths
  BY DEF Paths
<1>3. ASSUME NEW u \in Users, Login(t, j, u) PROVE Sound' /\ TabsKeep
  <2>1. Own(u) \in Session /\ Own(u) # None
    BY SessionsOf
  <2> QED BY <1>2, <1>3, <2>1, AskKeeps DEF Login
<1>4. tab[t].token # None => tab[t].token.ses \in Session
  BY <1>1, TokensOf DEF Page
<1>5. ASSUME NEW h \in Hotels, EnterHotel(t, j, h) PROVE Sound' /\ TabsKeep
  <2>1. tab[t].token.ses.sub \in Users
    BY <1>4, <1>5, SessionsOf DEF EnterHotel
  <2>2. Inside(h, tab[t].token.ses.sub) \in Session /\ Inside(h, tab[t].token.ses.sub) # None
    BY <2>1, SessionsOf
  <2> QED BY <1>2, <1>5, <2>2, AskKeeps DEF EnterHotel
<1>6. CASE Exit(t, j)
  <2>1. tab[t].token.ses.imp \in Users
    BY <1>4, <1>6, SessionsOf DEF Exit, OnBehalf
  <2>2. Own(tab[t].token.ses.imp) \in Session /\ Own(tab[t].token.ses.imp) # None
    BY <2>1, SessionsOf
  <2> QED BY <1>2, <1>6, <2>2, AskKeeps DEF Exit
<1>7. CASE Logout(t, j)
  <2>1. ASSUME NEW path, path = IF tab[t].panel THEN General ELSE Path(SesOf(tab[t].token))
        PROVE  path \in Paths
    <3>1. SesOf(tab[t].token) \in Session \cup {None}
      BY <1>1, TokensOf DEF Page
    <3>2. SesOf(tab[t].token) # None => SesOf(tab[t].token).tid \in Hotels \cup {None}
      BY <3>1, SessionsOf
    <3> QED BY <2>1, <3>2 DEF Path, Paths, General
  <2> QED BY <1>7, <2>1, AskKeeps DEF Logout
<1> QED BY <1>3, <1>5, <1>6, <1>7

-----------------------------------------------------------------------------
(* Answers *)

\* A token is taken by a tab that has none, or has one of the same session.
LEMMA AdoptedKeeps ==
  ASSUME NEW r \in Page, HotelInHand(r), r.screen # "sso", NEW token \in Token,
         r.token = None \/ r.token.ses = token.ses,
         NEW p, p = Adopted(r, token)
  PROVE  p \in Page /\ HotelInHand(p) /\ Keeps(r, p) /\ p.screen = r.screen
<1>1. token.ses \in Session /\ token # None /\ token.ses # None
  BY TokensOf, NoneAssumption
<1>2. /\ p \in Page /\ p.token = token /\ p.screen = r.screen
      /\ p.entered = IF r.entered = None THEN token.ses ELSE r.entered
  BY <1>1 DEF Adopted, Holding, Page
<1>3. Works(p) = token.ses
  BY <1>1, <1>2 DEF Works, Memory, SesOf
<1>4. CASE r.entered = None
  BY <1>1, <1>2, <1>3, <1>4 DEF HotelInHand, Keeps
<1>5. CASE r.entered # None /\ r.token = None
  <2>1. Works(r) = None /\ ~OnBehalf(r.entered)
    BY <1>5 DEF Works, Memory, SesOf, HotelInHand
  <2> QED BY <1>1, <1>2, <1>3, <1>5, <2>1 DEF HotelInHand, Keeps
<1>6. CASE r.entered # None /\ r.token # None
  <2>1. Works(r) = token.ses
    BY <1>6 DEF Works, Memory, SesOf
  <2> QED BY <1>1, <1>2, <1>3, <1>6, <2>1 DEF HotelInHand, Keeps
<1> QED BY <1>2, <1>4, <1>5, <1>6

LEMMA RenewedKeeps ==
  ASSUME NEW r \in Page, HotelInHand(r), r.screen # "sso", NEW token \in Token, NEW held \in Token \cup {None},
         NEW p, p = Renewed(r, held, token)
  PROVE  p \in Page /\ HotelInHand(p) /\ Keeps(r, p) /\ p.screen # "sso"
<1>1. CASE r.token # held
  BY <1>1 DEF Renewed, Keeps
<1>2. CASE r.token = held /\ held # None /\ held.ses # token.ses
  <2>1. p = [r EXCEPT !.screen = "stopped"]
    BY <1>2 DEF Renewed, Stop
  <2>2. p \in Page /\ p.token = r.token /\ p.entered = r.entered /\ p.screen = "stopped" /\ Memory(p) = Memory(r)
    BY <2>1 DEF Page, Memory
  <2>3. Keeps(r, r)
    BY DEF Keeps
  <2>4. HotelInHand(p) /\ Keeps(r, p)
    BY <2>2, <2>3, PageLike
  <2> QED BY <2>2, <2>4
<1>3. CASE r.token = held /\ ~(held # None /\ held.ses # token.ses)
  <2>1. p = Adopted(r, token)
    BY <1>3 DEF Renewed
  <2> QED BY <1>3, <2>1, AdoptedKeeps
<1> QED BY <1>1, <1>2, <1>3

LEMMA NotRenewedKeeps ==
  ASSUME NEW r \in Page, HotelInHand(r), r.screen # "sso", NEW held \in Token \cup {None}, NEW refused \in BOOLEAN,
         NEW p, p = NotRenewed(r, held, refused)
  PROVE  p \in Page /\ HotelInHand(p) /\ Keeps(r, p) /\ p.screen # "sso"
<1>0. Keeps(r, r)
  BY DEF Keeps
<1>1. CASE p = r
  BY <1>0, <1>1
<1>2. CASE p = [r EXCEPT !.screen = "stopped"]
  <2>2. p \in Page /\ p.token = r.token /\ p.entered = r.entered /\ p.screen = "stopped" /\ Memory(p) = Memory(r)
    BY <1>2 DEF Page, Memory
  <2>3. HotelInHand(p) /\ Keeps(r, p)
    BY <1>0, <2>2, PageLike
  <2> QED BY <2>2, <2>3
<1>3. CASE p = [r EXCEPT !.token = None] /\ r.token = held /\ ~(held # None /\ OnBehalf(held.ses))
  <2>1. p \in Page /\ p.token = None /\ p.entered = r.entered /\ p.screen = r.screen
    BY <1>3 DEF Page
  <2>2. ~(r.entered # None /\ OnBehalf(r.entered))
    BY <1>3 DEF HotelInHand
  <2>3. Works(p) = None
    BY <2>1 DEF Works, Memory, SesOf
  <2> QED BY <2>1, <2>2, <2>3 DEF HotelInHand, Keeps
<1>4. \/ p = r
      \/ p = [r EXCEPT !.screen = "stopped"]
      \/ p = [r EXCEPT !.token = None] /\ r.token = held /\ ~(held # None /\ OnBehalf(held.ses))
  BY DEF NotRenewed, Stop, Holding
<1> QED BY <1>1, <1>2, <1>3, <1>4

LEMMA PageAfterKeeps ==
  ASSUME Sound, NEW j \in Jobs, NEW t \in Tabs, t = job[j].tab, NEW stage \in {"issued", "refused", "failed"},
         stage = "issued" => job[j].stage = "issued", job[j].kind # "idle",
         NEW p, p = PageAfter(tab[t], j, stage)
  PROVE  p \in Page /\ HotelInHand(p) /\ Keeps(tab[t], p) /\ (p.screen = "sso" => tab[t].screen = "sso")
<1> DEFINE r == tab[t]
<1>1. r \in Page /\ HotelInHand(r) /\ Keeps(r, r)
  BY PageIs
<1>2. job[j] \in Request /\ InHand(job[j]) /\ t # None
  BY RequestIs, SessionsAssumption
<1>3. ASSUME stage = "issued", job[j].kind # "logout"
      PROVE  [ses |-> job[j].ses, n |-> job[j].row] \in Token /\ job[j].ses \in Session
  <2>1. job[j].ses \in Session /\ job[j].row \in Nat
    BY <1>2, <1>3 DEF InHand, Request
  <2> QED BY <2>1, TokensOf
<1>4. CASE job[j].kind = "refresh"
  <2>1. r.screen # "sso" /\ job[j].held \in Token \cup {None}
    BY <1>2, <1>4 DEF InHand, Request
  <2>2. PICK done : done = IF stage = "issued"
                           THEN Renewed(r, job[j].held, [ses |-> job[j].ses, n |-> job[j].row])
                           ELSE NotRenewed(r, job[j].held, stage = "refused")
    OBVIOUS
  <2>3. p = [Started(done, stage = "issued") EXCEPT !.renews = None]
    BY <1>4, <2>2 DEF PageAfter, AfterRenewal
  <2>4. done \in Page /\ HotelInHand(done) /\ Keeps(r, done) /\ done.screen # "sso"
    <3>1. CASE stage = "issued"
      BY <1>1, <1>3, <1>4, <2>1, <2>2, <3>1, RenewedKeeps
    <3>2. CASE stage # "issued"
      <4>1. (stage = "refused") \in BOOLEAN /\ done = NotRenewed(r, job[j].held, stage = "refused")
        BY <2>2, <3>2
      <4> QED BY <1>1, <2>1, <4>1, NotRenewedKeeps
    <3> QED BY <3>1, <3>2
  <2>5. p \in Page /\ p.token = done.token /\ p.entered = done.entered /\ p.screen # "sso" /\ Memory(p) = Memory(done)
    <3>1. PICK screen \in {"loading", "out", "in", "stopped"} : Started(done, stage = "issued") = [done EXCEPT !.screen = screen]
      <4>1. CASE done.screen # "loading"
        <5>1. Started(done, stage = "issued") = done /\ done.screen \in {"loading", "out", "in", "stopped"}
          BY <2>4, <4>1 DEF Started, Page
        <5>2. done = [done EXCEPT !.screen = done.screen]
          BY <2>4 DEF Page
        <5> QED BY <5>1, <5>2
      <4>2. CASE done.screen = "loading"
        BY <4>2 DEF Started
      <4> QED BY <4>1, <4>2
    <3>2. p = [[done EXCEPT !.screen = screen] EXCEPT !.renews = None]
      BY <2>3, <3>1
    <3> QED BY <2>4, <3>2 DEF Page, Memory
  <2>6. HotelInHand(p) /\ Keeps(r, p)
    BY <2>4, <2>5, PageLike
  <2> QED BY <2>5, <2>6
<1>5. CASE job[j].kind = "logout"
  <2>1. p = LoggedOut(r)
    BY <1>5 DEF PageAfter
  <2>2. p \in Page /\ p.token = None /\ p.entered = None /\ p.screen = "out"
    BY <1>1, <2>1 DEF LoggedOut, Holding, Page
  <2> QED BY <2>2 DEF HotelInHand, Keeps, Works, Memory, SesOf
<1>6. CASE job[j].kind \notin {"refresh", "logout"} /\ stage = "issued"
  <2>1. p = SignedIn(r, j)
    BY <1>6 DEF PageAfter
  <2>2. ASSUME NEW token \in Token, token = [ses |-> job[j].ses, n |-> job[j].row]
        PROVE  p \in Page /\ p.token = token /\ p.entered = token.ses /\ p.screen = "in"
    <3>1. token.ses \in Session
      BY TokensOf
    <3>2. CASE job[j].kind = "enter"
      BY <1>1, <2>1, <2>2, <3>1, <3>2 DEF SignedIn, Page
    <3>3. CASE job[j].kind \in {"exchange", "exit"}
      BY <1>1, <2>1, <2>2, <3>1, <3>3 DEF SignedIn, Page
    <3>4. CASE job[j].kind = "login"
      BY <1>1, <2>1, <2>2, <3>1, <3>4 DEF SignedIn, Page, Holding
    <3> QED BY <1>2, <1>6, <3>2, <3>3, <3>4 DEF Request
  <2>3. PICK token \in Token : p \in Page /\ p.token = token /\ p.entered = token.ses /\ p.screen = "in"
    BY <1>3, <1>6, <2>2
  <2>4. token # None /\ token.ses \in Session
    BY TokensOf
  <2>5. Works(p) = token.ses
    BY <2>3, <2>4 DEF Works, Memory, SesOf
  <2> QED BY <2>3, <2>4, <2>5 DEF HotelInHand, Keeps
<1>7. CASE job[j].kind \notin {"refresh", "logout"} /\ stage # "issued"
  <2>1. p = [r EXCEPT !.busy = None]
    BY <1>7 DEF PageAfter
  <2>2. p \in Page /\ p.token = r.token /\ p.entered = r.entered /\ p.screen = r.screen /\ Memory(p) = Memory(r)
    BY <1>1, <2>1 DEF Page, Memory
  <2>3. HotelInHand(p) /\ Keeps(r, p)
    BY <1>1, <2>2, PageLike
  <2> QED BY <2>2, <2>3
<1> QED BY <1>4, <1>5, <1>6, <1>7

LEMMA CookiesAfterTyped ==
  ASSUME Sound, NEW j \in Jobs
  PROVE  CookiesAfter(j) \in [Paths -> 0..Len(rows)]
<1>1. job[j] \in Request /\ InHand(job[j])
  BY RequestIs
<1>2. cookie \in [Paths -> 0..Len(rows)] /\ Len(rows) \in Nat /\ General \in Paths
  BY LenProperties DEF Sound, SessionsInv, TypeOK, Paths
<1>3. job[j].path \in Paths /\ job[j].row \in Nat /\ job[j].row <= Len(rows)
  BY <1>1 DEF Request, InHand
<1>4. CASE job[j].stage # "issued" \/ job[j].kind = "enter"
  BY <1>2, <1>4 DEF CookiesAfter
<1>5. CASE job[j].stage = "issued" /\ job[j].kind # "enter"
  <2>1. CookieOf(j) \in Paths
    <3>1. job[j].kind \in {"refresh", "login", "exchange", "exit", "logout"}
      BY <1>1, <1>5 DEF InHand, Request
    <3> QED BY <1>2, <1>3, <3>1 DEF CookieOf
  <2>2. ASSUME NEW n, n = IF job[j].kind = "logout" THEN 0 ELSE job[j].row
        PROVE  n \in 0..Len(rows)
    BY <1>2, <1>3, <2>2
  <2>3. PICK n \in 0..Len(rows) : CookiesAfter(j) = [cookie EXCEPT ![CookieOf(j)] = n]
    BY <1>5, <2>2 DEF CookiesAfter
  <2> QED BY <1>2, <2>3
<1> QED BY <1>4, <1>5

LEMMA AnswersKeep ==
  ASSUME Sound, NEW j \in Jobs, trouble' \in Nat, Answer(j) \/ Lost(j) PROVE Sound' /\ TabsKeep
<1>1. job[j] \in Request /\ InHand(job[j])
  BY RequestIs
<1>2. cookie' \in [Paths -> 0..Len(rows)]
  BY CookiesAfterTyped DEF Answer, Lost, Sound, SessionsInv, TypeOK
<1>3. PICK stage \in {"issued", "refused", "failed"} :
        Deliver(j, stage) /\ (stage = "issued" => job[j].stage = "issued") /\ job[j].stage # "sent"
  BY DEF Answer, Lost
<1>4. job[j].kind # "idle" /\ UNCHANGED <<rows, active, open, codes>> /\ job' = [job EXCEPT ![j] = Idle]
  BY <1>1, <1>3 DEF InHand, Deliver
<1>5. Len(rows) \in Nat /\ codes' \in SUBSET Session
  BY <1>4, LenProperties DEF Sound, SessionsInv, TypeOK
<1>6. InHand(Idle)' /\ JobOut(Idle) /\ Idle.ses = None /\ Idle \in Request
  <2>1. /\ Idle.row = 0 /\ Idle.kind = "idle" /\ Idle.stage = "sent" /\ Idle.ses = None /\ Idle \in Request
    BY DEF Idle, Request, Paths, General
  <2>2. 0 <= Len(rows)'
    BY <1>4, <1>5
  <2> QED BY <2>1, <2>2 DEF InHand, JobOut
<1>7. CASE job[j].tab = None
  <2>1. UNCHANGED tab /\ rows' = rows
    BY <1>3, <1>4, <1>7 DEF Deliver
  <2>2. rows' \in Seq(Row) /\ Len(rows') >= Len(rows) /\ \A n \in 1..Len(rows') : RowOut(rows'[n])
    BY <2>1, RowsSame
  <2>3. cookie' \in [Paths -> 0..Len(rows')]
    BY <1>2, <2>1
  <2> QED BY <1>4, <1>5, <1>6, <2>1, <2>2, <2>3, JobMoves
<1>8. CASE job[j].tab # None
  <2>1. ASSUME NEW t \in Tabs, t = job[j].tab, NEW p, p = PageAfter(tab[t], j, stage)
        PROVE  Sound' /\ TabsKeep
    <3>1. p \in Page /\ HotelInHand(p) /\ Keeps(tab[t], p) /\ (p.screen = "sso" => tab[t].screen = "sso")
      BY <1>3, <1>4, <2>1, PageAfterKeeps
    <3>2. tab' = [tab EXCEPT ![t] = p]
      BY <1>3, <1>8, <2>1 DEF Deliver
    <3> QED BY <1>2, <1>4, <1>6, <3>1, <3>2, PageAndJob
  <2>2. job[j].tab \in Tabs
    BY <1>1, <1>8 DEF Request
  <2> QED BY <2>1, <2>2
<1> QED BY <1>7, <1>8

-----------------------------------------------------------------------------
(* Kars Avia, the administrator and time *)

LEMMA AccountsKeep ==
  ASSUME Sound, trouble' \in Nat, UNCHANGED <<rows, cookie, tab, job>>, active' \in [Users -> BOOLEAN],
         open' \in [Hotels -> BOOLEAN], codes' \in SUBSET Session,
         \A d \in Dispatchers : active[d] => active'[d]
  PROVE  Sound' /\ TabsKeep
<1>1. TypeOK'
  BY DEF Sound, SessionsInv, TypeOK
<1>2. \A j \in Jobs : InHand(job[j])'
  BY DEF Sound, SessionsInv, InHand
<1>3. \A t \in Tabs : HotelInHand(tab[t])'
  BY DEF Sound, SessionsInv, HotelInHand
<1>4. DeactivatedIsOut'
  BY DEF Sound, DeactivatedIsOut, Beyond
<1> QED BY <1>1, <1>2, <1>3, <1>4 DEF Sound, SessionsInv, TabsKeep

LEMMA EventsKeep ==
  ASSUME Sound, trouble' \in Nat,
         \/ \E s \in Session : CreateCode(s)
         \/ \E u \in Users : ToggleUser(u)
         \/ \E h \in Hotels : ToggleHotel(h)
  PROVE  Sound' /\ TabsKeep
<1>1. /\ active \in [Users -> BOOLEAN] /\ open \in [Hotels -> BOOLEAN] /\ codes \in SUBSET Session
      /\ Dispatchers \subseteq Users
  BY SessionsAssumption DEF Sound, SessionsInv, TypeOK
<1>2. ASSUME NEW s \in Session, CreateCode(s) PROVE Sound' /\ TabsKeep
  <2>1. /\ active' \in [Users -> BOOLEAN] /\ codes' \in SUBSET Session /\ open' \in [Hotels -> BOOLEAN]
        /\ \A d \in Dispatchers : active[d] => active'[d]
    BY <1>1, <1>2, SessionsOf DEF CreateCode
  <2> QED BY <1>2, <2>1, AccountsKeep DEF CreateCode
<1>3. ASSUME NEW u \in Users, ToggleUser(u) PROVE Sound' /\ TabsKeep
  <2>1. /\ active' \in [Users -> BOOLEAN] /\ codes' \in SUBSET Session /\ open' \in [Hotels -> BOOLEAN]
        /\ \A d \in Dispatchers : active[d] => active'[d]
    BY <1>1, <1>3 DEF ToggleUser
  <2> QED BY <1>3, <2>1, AccountsKeep DEF ToggleUser
<1>4. ASSUME NEW h \in Hotels, ToggleHotel(h) PROVE Sound' /\ TabsKeep
  <2>1. /\ active' \in [Users -> BOOLEAN] /\ codes' \in SUBSET Session /\ open' \in [Hotels -> BOOLEAN]
        /\ \A d \in Dispatchers : active[d] => active'[d]
    BY <1>1, <1>4 DEF ToggleHotel
  <2> QED BY <1>4, <2>1, AccountsKeep DEF ToggleHotel
<1> QED BY <1>2, <1>3, <1>4

\* One transaction: the account, its rows; and who was past the last look is marked.
LEMMA DeactivateKeeps ==
  ASSUME Sound, trouble' \in Nat, NEW d \in Users, Deactivate(d) PROVE Sound' /\ TabsKeep
<1>1. /\ rows \in Seq(Row) /\ Len(rows) \in Nat /\ job \in [Jobs -> Request]
      /\ \A n \in 1..Len(rows) : RowOut(rows[n])
  BY OutIs, LenProperties DEF Sound, SessionsInv, TypeOK
<1>2. /\ rows' \in Seq(Row) /\ Len(rows') = Len(rows)
      /\ \A k \in 1..Len(rows) : /\ rows'[k].ses = rows[k].ses /\ rows'[k].crossed = rows[k].crossed
                                 /\ rows'[k].live => rows[k].live /\ rows[k].ses.sub # d
  <2>1. rows' = [n \in DOMAIN rows |-> IF rows[n].ses.sub = d THEN [rows[n] EXCEPT !.live = FALSE] ELSE rows[n]]
    BY DEF Deactivate
  <2> QED BY <1>1, <2>1, RowsOfOneDie
<1>3. active' \in [Users -> BOOLEAN] /\ \A u \in Users \ {d} : active'[u] = active[u]
  BY DEF Deactivate, Sound, SessionsInv, TypeOK
<1>4. ASSUME NEW k \in Jobs
      PROVE  job'[k] \in Request /\ InHand(job[k])' /\ JobOut(job[k])'
  <2>1. job[k] \in Request /\ InHand(job[k]) /\ JobOut(job[k])
    BY RequestIs
  <2>2. /\ job'[k] \in Request /\ job'[k].stage = job[k].stage /\ job'[k].kind = job[k].kind /\ job'[k].tab = job[k].tab
        /\ job'[k].path = job[k].path /\ job'[k].ses = job[k].ses /\ job'[k].row = job[k].row /\ job'[k].held = job[k].held
        /\ job[k].crossed => job'[k].crossed
        /\ job[k].ses # None /\ job[k].ses.sub = d /\ Beyond(job[k]) => job'[k].crossed
    <3>1. CASE job[k].ses # None /\ job[k].ses.sub = d /\ Beyond(job[k])
      <4>1. job'[k] = [job[k] EXCEPT !.crossed = TRUE]
        BY <3>1 DEF Deactivate
      <4> QED BY <2>1, <4>1 DEF Request
    <3>2. CASE ~(job[k].ses # None /\ job[k].ses.sub = d /\ Beyond(job[k]))
      <4>1. job'[k] = job[k]
        BY <3>2 DEF Deactivate
      <4> QED BY <2>1, <3>2, <4>1
    <3> QED BY <3>1, <3>2
  <2>3. InHand(job[k])'
    BY <1>2, <2>1, <2>2 DEF InHand, Deactivate
  <2>4. JobOut(job[k])'
    <3>1. ASSUME job[k].ses # None
          PROVE  job[k].ses.sub \in Users
      BY <2>1, <3>1, SessionsOf DEF Request
    <3> QED BY <1>3, <2>1, <2>2, <3>1 DEF JobOut, Beyond
  <2> QED BY <2>2, <2>3, <2>4
<1>5. ASSUME NEW n \in 1..Len(rows)
      PROVE  RowOut(rows[n])'
  <2>1. rows[n].ses.sub \in Users
    BY <1>1, RowsAre, SessionsOf DEF Row
  <2>2. RowOut(rows[n])
    BY <1>1
  <2>3. CASE rows[n].ses.sub = d
    BY <1>2, <2>3 DEF RowOut
  <2>4. CASE rows[n].ses.sub # d
    <3>1. active'[rows[n].ses.sub] = active[rows[n].ses.sub]
      BY <1>3, <2>1, <2>4
    <3> QED BY <1>2, <2>2, <3>1 DEF RowOut
  <2> QED BY <2>3, <2>4
<1>6. TypeOK'
  <2>1. job' \in [Jobs -> Request]
    BY <1>4 DEF Deactivate
  <2>2. cookie' \in [Paths -> 0..Len(rows')]
    BY <1>2 DEF Deactivate, Sound, SessionsInv, TypeOK
  <2> QED BY <1>2, <1>3, <2>1, <2>2 DEF Deactivate, Sound, SessionsInv, TypeOK
<1>7. \A t \in Tabs : HotelInHand(tab[t])'
  BY DEF Deactivate, Sound, SessionsInv, HotelInHand
<1>8. (DeactivatedIsOut <=> /\ \A n \in 1..Len(rows) : RowOut(rows[n])
                           /\ \A j \in Jobs : JobOut(job[j]))'
  BY <1>6, OutIs, PTL
<1>9. \A n \in 1..Len(rows)' : RowOut(rows[n])'
  BY <1>2, <1>5
<1> QED BY <1>4, <1>6, <1>7, <1>8, <1>9 DEF Deactivate, Sound, SessionsInv, TabsKeep

LEMMA ExpireKeeps ==
  ASSUME Sound, trouble' \in Nat, Expire PROVE Sound' /\ TabsKeep
<1>1. rows \in Seq(Row) /\ DOMAIN rows = 1..Len(rows) /\ UNCHANGED <<cookie, active, open, tab, job>>
  BY RowsAre DEF Expire, Sound, SessionsInv, TypeOK
<1>2. rows' \in Seq(Row) /\ Len(rows') >= Len(rows) /\ \A n \in 1..Len(rows') : RowOut(rows'[n])
  <2>1. CASE rows' = rows
    BY <2>1, RowsSame
  <2>2. ASSUME NEW n \in 1..Len(rows), rows' = [rows EXCEPT ![n].live = FALSE]
        PROVE  rows' \in Seq(Row) /\ Len(rows') >= Len(rows) /\ \A k \in 1..Len(rows') : RowOut(rows'[k])
    BY <1>1, <2>2, RowDies, RowsThatDie
  <2> QED BY <1>1, <2>1, <2>2 DEF Expire
<1>3. codes' \in SUBSET Session
  BY DEF Expire, Sound, SessionsInv, TypeOK
<1>4. ASSUME NEW f \in [Jobs -> Request], f = job
      PROVE  Sound' /\ TabsKeep
  <2>1. job' = f /\ \A k \in Jobs : f[k] = job[k]
    BY <1>1, <1>4
  <2> QED BY <1>1, <1>2, <1>3, <2>1, JobsMove DEF InHand
<1> QED BY <1>4 DEF Sound, SessionsInv, TypeOK

-----------------------------------------------------------------------------
(* Every step *)

LEMMA SoundStart == Init => Sound
<1> SUFFICES ASSUME Init PROVE Sound
  OBVIOUS
<1>1. PICK s \in Legacy \cup {None} :
        /\ rows = IF s = None THEN <<>> ELSE <<[ses |-> s, live |-> TRUE, crossed |-> FALSE]>>
        /\ cookie = [p \in Paths |-> IF p = General THEN Len(rows) ELSE 0]
  BY DEF Init
<1>2. rows \in Seq(Row) /\ Len(rows) \in Nat
  <2>1. CASE s = None
    BY <1>1, <2>1
  <2>2. CASE s # None
    <3>1. s \in Session
      BY <2>2, LegacyAssumption, SessionsOf
    <3>2. [ses |-> s, live |-> TRUE, crossed |-> FALSE] \in Row
      BY <3>1 DEF Row
    <3> QED BY <1>1, <2>2, <3>2
  <2> QED BY <2>1, <2>2
<1>3. Idle \in Request /\ Idle.row = 0 /\ Idle.kind = "idle" /\ Idle.stage = "sent" /\ Idle.ses = None
  BY DEF Idle, Request, Paths, General
<1>4. cookie \in [Paths -> 0..Len(rows)]
  BY <1>1, <1>2
<1>5. TypeOK
  BY <1>2, <1>3, <1>4 DEF Init, TypeOK, Page
<1>6. \A j \in Jobs : InHand(job[j])
  BY <1>2, <1>3 DEF Init, InHand
<1>7. \A t \in Tabs : HotelInHand(tab[t])
  BY DEF Init, HotelInHand
<1>8. DeactivatedIsOut
  <2>1. \A n \in DOMAIN rows : active[rows[n].ses.sub]
    BY <1>2, RowsAre, SessionsOf DEF Init, Row
  <2> QED BY <1>3, <2>1 DEF Init, DeactivatedIsOut
<1> QED BY <1>5, <1>6, <1>7, <1>8 DEF Sound, SessionsInv

LEMMA SoundStep == Sound /\ [Next]_vars => Sound' /\ TabsKeep
<1> SUFFICES ASSUME Sound, [Next]_vars PROVE Sound' /\ TabsKeep
  OBVIOUS
<1>1. CASE UNCHANGED vars
  <2>1. trouble' \in Nat /\ UNCHANGED <<rows, cookie, active, open, codes, tab, job>>
    BY <1>1 DEF vars, Sound, SessionsInv, TypeOK
  <2>2. active' \in [Users -> BOOLEAN] /\ open' \in [Hotels -> BOOLEAN] /\ codes' \in SUBSET Session
    BY <2>1 DEF Sound, SessionsInv, TypeOK
  <2> QED BY <2>1, <2>2, AccountsKeep
<1>2. CASE Next
  <2>1. trouble' \in Nat
    BY <1>2 DEF Next, Sound, SessionsInv, TypeOK
  <2>2. CASE Work
    BY <2>1, <2>2, LoadsKeep, ReloadKeeps, OpenLinkKeeps, AsksKeep, LookUpKeeps, RevokeKeeps, StepsKeep,
       IssueKeeps, AnswersKeep, EventsKeep DEF Work
  <2>3. CASE Rare
    BY <2>1, <2>3, AsksKeep, StepsKeep, AnswersKeep, RestartKeeps, EventsKeep, DeactivateKeeps, ExpireKeeps DEF Rare
  <2> QED BY <1>2, <2>2, <2>3 DEF Next
<1> QED BY <1>1, <1>2

LEMMA SoundAlways == Spec => []Sound
BY SoundStart, SoundStep, PTL DEF Spec

(***************************************************************************)
(* Type correctness of sessions, tabs and requests.                        *)
(***************************************************************************)
THEOREM SessionsTypeCorrect == Spec => []TypeOK
<1>1. Sound => TypeOK
  BY DEF Sound, SessionsInv
<1> QED BY <1>1, SoundAlways, PTL

(***************************************************************************)
(* A dispatcher who was switched off holds no refresh token but one that   *)
(* was being issued at that moment (deactivateDispatcher against refresh). *)
(***************************************************************************)
THEOREM SwitchedOffIsOut == Spec => []DeactivatedIsOut
<1>1. Sound => DeactivatedIsOut
  BY DEF Sound
<1> QED BY <1>1, SoundAlways, PTL

-----------------------------------------------------------------------------
(* What the cabinet promises *)

LEMMA PromiseStart == Init => Promise!Init
<1> SUFFICES ASSUME Init PROVE Promise!Init
  OBVIOUS
<1>1. \A t \in Tabs : tab[t].entered = None /\ Works(tab[t]) = None
  BY DEF Init, Works, Memory, SesOf
<1> QED BY <1>1 DEF Promise!Init, Works

LEMMA PromiseStep == TabsKeep /\ TypeOK => [Promise!Next]_(Promise!tabVars)
<1> SUFFICES ASSUME TabsKeep, TypeOK PROVE [Promise!Next]_(Promise!tabVars)
  OBVIOUS
<1> DEFINE entered == [t \in Tabs |-> tab[t].entered]
           works == [t \in Tabs |-> SesOf(Memory(tab[t]))]
<1>1. CASE UNCHANGED tab
  BY <1>1 DEF Promise!tabVars, Memory, SesOf
<1>2. ASSUME NEW t \in Tabs, NEW p \in Page, tab' = [tab EXCEPT ![t] = p], Keeps(tab[t], p)
      PROVE  [Promise!Next]_(Promise!tabVars)
  <2>1. tab'[t] = p /\ \A q \in Tabs \ {t} : tab'[q] = tab[q]
    BY <1>2 DEF TypeOK
  <2>2. entered' = [entered EXCEPT ![t] = p.entered] /\ entered[t] = tab[t].entered
    BY <2>1
  <2>3. works' = [works EXCEPT ![t] = Works(p)] /\ works[t] = Works(tab[t])
    BY <2>1 DEF Works, Memory, SesOf
  <2>4. CASE p.entered = tab[t].entered /\ Works(p) = Works(tab[t])
    <3>1. entered' = entered /\ works' = works
      BY <2>2, <2>3, <2>4
    <3> QED BY <3>1 DEF Promise!tabVars
  <2>5. CASE Works(p) \in Session /\ p.entered = Works(p)
    <3>1. Promise!Enter(t, Works(p))
      BY <2>2, <2>3, <2>5 DEF Promise!Enter
    <3> QED BY <2>5, <3>1 DEF Promise!Next
  <2>6. CASE Works(p) = None /\ p.entered = None
    <3>1. Promise!Leave(t)
      BY <2>2, <2>3, <2>6 DEF Promise!Leave
    <3> QED BY <3>1 DEF Promise!Next
  <2>7. CASE Works(p) = None /\ p.entered = tab[t].entered
    <3>1. Promise!Pause(t)
      BY <2>2, <2>3, <2>7 DEF Promise!Pause
    <3> QED BY <3>1 DEF Promise!Next
  <2>8. CASE Works(tab[t]) = None /\ Works(p) = tab[t].entered /\ p.entered = tab[t].entered
    <3>1. Promise!Resume(t)
      BY <2>2, <2>3, <2>8 DEF Promise!Resume
    <3> QED BY <3>1 DEF Promise!Next
  <2>9. CASE /\ Works(tab[t]) = None /\ Works(p) \in Session
             /\ ~(tab[t].entered \in Session /\ OnBehalf(tab[t].entered))
             /\ p.entered \in {tab[t].entered, Works(p)}
    <3>1. Promise!Adopt(t, Works(p))
      BY <2>2, <2>3, <2>9 DEF Promise!Adopt
    <3> QED BY <2>9, <3>1 DEF Promise!Next
  <2> QED BY <1>2, <2>4, <2>5, <2>6, <2>7, <2>8, <2>9 DEF Keeps
<1> QED BY <1>1, <1>2 DEF TabsKeep

(***************************************************************************)
(* A tab in which a hotel was entered works there until it is left: the    *)
(* tokens, cookies and answers of all the tabs implement the promise of    *)
(* TabSession (session-refresh.js, createSessionRefresh).                  *)
(***************************************************************************)
THEOREM TabsKeepTheirHotels == Spec => TabKeepsHotel
<1>1. Sound /\ [Next]_vars => [Promise!Next]_(Promise!tabVars)
  <2>1. Sound => TypeOK
    BY DEF Sound, SessionsInv
  <2> QED BY <2>1, SoundStep, PromiseStep
<1>2. Spec => [][Promise!Next]_(Promise!tabVars)
  BY <1>1, SoundAlways, PTL DEF Spec
<1>3. Spec => Promise!Init
  BY PromiseStart DEF Spec
<1> QED BY <1>2, <1>3 DEF TabKeepsHotel, Promise!Spec

(***************************************************************************)
(* A renewal uses up the token of a hotel only for a tab of that hotel     *)
(* (refresh checks whose cookie it is before it revokes).                  *)
(***************************************************************************)
THEOREM HotelTokensAreSpared == Spec => HotelTokensSpared
<1>1. ASSUME Sound, NEW j \in Jobs, Revoke(j), OnBehalf(job[j].ses)
      PROVE  job[j].held # None /\ Path(job[j].held.ses) = job[j].ses.tid
  <2>1. job[j] \in Request /\ InHand(job[j]) /\ job[j].kind = "refresh" /\ job[j].stage = "looked"
    BY <1>1, RequestIs DEF Revoke
  <2>2. job[j].ses \in Session /\ OwnCookie(job[j].path, job[j].ses) /\ job[j].path = Path(SesOf(job[j].held))
    BY <2>1 DEF InHand, Request
  <2>3. job[j].path # General /\ job[j].path = job[j].ses.tid
    BY <1>1, <2>2 DEF OwnCookie
  <2>4. CASE job[j].held = None
    BY <2>2, <2>3, <2>4 DEF SesOf, Path
  <2>5. CASE job[j].held # None
    BY <2>2, <2>3, <2>5 DEF SesOf
  <2> QED BY <2>4, <2>5
<1>2. Sound => \A j \in Jobs : Revoke(j) /\ OnBehalf(job[j].ses)
                                 => job[j].held # None /\ Path(job[j].held.ses) = job[j].ses.tid
  BY <1>1
<1> QED BY <1>2, SoundAlways, PTL DEF HotelTokensSpared

-----------------------------------------------------------------------------
(***************************************************************************)
(* The chessboard.  A screen and a hand hold copies of bookings; a copy of *)
(* the version the booking has is the booking.                             *)
(***************************************************************************)
Nights == [room : Rooms, place : Int, from : Int, to : Int]
Dragged == [at : {"drag"}, id : Bookings, was : StayRow, type : {"move", "resize-left", "resize-right"}]
Asked == [at : {"confirm"}, id : Bookings, was : StayRow, shown : Nights, swap : Bookings \cup {Nil}, swapVersion : Nat]
Formed == [at : {"form"}, id : Bookings, was : StayRow \cup {Nil}, room : Rooms, from : Int, to : Int,
           contact : STRING, status : Shown]

BoardTypeOK ==
  /\ multiPlace \in BOOLEAN
  /\ stays \in [Bookings -> StayRow \cup {Nil}]
  /\ board \in [Desks -> [Bookings -> StayRow \cup {Nil}]]
  /\ hand \in [Desks -> Dragged \cup Asked \cup Formed \cup {Nil}]

\* What somebody has seen of booking b: it is as it was, or has a higher version.
Seen(b, x) ==
  x # Nil => /\ stays[b] \in StayRow
             /\ x.version < stays[b].version \/ x = stays[b]
\* The place somebody has seen it at.
SeenAt(b, version, place) ==
  /\ stays[b] \in StayRow
  /\ version < stays[b].version \/ (version = stays[b].version /\ place = stays[b].place)
\* A form of a booking that is not there yet.
NewForm(d) == hand[d] # Nil /\ hand[d].at = "form" /\ hand[d].was = Nil

Copies ==
  /\ \A d \in Desks, b \in Bookings : Seen(b, board[d][b])
  /\ \A d \in Desks : hand[d] # Nil => Seen(hand[d].id, hand[d].was)
  /\ \A d \in Desks : hand[d] # Nil /\ hand[d].at = "confirm" /\ hand[d].swap # Nil =>
       hand[d].swap # hand[d].id /\ SeenAt(hand[d].swap, hand[d].swapVersion, hand[d].shown.place)
Forms ==
  /\ \A d \in Desks : NewForm(d) =>
       /\ stays[hand[d].id] = Nil
       /\ \A e \in Desks \ {d} : hand[e] # Nil => hand[e].id # hand[d].id
  /\ \A d \in Desks : hand[d] # Nil /\ hand[d].at = "form" =>
       hand[d].status = IF hand[d].was = Nil THEN "CONFIRMED" ELSE hand[d].was.status
LEMMA NilIsNoRow == Nil \notin StayRow /\ Nil \notin Bookings /\ Nil \notin Int /\ Nil \notin STRING
BY BoardAssumption

BoardInv == BoardTypeOK /\ Copies /\ Forms

LEMMA BoardStarts == ASSUME BoardAssumption, BoardInit PROVE BoardInv
<1>1. \A d \in Desks : hand[d] = Nil /\ board[d] = stays
  BY DEF BoardInit
<1>2. stays \in [Bookings -> StayRow \cup {Nil}]
  BY DEF BoardInit, BoardAssumption
<1>3. BoardTypeOK
  BY <1>2 DEF BoardInit, BoardTypeOK
<1>4. Copies
  BY <1>1, <1>2 DEF Copies, Seen
<1>5. Forms
  BY <1>1 DEF Forms, NewForm
<1> QED BY <1>3, <1>4, <1>5 DEF BoardInv

LEMMA KindOfHand ==
  ASSUME BoardTypeOK, NEW d \in Desks, hand[d] # Nil
  PROVE  /\ hand[d].at = "drag" => hand[d] \in Dragged
         /\ hand[d].at = "confirm" => hand[d] \in Asked
         /\ hand[d].at = "form" => hand[d] \in Formed
         /\ hand[d].id \in Bookings
BY DEF BoardTypeOK, Dragged, Asked, Formed

\* Bookings grow: what there is stays, and has a higher version once it is changed.
Grow ==
  \A b \in Bookings : stays[b] \in StayRow =>
    stays'[b] \in StayRow /\ (stays'[b] = stays[b] \/ stays[b].version < stays'[b].version)

\* The hotel's book changes, and a desk that had a booking in hand has let it go; a new
\* booking is that of its form.
LEMMA BookChanges ==
  ASSUME BoardAssumption, BoardInv, Grow, stays' \in [Bookings -> StayRow \cup {Nil}], UNCHANGED <<multiPlace, board>>,
         hand' = hand \/ \E d \in Desks : hand' = [hand EXCEPT ![d] = Nil],
         \A b \in Bookings : stays[b] = Nil /\ stays'[b] # Nil =>
           \E d \in Desks : NewForm(d) /\ hand[d].id = b /\ hand'[d] = Nil
  PROVE  BoardInv'
<1>1. hand' \in [Desks -> Dragged \cup Asked \cup Formed \cup {Nil}] /\ \A d \in Desks : hand'[d] \in {hand[d], Nil}
  BY DEF BoardInv, BoardTypeOK
<1>2. BoardTypeOK'
  BY <1>1 DEF BoardInv, BoardTypeOK
<1>3. ASSUME NEW b \in Bookings, NEW x \in StayRow \cup {Nil}, Seen(b, x)
      PROVE  x # Nil => stays'[b] \in StayRow /\ (x.version < stays'[b].version \/ x = stays'[b])
  BY <1>3 DEF Seen, Grow, StayRow
<1>4. ASSUME NEW b \in Bookings, NEW n \in Nat, NEW p, SeenAt(b, n, p)
      PROVE  stays'[b] \in StayRow /\ (n < stays'[b].version \/ (n = stays'[b].version /\ p = stays'[b].place))
  BY <1>4 DEF SeenAt, Grow, StayRow
<1>5. Copies'
  <2>1. ASSUME NEW d \in Desks, NEW b \in Bookings PROVE Seen(b, board[d][b])'
    BY <1>3 DEF BoardInv, BoardTypeOK, Copies, Seen
  <2>2. ASSUME NEW d \in Desks, hand'[d] # Nil PROVE Seen(hand[d].id, hand[d].was)'
    <3>1. hand'[d] = hand[d] /\ hand[d].id \in Bookings /\ hand[d].was \in StayRow \cup {Nil} /\ Seen(hand[d].id, hand[d].was)
      BY <1>1, <2>2, KindOfHand DEF BoardInv, BoardTypeOK, Copies, Dragged, Asked, Formed
    <3> QED BY <1>3, <3>1 DEF Seen
  <2>3. ASSUME NEW d \in Desks, hand'[d] # Nil, hand'[d].at = "confirm", hand'[d].swap # Nil
        PROVE  hand'[d].swap # hand'[d].id /\ SeenAt(hand[d].swap, hand[d].swapVersion, hand[d].shown.place)'
    <3>1. hand'[d] = hand[d] /\ hand[d] \in Asked
      BY <1>1, <2>3, KindOfHand DEF BoardInv
    <3>2. hand[d].swap \in Bookings /\ hand[d].swapVersion \in Nat /\ hand[d].swap # hand[d].id
          /\ SeenAt(hand[d].swap, hand[d].swapVersion, hand[d].shown.place)
      BY <2>3, <3>1 DEF Asked, BoardInv, Copies
    <3>3. LET n == hand[d].swapVersion
          IN  /\ stays'[hand[d].swap] \in StayRow
              /\ n < stays'[hand[d].swap].version
                 \/ (n = stays'[hand[d].swap].version /\ hand[d].shown.place = stays'[hand[d].swap].place)
      BY <1>4, <3>2
    <3> QED BY <3>1, <3>2, <3>3 DEF SeenAt
  <2> QED BY <2>1, <2>2, <2>3 DEF Copies
<1>6. Forms'
  <2>1. ASSUME NEW d \in Desks, NewForm(d)'
        PROVE  /\ stays'[hand'[d].id] = Nil
               /\ \A e \in Desks \ {d} : hand'[e] # Nil => hand'[e].id # hand'[d].id
    <3>1. hand'[d] = hand[d] /\ NewForm(d) /\ hand[d].id \in Bookings
      BY <1>1, <2>1, KindOfHand DEF NewForm, BoardInv
    <3>2. /\ stays[hand[d].id] = Nil
          /\ \A e \in Desks \ {d} : hand[e] # Nil => hand[e].id # hand[d].id
      BY <3>1 DEF BoardInv, Forms
    <3>3. \A e \in Desks : NewForm(e) /\ hand[e].id = hand[d].id => e = d
      BY <3>2 DEF NewForm
    <3>4. stays'[hand[d].id] = Nil
      BY <2>1, <3>1, <3>2, <3>3 DEF NewForm
    <3> QED BY <1>1, <3>1, <3>2, <3>4
  <2> QED BY <1>1, <2>1 DEF BoardInv, Forms
<1> QED BY <1>2, <1>5, <1>6 DEF BoardInv

\* A hand takes something up: the book stands.
LEMMA HandTakes ==
  ASSUME BoardInv, NEW d \in Desks, NEW h \in Dragged \cup Asked \cup Formed \cup {Nil}, Takes(d, h),
         UNCHANGED <<multiPlace, stays, board>>,
         h # Nil =>
           /\ Seen(h.id, h.was)
           /\ h.at = "confirm" /\ h.swap # Nil => h.swap # h.id /\ SeenAt(h.swap, h.swapVersion, h.shown.place)
           /\ h.at = "form" => h.status = IF h.was = Nil THEN "CONFIRMED" ELSE h.was.status
           /\ h.at = "form" /\ h.was = Nil =>
                stays[h.id] = Nil /\ \A e \in Desks \ {d} : hand[e] # Nil => hand[e].id # h.id
           /\ \A e \in Desks \ {d} : NewForm(e) => hand[e].id # h.id
  PROVE  BoardInv'
<1>1. hand'[d] = h /\ \A e \in Desks : e # d => hand'[e] = hand[e]
  BY DEF Takes, BoardInv, BoardTypeOK
<1>2. BoardTypeOK'
  BY DEF Takes, BoardInv, BoardTypeOK
<1>3. \A b, x : Seen(b, x)' <=> Seen(b, x)
  BY DEF Seen
<1>4. \A b, n, p : SeenAt(b, n, p)' <=> SeenAt(b, n, p)
  BY DEF SeenAt
<1>5. Copies'
  BY <1>1, <1>3, <1>4 DEF BoardInv, Copies
<1>6. Forms'
  BY <1>1 DEF BoardInv, Forms, NewForm
<1> QED BY <1>2, <1>5, <1>6 DEF BoardInv

\* It lets go.
LEMMA HandLets ==
  ASSUME BoardInv, NEW d \in Desks, Lets(d), UNCHANGED <<multiPlace, stays, board>>
  PROVE  BoardInv'
BY HandTakes DEF Lets, Takes

LEMMA LoadKeeps ==
  ASSUME BoardInv, NEW d \in Desks, Load(d)
  PROVE  BoardInv'
<1>1. BoardTypeOK' /\ UNCHANGED <<stays, hand>>
  BY DEF BoardInv, BoardTypeOK, Load
<1>2. \A e \in Desks : board'[e] \in {board[e], stays}
  BY DEF BoardInv, BoardTypeOK, Load
<1>3. \A b, x : Seen(b, x)' <=> Seen(b, x)
  BY <1>1 DEF Seen
<1>4. \A b, n, p : SeenAt(b, n, p)' <=> SeenAt(b, n, p)
  BY <1>1 DEF SeenAt
<1>5. \A b \in Bookings : Seen(b, stays[b])
  BY DEF Seen, BoardInv, BoardTypeOK
<1>6. Copies'
  BY <1>1, <1>2, <1>3, <1>4, <1>5 DEF BoardInv, Copies
<1>7. Forms'
  BY <1>1 DEF BoardInv, Forms, NewForm
<1> QED BY <1>1, <1>6, <1>7 DEF BoardInv

\* What is seen at the version a booking has is the booking.
LEMMA SeenIsBooking ==
  ASSUME BoardTypeOK, NEW b \in Bookings, NEW x \in StayRow, x # Nil, Seen(b, x), stays[b].version = x.version
  PROVE  x = stays[b]
BY DEF Seen, StayRow

LEMMA MouseDownKeeps ==
  ASSUME BoardInv, NEW d \in Desks, NEW b \in Bookings, NEW type \in {"move", "resize-left", "resize-right"},
         HandleBookingMouseDown(d, b, type)
  PROVE  BoardInv'
<1> DEFINE h == [at |-> "drag", id |-> b, was |-> board[d][b], type |-> type]
<1>1. board[d][b] \in StayRow /\ Seen(b, board[d][b]) /\ stays[b] \in StayRow
  BY DEF HandleBookingMouseDown, BoardInv, BoardTypeOK, Copies, Seen
<1>2. h \in Dragged
  BY <1>1 DEF Dragged
<1>3. \A e \in Desks : NewForm(e) => hand[e].id # b
  BY <1>1, NilIsNoRow DEF BoardInv, Forms
<1>4. Takes(d, h) /\ UNCHANGED <<multiPlace, stays, board>>
  BY DEF HandleBookingMouseDown
<1> QED BY <1>1, <1>2, <1>3, <1>4, HandTakes

LEMMA OpenEditFormKeeps ==
  ASSUME BoardInv, NEW d \in Desks, NEW b \in Bookings, OpenEditForm(d, b)
  PROVE  BoardInv'
<1> DEFINE x == board[d][b]
           h == [at |-> "form", id |-> b, was |-> x, room |-> x.room, from |-> x.from, to |-> x.to,
                 contact |-> x.contact, status |-> x.status]
<1>1. x \in StayRow /\ x # Nil /\ x.status \in Shown /\ Seen(b, x) /\ stays[b] \in StayRow
  BY DEF OpenEditForm, BoardInv, BoardTypeOK, Copies, Seen
<1>2. Takes(d, h) /\ UNCHANGED <<multiPlace, stays, board>>
  BY DEF OpenEditForm
<1>3. \A e \in Desks : NewForm(e) => hand[e].id # b
  BY <1>1, NilIsNoRow DEF BoardInv, Forms
<1> HIDE DEF x
<1>4. h \in Formed
  BY <1>1 DEF Formed, StayRow
<1> QED BY <1>1, <1>2, <1>3, <1>4, HandTakes

LEMMA OpenNewFormKeeps ==
  ASSUME BoardAssumption, BoardInv, NEW d \in Desks, NEW b \in Bookings, NEW room \in Rooms,
         NEW from \in 0..LastDay, NEW to \in 0..LastDay, OpenNewForm(d, b, room, from, to)
  PROVE  BoardInv'
<1> DEFINE h == [at |-> "form", id |-> b, was |-> Nil, room |-> room, from |-> from, to |-> to,
                 contact |-> Blank, status |-> "CONFIRMED"]
<1>1. h \in Formed
  BY DEF Formed, BoardAssumption, Shown
<1>2. stays[b] = Nil /\ \A e \in Desks : hand[e] # Nil => hand[e].id # b
  BY DEF OpenNewForm
<1>3. Seen(b, Nil)
  BY DEF Seen
<1>4. Takes(d, h) /\ UNCHANGED <<multiPlace, stays, board>>
  BY DEF OpenNewForm
<1> QED BY <1>1, <1>2, <1>3, <1>4, HandTakes DEF NewForm

LEMMA EditFormKeeps ==
  ASSUME BoardAssumption, BoardInv, NEW d \in Desks, NEW room \in Rooms,
         NEW from \in Int, NEW to \in Int, NEW contact \in Contacts, EditForm(d, room, from, to, contact)
  PROVE  BoardInv'
<1> DEFINE h == [hand[d] EXCEPT !.room = room, !.from = from, !.to = to, !.contact = contact]
<1>1. hand[d] \in Formed /\ hand[d] # Nil /\ hand[d].was # Nil
  BY KindOfHand DEF EditForm, Doing, BoardInv
<1>2. h \in Formed /\ h.id = hand[d].id /\ h.was = hand[d].was /\ h.status = hand[d].status /\ h.at = "form"
  <2>1. contact \in STRING
    BY DEF BoardAssumption
  <2> QED BY <1>1, <2>1 DEF Formed
<1>3. Takes(d, h) /\ UNCHANGED <<multiPlace, stays, board>>
  BY DEF EditForm
<1>4. Seen(h.id, h.was) /\ h.status = hand[d].was.status
  BY <1>1, <1>2 DEF BoardInv, Copies, Forms, Formed
<1>5. \A e \in Desks \ {d} : NewForm(e) => hand[e].id # h.id
  BY <1>1, <1>2 DEF BoardInv, Forms
<1> HIDE DEF h
<1> QED BY <1>1, <1>2, <1>3, <1>4, <1>5, HandTakes

LEMMA GhostTyped ==
  ASSUME BoardAssumption, NEW was \in StayRow, NEW type \in {"move", "resize-left", "resize-right"}, NEW g \in Ghosts(was, type)
  PROVE  g \in Nights
<1>1. /\ was.room \in Rooms /\ was.place \in Int /\ was.from \in Int /\ was.to \in Int
      /\ LastDay \in Nat /\ \A s \in Rooms : Capacity[s] \in Nat
  BY DEF StayRow, BoardAssumption
<1>2. CASE type = "move"
  <2>1. PICK r \in Rooms, p \in {was.place} \cup UNION {1 .. Capacity[s] : s \in Rooms}, f \in 0 .. LastDay - (was.to - was.from) :
          g = [room |-> r, place |-> p, from |-> f, to |-> f + (was.to - was.from)]
    BY <1>2 DEF Ghosts
  <2>2. p \in Int
    BY <1>1
  <2> QED BY <1>1, <2>1, <2>2 DEF Nights
<1>3. CASE type = "resize-right"
  BY <1>1, <1>3 DEF Ghosts, Nights
<1>4. CASE type = "resize-left"
  BY <1>1, <1>4 DEF Ghosts, Nights
<1> QED BY <1>2, <1>3, <1>4

LEMMA FirstOfAny == ASSUME NEW S \in SUBSET Nat PROVE S # {} => First(S) \in Int
<1>1. ASSUME S # {} PROVE First(S) \in S
  BY <1>1, FirstInSet
<1>2. \A x \in S : x \in Int
  OBVIOUS
<1> QED BY <1>1, <1>2, Zenon

LEMMA MouseUpKeeps ==
  ASSUME BoardAssumption, BoardInv, NEW d \in Desks, NEW g, HandleMouseUp(d, g)
  PROVE  BoardInv'
<1> DEFINE was == hand[d].was
           to == Dropped(d, g)
           shown == [g EXCEPT !.place = to.place]
<1>1. hand[d] \in Dragged /\ hand[d] # Nil /\ was \in StayRow /\ hand[d].id \in Bookings
  BY KindOfHand DEF HandleMouseUp, Doing, BoardInv, Dragged
<1>2. g \in Nights
  BY <1>1, GhostTyped DEF HandleMouseUp, Dragged
<1>3. to.place \in Int /\ (to.swap => to.place = g.place)
  <2> DEFINE there == Overlapping(board[d], g.room, g.from, g.to, hand[d].id)
             free == {p \in 1 .. Capacity[g.room] :
                        p \notin {o.place : o \in there} /\ ~(g.room = was.room /\ p = was.place)}
  <2>1. free # {} => First(free) \in Int
    <3>1. free \in SUBSET Nat
      OBVIOUS
    <3> HIDE DEF free
    <3> QED BY <3>1, FirstOfAny
  <2>2. \/ to = [place |-> g.place, swap |-> FALSE]
        \/ free # {} /\ to = [place |-> First(free), swap |-> FALSE]
        \/ to = [place |-> g.place, swap |-> g.room = was.room /\ g.place # was.place]
    BY Zenon DEF Dropped
  <2> HIDE DEF to, free
  <2> QED BY <1>2, <2>1, <2>2 DEF Nights
<1>4. UNCHANGED <<multiPlace, stays, board>>
  BY DEF HandleMouseUp
<1>5. \/ Lets(d)
      \/ \E i \in IF to.swap THEN Occupants(d, g) ELSE {Nil} :
           Takes(d, [at |-> "confirm", id |-> hand[d].id, was |-> was, shown |-> shown,
                     swap |-> i, swapVersion |-> IF i = Nil THEN 0 ELSE board[d][i].version])
  BY DEF HandleMouseUp
<1> HIDE DEF to
<1>6. shown \in Nights /\ shown.place = to.place
  BY <1>2, <1>3 DEF Nights
<1> HIDE DEF shown
<1>7. ASSUME NEW i \in IF to.swap THEN Occupants(d, g) ELSE {Nil},
             Takes(d, [at |-> "confirm", id |-> hand[d].id, was |-> was, shown |-> shown,
                       swap |-> i, swapVersion |-> IF i = Nil THEN 0 ELSE board[d][i].version])
      PROVE  BoardInv'
  <2> DEFINE n == IF i = Nil THEN 0 ELSE board[d][i].version
             h == [at |-> "confirm", id |-> hand[d].id, was |-> was, shown |-> shown, swap |-> i, swapVersion |-> n]
  <2>1. i # Nil => /\ i \in Bookings /\ i # hand[d].id /\ board[d][i] \in StayRow
                   /\ board[d][i].place = shown.place /\ Seen(i, board[d][i]) /\ board[d][i] # Nil
    BY <1>3, <1>6, <1>7 DEF Occupants, BoardInv, BoardTypeOK, Copies
  <2>2. n \in Nat /\ i \in Bookings \cup {Nil}
    BY <1>7, <2>1 DEF StayRow
  <2>3. i # Nil => SeenAt(i, n, shown.place)
    BY <2>1 DEF Seen, SeenAt
  <2> HIDE DEF n
  <2>4. h \in Asked
    BY <1>1, <1>6, <2>2 DEF Asked
  <2>5. Seen(hand[d].id, was) /\ \A e \in Desks \ {d} : NewForm(e) => hand[e].id # hand[d].id
    BY <1>1 DEF BoardInv, Copies, Forms
  <2>6. Takes(d, h)
    BY <1>7 DEF n
  <2> QED BY <1>4, <2>1, <2>3, <2>4, <2>5, <2>6, HandTakes
<1> QED BY <1>4, <1>5, <1>7, HandLets

(* Requests *)

LEMMA PlaceTyped ==
  ASSUME BoardAssumption, BoardTypeOK, NEW room \in Rooms, NEW from, NEW to, NEW guests \in Nat \ {0}, NEW b
  PROVE  Allocated(room, from, to, guests, b) \in Int
<1>1. Capacity[room] \in Nat /\ multiPlace \in BOOLEAN
  BY DEF BoardAssumption, BoardTypeOK
<1> QED BY <1>1, AllocateType DEF Allocated

Changes ==
  [room : Rooms, from : Int, to : Int, place : Int \cup {Nil}, price : Int \cup {Nil}, contact : STRING \cup {Nil}]

\* A change gives the booking what it names, and a version of its own.
LEMMA UpdateWrites ==
  ASSUME BoardAssumption, BoardTypeOK, NEW b \in Bookings, stays[b] \in StayRow, NEW seen, NEW c \in Changes, Update(b, seen, c)
  PROVE  /\ stays[b].version = seen /\ stays'[b] \in StayRow /\ stays'[b].version = stays[b].version + 1
         /\ stays'[b].room = c.room /\ stays'[b].from = c.from /\ stays'[b].to = c.to
         /\ c.place # Nil => stays'[b].place = c.place
         /\ stays'[b].price = IF c.price = Nil THEN stays[b].price ELSE c.price
         /\ stays'[b].contact = IF c.contact = Nil THEN stays[b].contact ELSE c.contact
         /\ stays'[b].status = stays[b].status
         /\ \A i \in Bookings : i # b => stays'[i] = stays[i]
         /\ stays' \in [Bookings -> StayRow \cup {Nil}]
<1> DEFINE place == Resolved(b, c)
           price == IF c.price = Nil THEN stays[b].price ELSE c.price
           contact == IF c.contact = Nil THEN stays[b].contact ELSE c.contact
           row == [stays[b] EXCEPT !.room = c.room, !.from = c.from, !.to = c.to, !.place = place,
                     !.price = price, !.contact = contact, !.version = stays[b].version + 1]
<1>1. /\ stays[b].place \in Int /\ stays[b].guests \in Nat \ {0} /\ stays[b].version + 1 \in Nat
      /\ c.room \in Rooms /\ c.from \in Int /\ c.to \in Int /\ c.place \in Int \cup {Nil}
  BY DEF StayRow, Changes
<1>2. Allocated(c.room, c.from, c.to, stays[b].guests, b) \in Int
  BY <1>1, PlaceTyped
<1>3. place \in Int
  BY <1>1, <1>2 DEF Resolved, NoPlace
<1>4. c.place # Nil => place = c.place
  BY DEF Update, Accepts, Resolved
<1>5. price \in Int \cup {Nil} /\ contact \in STRING
  BY DEF StayRow, Changes
<1>6. stays' = [stays EXCEPT ![b] = row] /\ stays[b].version = seen
  BY DEF Update, Accepts
<1> HIDE DEF place, price, contact
<1>7. /\ row \in StayRow /\ row.version = stays[b].version + 1 /\ row.place = place /\ row.price = price
      /\ row.room = c.room /\ row.from = c.from /\ row.to = c.to /\ row.contact = contact /\ row.status = stays[b].status
  BY <1>1, <1>3, <1>5 DEF StayRow
<1> HIDE DEF row
<1>8. stays'[b] = row /\ \A i \in Bookings : i # b => stays'[i] = stays[i]
  BY <1>6 DEF BoardTypeOK
<1>9. stays' \in [Bookings -> StayRow \cup {Nil}]
  BY <1>6, <1>7 DEF BoardTypeOK
<1> QED BY <1>4, <1>6, <1>7, <1>8, <1>9 DEF price, contact

LEMMA UpdateKeeps ==
  ASSUME BoardAssumption, BoardInv, NEW b \in Bookings, stays[b] \in StayRow, NEW seen, NEW c \in Changes, Update(b, seen, c),
         hand' = hand \/ \E d \in Desks : Lets(d), UNCHANGED <<multiPlace, board>>
  PROVE  BoardInv'
<1>1. Grow
  BY UpdateWrites DEF BoardInv, Grow, StayRow
<1>2. \A i \in Bookings : stays[i] = Nil => stays'[i] = Nil
  BY UpdateWrites, NilIsNoRow DEF BoardInv
<1> QED BY <1>1, <1>2, UpdateWrites, BookChanges DEF Lets, BoardInv

\* A drag that is confirmed, with nobody to swap with.
LEMMA PatchTyped ==
  ASSUME NEW h \in Asked
  PROVE  Patch(h) \in Changes
BY DEF Patch, Asked, Nights, Changes

LEMMA ConfirmDragWrites ==
  ASSUME BoardAssumption, BoardInv, NEW d \in Desks, ConfirmDrag(d)
  PROVE  /\ hand[d] \in Asked /\ hand[d].id \in Bookings /\ stays[hand[d].id] \in StayRow
         /\ hand[d].swap = Nil => Update(hand[d].id, hand[d].was.version, Patch(hand[d])) /\ stays[hand[d].id] = hand[d].was
         /\ hand[d].swap # Nil =>
              LET a == hand[d].id
                  b == hand[d].swap
              IN  /\ a # b /\ b \in Bookings /\ stays[b] \in StayRow
                  /\ stays[a] = hand[d].was /\ stays[b].place = hand[d].shown.place
                  /\ stays' = [stays EXCEPT ![a] = [stays[a] EXCEPT !.place = stays[b].place, !.version = stays[a].version + 1],
                                            ![b] = [stays[b] EXCEPT !.place = stays[a].place, !.version = stays[b].version + 1]]
<1> DEFINE h == hand[d]
<1>1. h \in Asked /\ h # Nil /\ h.at = "confirm" /\ h.id \in Bookings /\ h.was \in StayRow /\ h.swap \in Bookings \cup {Nil}
  BY KindOfHand DEF ConfirmDrag, Doing, BoardInv, Asked
<1>2. Seen(h.id, h.was) /\ stays[h.id] \in StayRow
  BY <1>1, NilIsNoRow DEF BoardInv, Copies, Seen
<1>3. ASSUME h.swap = Nil PROVE Update(h.id, h.was.version, Patch(h)) /\ stays[h.id] = h.was
  <2>1. Update(h.id, h.was.version, Patch(h))
    BY <1>3 DEF ConfirmDrag
  <2>2. stays[h.id].version = h.was.version
    BY <2>1 DEF Update, Accepts
  <2> QED BY <1>1, <1>2, <2>1, <2>2, NilIsNoRow, SeenIsBooking DEF BoardInv
<1>4. ASSUME h.swap # Nil
      PROVE  /\ h.id # h.swap /\ h.swap \in Bookings /\ stays[h.swap] \in StayRow
             /\ stays[h.id] = h.was /\ stays[h.swap].place = h.shown.place
  <2>1. Swaps(h.id, h.was.version, h.swap, h.swapVersion)
    BY <1>4 DEF ConfirmDrag
  <2>2. h.swap # h.id /\ SeenAt(h.swap, h.swapVersion, h.shown.place)
    BY <1>1, <1>4 DEF BoardInv, Copies
  <2>3. stays[h.id] = h.was
    BY <1>1, <1>2, <2>1, NilIsNoRow, SeenIsBooking DEF Swaps, BoardInv
  <2>4. stays[h.swap].place = h.shown.place
    <3>1. stays[h.swap].version = h.swapVersion
      BY <2>1 DEF Swaps
    <3>2. stays[h.swap].version \in Nat
      BY <2>2 DEF SeenAt, StayRow
    <3>3. ~(h.swapVersion < stays[h.swap].version)
      BY <3>1, <3>2
    <3> QED BY <2>2, <3>3 DEF SeenAt
  <2> QED BY <1>1, <1>4, <2>2, <2>3, <2>4 DEF SeenAt
<1>5. ASSUME h.swap # Nil
      PROVE  stays' = [stays EXCEPT ![h.id] = [stays[h.id] EXCEPT !.place = stays[h.swap].place, !.version = stays[h.id].version + 1],
                                    ![h.swap] = [stays[h.swap] EXCEPT !.place = stays[h.id].place, !.version = stays[h.swap].version + 1]]
  BY <1>4, <1>5 DEF ConfirmDrag, Swaps, BoardInv, BoardTypeOK
<1> QED BY <1>1, <1>2, <1>3, <1>4, <1>5

LEMMA NextVersion == ASSUME NEW x \in StayRow, NEW y, y.version = x.version + 1 PROVE x.version < y.version
<1>1. x.version \in Nat
  BY DEF StayRow
<1> QED BY <1>1

LEMMA ConfirmDragKeeps ==
  ASSUME BoardAssumption, BoardInv, NEW d \in Desks, ConfirmDrag(d)
  PROVE  BoardInv'
<1> DEFINE h == hand[d]
           a == h.id
           b == h.swap
<1>1. Lets(d) /\ UNCHANGED <<multiPlace, board>> /\ h \in Asked /\ a \in Bookings /\ stays[a] \in StayRow
  BY ConfirmDragWrites DEF ConfirmDrag
<1>2. CASE b = Nil
  <2>1. Update(a, h.was.version, Patch(h)) /\ Patch(h) \in Changes
    BY <1>1, <1>2, ConfirmDragWrites, PatchTyped
  <2> QED BY <1>1, <2>1, UpdateKeeps
<1>3. CASE b # Nil
  <2> DEFINE rowA == [stays[a] EXCEPT !.place = stays[b].place, !.version = stays[a].version + 1]
             rowB == [stays[b] EXCEPT !.place = stays[a].place, !.version = stays[b].version + 1]
  <2>1. a # b /\ b \in Bookings /\ stays[b] \in StayRow /\ stays' = [stays EXCEPT ![a] = rowA, ![b] = rowB]
    BY <1>3, ConfirmDragWrites
  <2>6. stays[a].version + 1 \in Nat /\ stays[b].version + 1 \in Nat /\ stays[a].place \in Int /\ stays[b].place \in Int
    BY <1>1, <2>1 DEF StayRow
  <2>7. /\ rowA \in StayRow /\ rowA.version = stays[a].version + 1
        /\ rowB \in StayRow /\ rowB.version = stays[b].version + 1
    BY <1>1, <2>1, <2>6 DEF StayRow
  <2>2. /\ rowA \in StayRow /\ stays[a].version < rowA.version
        /\ rowB \in StayRow /\ stays[b].version < rowB.version
    BY <1>1, <2>1, <2>7, NextVersion
  <2> HIDE DEF rowA, rowB, a, b
  <2>3. /\ stays'[a] = rowA /\ stays'[b] = rowB /\ \A i \in Bookings : i \notin {a, b} => stays'[i] = stays[i]
        /\ stays' \in [Bookings -> StayRow \cup {Nil}]
    BY <1>1, <2>1, <2>2 DEF BoardInv, BoardTypeOK
  <2>4. Grow
    BY <2>2, <2>3 DEF Grow
  <2>5. \A i \in Bookings : stays[i] = Nil => stays'[i] = Nil
    BY <1>1, <2>1, <2>3, NilIsNoRow
  <2> QED BY <1>1, <2>3, <2>4, <2>5, BookChanges DEF Lets
<1> QED BY <1>2, <1>3

\* What a form sends.
Sent(f) ==
  [room |-> f.room, from |-> f.from, to |-> f.to, place |-> Nil,
   price |-> IF TotalPrice(f) = 0 THEN Nil ELSE TotalPrice(f),
   contact |-> IF f.contact = Blank THEN Nil ELSE f.contact]

LEMMA SentTyped ==
  ASSUME BoardAssumption, NEW f \in Formed
  PROVE  Sent(f) \in Changes
<1>1. Rack[f.room] \in Int /\ f.from \in Int /\ f.to \in Int
  BY DEF BoardAssumption, Formed
<1>2. \A n, r \in Int : n * r \in Int
  OBVIOUS
<1>3. (IF f.to > f.from THEN f.to - f.from ELSE 0) \in Int
  BY <1>1
<1>4. (IF f.to > f.from THEN f.to - f.from ELSE 0) * Rack[f.room] \in Int
  BY <1>1, <1>2, <1>3
<1>5. f.was # Nil => f.was.price \in Int \cup {Nil}
  BY DEF Formed, StayRow
<1>6. TotalPrice(f) \in Int
  BY <1>4, <1>5, Zenon DEF TotalPrice
<1> DEFINE price == IF TotalPrice(f) = 0 THEN Nil ELSE TotalPrice(f)
           contact == IF f.contact = Blank THEN Nil ELSE f.contact
<1>7. price \in Int \cup {Nil} /\ contact \in STRING \cup {Nil}
  BY <1>6 DEF Formed
<1> HIDE DEF price, contact
<1>8. [room |-> f.room, from |-> f.from, to |-> f.to, place |-> Nil, price |-> price, contact |-> contact] \in Changes
  BY <1>7 DEF Changes, Formed
<1> QED BY <1>8 DEF Sent, price, contact

\* A form that is saved: the booking it was opened from, as it is; or a new one.
LEMMA FormSaveWrites ==
  ASSUME BoardAssumption, BoardInv, NEW d \in Desks, HandleFormSave(d)
  PROVE  /\ hand[d] \in Formed /\ hand[d] # Nil /\ hand[d].at = "form" /\ hand[d].id \in Bookings
         /\ hand[d].was # Nil => /\ stays[hand[d].id] \in StayRow /\ stays[hand[d].id] = hand[d].was
                                 /\ Update(hand[d].id, hand[d].was.version, Sent(hand[d]))
         /\ hand[d].was = Nil => \E place \in Int :
              stays' = [stays EXCEPT ![hand[d].id] =
                [room |-> hand[d].room, place |-> place, from |-> hand[d].from, to |-> hand[d].to,
                 guests |-> 1, status |-> "CONFIRMED", price |-> Sent(hand[d]).price, contact |-> hand[d].contact, version |-> 1]]
<1> DEFINE f == hand[d]
<1>1. f \in Formed /\ f # Nil /\ f.at = "form" /\ f.id \in Bookings
  BY KindOfHand DEF HandleFormSave, Doing, BoardInv
<1>2. ASSUME f.was # Nil
      PROVE  stays[f.id] \in StayRow /\ stays[f.id] = f.was /\ Update(f.id, f.was.version, Sent(f))
  <2>1. Update(f.id, f.was.version, Sent(f))
    BY <1>2 DEF HandleFormSave, Sent
  <2>2. Seen(f.id, f.was) /\ f.was \in StayRow
    BY <1>1, <1>2 DEF BoardInv, Copies, Formed
  <2>3. stays[f.id].version = f.was.version
    BY <2>1 DEF Update, Accepts
  <2>4. stays[f.id] = f.was
    BY <1>1, <1>2, <2>2, <2>3, SeenIsBooking DEF BoardInv
  <2> QED BY <2>1, <2>2, <2>4
<1>3. ASSUME f.was = Nil
      PROVE  \E place \in Int :
               stays' = [stays EXCEPT ![f.id] =
                 [room |-> f.room, place |-> place, from |-> f.from, to |-> f.to,
                  guests |-> 1, status |-> "CONFIRMED", price |-> Sent(f).price, contact |-> f.contact, version |-> 1]]
  <2>1. Allocated(f.room, f.from, f.to, 1, f.id) \in Int
    BY <1>1, PlaceTyped DEF Formed, BoardInv
  <2> QED BY <1>3, <2>1 DEF HandleFormSave, Sent
<1> QED BY <1>1, <1>2, <1>3

LEMMA FormSaveKeeps ==
  ASSUME BoardAssumption, BoardInv, NEW d \in Desks, HandleFormSave(d)
  PROVE  BoardInv'
<1> DEFINE f == hand[d]
<1>1. f \in Formed /\ f # Nil /\ f.at = "form" /\ f.id \in Bookings /\ Lets(d) /\ UNCHANGED <<multiPlace, board>>
  BY FormSaveWrites DEF HandleFormSave
<1>2. CASE f.was # Nil
  BY <1>1, <1>2, FormSaveWrites, SentTyped, UpdateKeeps
<1>3. CASE f.was = Nil
  <2>1. PICK place \in Int :
          stays' = [stays EXCEPT ![f.id] =
            [room |-> f.room, place |-> place, from |-> f.from, to |-> f.to,
             guests |-> 1, status |-> "CONFIRMED", price |-> Sent(f).price, contact |-> f.contact, version |-> 1]]
    BY <1>3, FormSaveWrites
  <2> DEFINE row == [room |-> f.room, place |-> place, from |-> f.from, to |-> f.to, guests |-> 1,
                     status |-> "CONFIRMED", price |-> Sent(f).price, contact |-> f.contact, version |-> 1]
  <2>2. Sent(f).price \in Int \cup {Nil}
    BY <1>1, SentTyped DEF Changes
  <2>3. row \in StayRow
    BY <1>1, <2>2 DEF StayRow, Formed, Shown
  <2> HIDE DEF row
  <2>4. /\ stays'[f.id] = row /\ \A i \in Bookings : i # f.id => stays'[i] = stays[i]
        /\ stays' \in [Bookings -> StayRow \cup {Nil}]
    BY <1>1, <2>1, <2>3 DEF BoardInv, BoardTypeOK, row
  <2>5. stays[f.id] = Nil /\ NewForm(d)
    BY <1>1, <1>3 DEF BoardInv, Forms, NewForm
  <2>6. Grow
    BY <2>4, <2>5, NilIsNoRow DEF Grow
  <2>7. hand'[d] = Nil
    BY <1>1 DEF Lets, BoardInv, BoardTypeOK
  <2> QED BY <1>1, <2>4, <2>5, <2>6, <2>7, BookChanges DEF Lets
<1> QED BY <1>2, <1>3

\* A booking gets another status.
LEMMA BecomesWrites ==
  ASSUME BoardTypeOK, NEW b \in Bookings, stays[b] \in StayRow, NEW status \in Shown \cup {"CANCELLED"}, Becomes(b, status)
  PROVE  /\ stays'[b] = [stays[b] EXCEPT !.status = status, !.version = stays[b].version + 1]
         /\ stays'[b] \in StayRow /\ stays[b].version < stays'[b].version /\ stays'[b].status = status
         /\ \A i \in Bookings : i # b => stays'[i] = stays[i]
         /\ stays' \in [Bookings -> StayRow \cup {Nil}]
<1> DEFINE row == [stays[b] EXCEPT !.status = status, !.version = stays[b].version + 1]
<1>1. stays' = [stays EXCEPT ![b] = row]
  BY DEF Becomes, BoardTypeOK
<1>2. stays[b].version + 1 \in Nat
  BY DEF StayRow
<1>3. row \in StayRow /\ row.version = stays[b].version + 1 /\ row.status = status
  BY <1>2 DEF StayRow
<1>4. stays[b].version < row.version
  BY <1>3, NextVersion
<1> HIDE DEF row
<1>5. stays'[b] = row /\ \A i \in Bookings : i # b => stays'[i] = stays[i]
  BY <1>1 DEF BoardTypeOK
<1>6. stays' \in [Bookings -> StayRow \cup {Nil}]
  BY <1>1, <1>3 DEF BoardTypeOK
<1> QED BY <1>3, <1>4, <1>5, <1>6 DEF row

LEMMA BecomesKeeps ==
  ASSUME BoardAssumption, BoardInv, NEW b \in Bookings, stays[b] \in StayRow, NEW status \in Shown \cup {"CANCELLED"},
         Becomes(b, status), hand' = hand \/ \E d \in Desks : Lets(d), UNCHANGED <<multiPlace, board>>
  PROVE  BoardInv'
<1>1. Grow
  BY BecomesWrites DEF Grow, BoardInv
<1>2. \A i \in Bookings : stays[i] = Nil => stays'[i] = Nil
  BY BecomesWrites, NilIsNoRow DEF BoardInv
<1> QED BY <1>1, <1>2, BecomesWrites, BookChanges DEF Lets, BoardInv

LEMMA FormButtons ==
  ASSUME BoardAssumption, BoardInv, NEW d \in Desks, ConfirmCancel(d) \/ HandleRecordCheckout(d)
  PROVE  /\ hand[d] \in Formed /\ hand[d].was # Nil /\ hand[d].id \in Bookings /\ stays[hand[d].id] \in StayRow
         /\ hand[d].status = hand[d].was.status /\ Lets(d) /\ UNCHANGED <<multiPlace, board>>
         /\ \/ Becomes(hand[d].id, "CANCELLED")
            \/ Becomes(hand[d].id, "CHECKED_OUT") /\ hand[d].status = "CHECKED_IN"
<1>1. hand[d] \in Formed /\ hand[d] # Nil /\ hand[d].was # Nil /\ hand[d].id \in Bookings /\ hand[d].at = "form"
  BY KindOfHand DEF ConfirmCancel, HandleRecordCheckout, Doing, BoardInv
<1>2. stays[hand[d].id] \in StayRow /\ hand[d].status = hand[d].was.status
  BY <1>1 DEF BoardInv, Copies, Forms, Seen
<1> QED BY <1>1, <1>2 DEF ConfirmCancel, HandleRecordCheckout

LEMMA ElsewhereWrites ==
  ASSUME BoardAssumption, BoardInv, NEW b \in Bookings, Elsewhere(b)
  PROVE  /\ stays[b] \in StayRow /\ UNCHANGED <<multiPlace, board, hand>>
         /\ \/ Becomes(b, "CANCELLED")
            \/ \E c \in Changes : Update(b, stays[b].version, c) /\ c.price = Nil
<1>1. stays[b] \in StayRow
  BY DEF Elsewhere, BoardInv, BoardTypeOK
<1>2. ASSUME NEW from \in 0 .. LastDay, NEW to \in 0 .. LastDay
      PROVE  [room |-> stays[b].room, from |-> from, to |-> to, place |-> Nil, price |-> Nil, contact |-> Nil] \in Changes
  BY <1>1 DEF StayRow, Changes
<1>3. UNCHANGED <<multiPlace, board, hand>>
  BY DEF Elsewhere
<1>4. CASE Becomes(b, "CANCELLED")
  BY <1>1, <1>3, <1>4
<1>5. ASSUME NEW from \in 0 .. LastDay, NEW to \in 0 .. LastDay,
             NEW c, c = [room |-> stays[b].room, from |-> from, to |-> to, place |-> Nil, price |-> Nil, contact |-> Nil],
             Update(b, stays[b].version, c)
      PROVE  \E x \in Changes : Update(b, stays[b].version, x) /\ x.price = Nil
  <2>1. c \in Changes /\ c.price = Nil
    BY <1>2, <1>5
  <2> QED BY <1>5, <2>1
<1>6. \/ Becomes(b, "CANCELLED")
      \/ \E from, to \in 0 .. LastDay :
           Update(b, stays[b].version, [room |-> stays[b].room, from |-> from, to |-> to, place |-> Nil, price |-> Nil, contact |-> Nil])
  BY DEF Elsewhere
<1>7. CASE \E from, to \in 0 .. LastDay :
           Update(b, stays[b].version, [room |-> stays[b].room, from |-> from, to |-> to, place |-> Nil, price |-> Nil, contact |-> Nil])
  BY <1>1, <1>3, <1>5, <1>7
<1> QED BY <1>4, <1>6, <1>7

\* What a desk does, and what it does with a booking.
OnBooking(d, b) ==
  \/ \E type \in {"move", "resize-left", "resize-right"} : HandleBookingMouseDown(d, b, type)
  \/ OpenEditForm(d, b)
  \/ \E room \in Rooms, from, to \in 0 .. LastDay : OpenNewForm(d, b, room, from, to)
OfDesk(d) ==
  \/ Load(d) \/ ConfirmDrag(d) \/ CancelDrag(d)
  \/ CloseForm(d) \/ HandleFormSave(d) \/ ConfirmCancel(d) \/ HandleRecordCheckout(d)
  \/ \E b \in Bookings : OnBooking(d, b)
  \/ Doing(d, "drag") /\ \E g \in Ghosts(hand[d].was, hand[d].type) : HandleMouseUp(d, g)
  \/ \E room \in Rooms, from, to \in 0 .. LastDay, contact \in Contacts : EditForm(d, room, from, to, contact)

LEMMA BoardKeeps == ASSUME BoardAssumption, BoardInv, BoardStep PROVE BoardInv'
<1>1. ASSUME NEW b \in Bookings, Elsewhere(b) PROVE BoardInv'
  BY <1>1, ElsewhereWrites, UpdateKeeps, BecomesKeeps
<1>2. ASSUME NEW d \in Desks, CancelDrag(d) \/ CloseForm(d) PROVE BoardInv'
  BY <1>2, HandLets DEF CancelDrag, CloseForm
<1>3. ASSUME NEW d \in Desks, ConfirmCancel(d) \/ HandleRecordCheckout(d) PROVE BoardInv'
  BY <1>3, FormButtons, BecomesKeeps DEF Shown
<1>4. ASSUME NEW d \in Desks, Load(d) \/ ConfirmDrag(d) \/ HandleFormSave(d) PROVE BoardInv'
  BY <1>4, LoadKeeps, ConfirmDragKeeps, FormSaveKeeps
<1>5. ASSUME NEW d \in Desks, NEW b \in Bookings, NEW type \in {"move", "resize-left", "resize-right"},
             HandleBookingMouseDown(d, b, type)
      PROVE  BoardInv'
  BY <1>5, MouseDownKeeps
<1>6. ASSUME NEW d \in Desks, NEW b \in Bookings, OpenEditForm(d, b) PROVE BoardInv'
  BY <1>6, OpenEditFormKeeps
<1>7. ASSUME NEW d \in Desks, NEW b \in Bookings, NEW room \in Rooms, NEW from \in 0 .. LastDay, NEW to \in 0 .. LastDay,
             OpenNewForm(d, b, room, from, to)
      PROVE  BoardInv'
  BY <1>7, OpenNewFormKeeps
<1>8. ASSUME NEW d \in Desks, NEW g, HandleMouseUp(d, g) PROVE BoardInv'
  BY <1>8, MouseUpKeeps
<1>9. ASSUME NEW d \in Desks, NEW room \in Rooms, NEW from \in 0 .. LastDay, NEW to \in 0 .. LastDay, NEW contact \in Contacts,
             EditForm(d, room, from, to, contact)
      PROVE  BoardInv'
  <2>1. from \in Int /\ to \in Int
    OBVIOUS
  <2> QED BY <1>9, <2>1, EditFormKeeps, Zenon
<1>10. CASE \E b \in Bookings : Elsewhere(b)
  BY <1>1, <1>10
<1>11. CASE ~\E b \in Bookings : Elsewhere(b)
  <2>1. PICK d \in Desks : OfDesk(d)
    BY <1>11, Zenon DEF BoardStep, OfDesk, OnBooking
  <2>2. CASE Load(d) \/ ConfirmDrag(d) \/ CancelDrag(d) \/ CloseForm(d) \/ HandleFormSave(d) \/ ConfirmCancel(d) \/ HandleRecordCheckout(d)
    BY <1>2, <1>3, <1>4, <2>2
  <2>3. CASE \E b \in Bookings : OnBooking(d, b)
    <3>1. PICK b \in Bookings : OnBooking(d, b)
      BY <2>3
    <3> QED BY <3>1, <1>5, <1>6, <1>7 DEF OnBooking
  <2>4. CASE Doing(d, "drag") /\ \E g \in Ghosts(hand[d].was, hand[d].type) : HandleMouseUp(d, g)
    BY <1>8, <2>4
  <2>5. CASE \E room \in Rooms, from, to \in 0 .. LastDay, contact \in Contacts : EditForm(d, room, from, to, contact)
    BY <1>9, <2>5
  <2> QED BY <2>1, <2>2, <2>3, <2>4, <2>5, Zenon DEF OfDesk
<1> QED BY <1>10, <1>11


LEMMA BoardStands == ASSUME BoardInv, UNCHANGED boardVars PROVE BoardInv'
<1>1. UNCHANGED <<multiPlace, stays, board, hand>>
  BY DEF boardVars
<1>2. \A b, x : Seen(b, x)' <=> Seen(b, x)
  BY <1>1 DEF Seen
<1>3. \A b, n, p : SeenAt(b, n, p)' <=> SeenAt(b, n, p)
  BY <1>1 DEF SeenAt
<1>4. BoardTypeOK' /\ Copies' /\ Forms'
  BY <1>1, <1>2, <1>3 DEF BoardInv, BoardTypeOK, Copies, Forms, NewForm
<1> QED BY <1>4 DEF BoardInv

LEMMA BoardInvariant == BoardSpec => []BoardInv
<1>1. BoardInit => BoardInv
  BY BoardStarts, BoardAssumption
<1>2. BoardInv /\ [BoardStep]_boardVars => BoardInv'
  BY BoardKeeps, BoardStands, BoardAssumption
<1> QED BY <1>1, <1>2, PTL DEF BoardSpec

\* Who writes into the book.
LEMMA WhoWrites ==
  ASSUME BoardStep, stays' # stays
  PROVE  (\E b \in Bookings : Elsewhere(b)) \/
         \E e \in Desks : ConfirmDrag(e) \/ HandleFormSave(e) \/ ConfirmCancel(e) \/ HandleRecordCheckout(e)
<1>1. \A e \in Desks : ~Load(e) /\ ~CancelDrag(e) /\ ~CloseForm(e)
  BY DEF Load, CancelDrag, CloseForm
<1>2. \A e \in Desks : \A b, type : ~HandleBookingMouseDown(e, b, type) /\ ~OpenEditForm(e, b)
  BY DEF HandleBookingMouseDown, OpenEditForm
<1>3. \A e \in Desks : \A b, room, from, to : ~OpenNewForm(e, b, room, from, to)
  BY DEF OpenNewForm
<1>4. \A e \in Desks : \A g : ~HandleMouseUp(e, g)
  BY DEF HandleMouseUp
<1>5. \A e \in Desks : \A room, from, to, contact : ~EditForm(e, room, from, to, contact)
  BY DEF EditForm
<1> QED BY <1>1, <1>2, <1>3, <1>4, <1>5 DEF BoardStep

\* A hand that lets go of something while the book changes has confirmed, saved or pressed a button.
LEMMA WhoLetsGo ==
  ASSUME BoardAssumption, BoardInv, BoardStep, NEW d \in Desks, hand[d] # Nil, hand'[d] = Nil, stays' # stays
  PROVE  ConfirmDrag(d) \/ HandleFormSave(d) \/ ConfirmCancel(d) \/ HandleRecordCheckout(d)
<1>1. \A e \in Desks : Lets(e) => \A x \in Desks \ {e} : hand'[x] = hand[x]
  BY DEF Lets, BoardInv, BoardTypeOK
<1>2. ~\E b \in Bookings : Elsewhere(b)
  BY DEF Elsewhere
<1>3. PICK e \in Desks : ConfirmDrag(e) \/ HandleFormSave(e) \/ ConfirmCancel(e) \/ HandleRecordCheckout(e)
  BY <1>2, WhoWrites
<1>4. Lets(e)
  BY <1>3 DEF ConfirmDrag, HandleFormSave, ConfirmCancel, HandleRecordCheckout
<1>5. d = e
  BY <1>1, <1>4
<1> QED BY <1>3, <1>5

(* What is confirmed is done *)

LEMMA DragIsDone ==
  ASSUME BoardAssumption, BoardInv, NEW d \in Desks, ConfirmDrag(d), hand[d].swap = Nil
  PROVE  LET h == hand[d]
             now == stays'[h.id]
         IN  /\ stays[h.id] = h.was
             /\ now.room = h.shown.room /\ now.from = h.shown.from /\ now.to = h.shown.to
             /\ h.shown.place # h.was.place => now.place = h.shown.place
             /\ now.price = h.was.price /\ now.contact = h.was.contact
<1> DEFINE h == hand[d]
<1>1. /\ h \in Asked /\ h.id \in Bookings /\ stays[h.id] \in StayRow /\ stays[h.id] = h.was
      /\ Update(h.id, h.was.version, Patch(h))
  BY ConfirmDragWrites
<1>2. Patch(h) \in Changes
  BY <1>1, PatchTyped
<1>3. h.shown.place # Nil
  BY <1>1, NilIsNoRow DEF Asked, Nights
<1>4. /\ Patch(h).room = h.shown.room /\ Patch(h).from = h.shown.from /\ Patch(h).to = h.shown.to
      /\ h.shown.place # h.was.place => Patch(h).place = h.shown.place
      /\ Patch(h).price = Nil /\ Patch(h).contact = Nil
  BY DEF Patch
<1> HIDE DEF h
<1>5. /\ stays'[h.id].room = h.shown.room /\ stays'[h.id].from = h.shown.from /\ stays'[h.id].to = h.shown.to
      /\ h.shown.place # h.was.place => stays'[h.id].place = h.shown.place
      /\ stays'[h.id].price = stays[h.id].price /\ stays'[h.id].contact = stays[h.id].contact
  BY <1>1, <1>2, <1>3, <1>4, UpdateWrites DEF BoardInv
<1> QED BY <1>1, <1>5 DEF h

LEMMA SwapIsDone ==
  ASSUME BoardAssumption, BoardInv, NEW d \in Desks, ConfirmDrag(d), hand[d].swap # Nil
  PROVE  LET h == hand[d]
         IN  /\ stays[h.id] = h.was
             /\ stays'[h.id] = [h.was EXCEPT !.place = h.shown.place, !.version = h.was.version + 1]
             /\ stays'[h.swap].place = h.was.place
<1> DEFINE h == hand[d]
           a == h.id
           b == h.swap
           rowB == [stays[b] EXCEPT !.place = stays[a].place, !.version = stays[b].version + 1]
<1>1. /\ a \in Bookings /\ b \in Bookings /\ a # b /\ stays[b] \in StayRow
      /\ stays[a] = h.was /\ stays[b].place = h.shown.place
      /\ stays' = [stays EXCEPT ![a] = [stays[a] EXCEPT !.place = stays[b].place, !.version = stays[a].version + 1], ![b] = rowB]
  BY ConfirmDragWrites
<1>2. rowB.place = stays[a].place
  BY <1>1 DEF StayRow
<1> HIDE DEF rowB, a, b
<1>3. /\ stays'[a] = [stays[a] EXCEPT !.place = stays[b].place, !.version = stays[a].version + 1]
      /\ stays'[b] = rowB
  BY <1>1 DEF BoardInv, BoardTypeOK
<1>4. stays'[a] = [h.was EXCEPT !.place = h.shown.place, !.version = h.was.version + 1]
  BY <1>1, <1>3
<1>5. stays'[b].place = h.was.place
  BY <1>1, <1>2, <1>3
<1> QED BY <1>1, <1>4, <1>5 DEF a, b

LEMMA FormIsDone ==
  ASSUME BoardAssumption, BoardInv, NEW d \in Desks, HandleFormSave(d)
  PROVE  LET h == hand[d]
             now == stays'[h.id]
         IN  /\ h.at = "form"
             /\ h.was # Nil => stays[h.id] = h.was
             /\ now.room = h.room /\ now.from = h.from /\ now.to = h.to
             /\ now.contact # h.contact => h.contact = Blank /\ now.contact = h.was.contact
<1> DEFINE h == hand[d]
<1>1. h \in Formed /\ h.at = "form" /\ h.id \in Bookings /\ Sent(h) \in Changes
  BY FormSaveWrites, SentTyped
<1>2. CASE h.was # Nil
  <2>1. stays[h.id] \in StayRow /\ stays[h.id] = h.was /\ Update(h.id, h.was.version, Sent(h))
    BY <1>2, FormSaveWrites
  <2>2. /\ Sent(h).room = h.room /\ Sent(h).from = h.from /\ Sent(h).to = h.to
        /\ Sent(h).contact = IF h.contact = Blank THEN Nil ELSE h.contact
    BY DEF Sent
  <2>3. h.contact # Nil
    BY <1>1, NilIsNoRow DEF Formed
  <2> HIDE DEF h
  <2>4. /\ stays'[h.id].room = h.room /\ stays'[h.id].from = h.from /\ stays'[h.id].to = h.to
        /\ stays'[h.id].contact = IF Sent(h).contact = Nil THEN stays[h.id].contact ELSE Sent(h).contact
    BY <1>1, <2>1, <2>2, UpdateWrites DEF BoardInv
  <2> QED BY <1>1, <2>1, <2>2, <2>3, <2>4 DEF h
<1>3. CASE h.was = Nil
  <2>1. PICK place \in Int :
          stays' = [stays EXCEPT ![h.id] =
            [room |-> h.room, place |-> place, from |-> h.from, to |-> h.to,
             guests |-> 1, status |-> "CONFIRMED", price |-> Sent(h).price, contact |-> h.contact, version |-> 1]]
    BY <1>3, FormSaveWrites
  <2> DEFINE row == [room |-> h.room, place |-> place, from |-> h.from, to |-> h.to,
                     guests |-> 1, status |-> "CONFIRMED", price |-> Sent(h).price, contact |-> h.contact, version |-> 1]
  <2>2. row.room = h.room /\ row.from = h.from /\ row.to = h.to /\ row.contact = h.contact
    OBVIOUS
  <2> HIDE DEF row
  <2>3. stays'[h.id] = row
    BY <1>1, <2>1 DEF BoardInv, BoardTypeOK, row
  <2> QED BY <1>1, <1>3, <2>2, <2>3
<1> QED BY <1>2, <1>3

\* A button of the form gives its booking a status the form does not show.
LEMMA ButtonIsSeen ==
  ASSUME BoardAssumption, BoardInv, NEW d \in Desks, ConfirmCancel(d) \/ HandleRecordCheckout(d)
  PROVE  hand[d].at = "form" /\ stays'[hand[d].id].status # hand[d].status
<1>1. hand[d].at = "form"
  BY DEF ConfirmCancel, HandleRecordCheckout, Doing
<1>2. hand[d] \in Formed /\ hand[d].id \in Bookings /\ stays[hand[d].id] \in StayRow
  BY FormButtons
<1>3. CASE Becomes(hand[d].id, "CANCELLED")
  <2>1. stays'[hand[d].id].status = "CANCELLED"
    BY <1>2, <1>3, BecomesWrites DEF BoardInv
  <2> QED BY <1>1, <1>2, <2>1 DEF Formed, Shown
<1>4. CASE Becomes(hand[d].id, "CHECKED_OUT") /\ hand[d].status = "CHECKED_IN"
  <2>1. stays'[hand[d].id].status = "CHECKED_OUT"
    BY <1>2, <1>4, BecomesWrites DEF BoardInv, Shown
  <2> QED BY <1>1, <1>4, <2>1
<1> QED BY <1>3, <1>4, FormButtons

LEMMA DoneWhenLetGo ==
  ASSUME BoardAssumption, BoardInv, BoardStep, NEW d \in Desks, hand[d] # Nil, hand'[d] = Nil, stays' # stays
  PROVE  LET h == hand[d]
             now == stays'[h.id]
         IN  /\ h.at = "confirm" /\ h.swap = Nil =>
                  /\ stays[h.id] = h.was
                  /\ now.room = h.shown.room /\ now.from = h.shown.from /\ now.to = h.shown.to
                  /\ h.shown.place # h.was.place => now.place = h.shown.place
                  /\ now.price = h.was.price /\ now.contact = h.was.contact
             /\ h.at = "confirm" /\ h.swap # Nil =>
                  /\ stays[h.id] = h.was
                  /\ now = [h.was EXCEPT !.place = h.shown.place, !.version = @ + 1]
                  /\ stays'[h.swap].place = h.was.place
             /\ h.at = "form" /\ now.status = h.status =>
                  /\ h.was # Nil => stays[h.id] = h.was
                  /\ now.room = h.room /\ now.from = h.from /\ now.to = h.to
                  /\ now.contact # h.contact => h.contact = Blank /\ now.contact = h.was.contact
<1>1. CASE ConfirmDrag(d)
  <2>1. hand[d].at = "confirm"
    BY <1>1 DEF ConfirmDrag, Doing
  <2>2. CASE hand[d].swap = Nil
    BY <1>1, <2>1, <2>2, DragIsDone, Zenon
  <2>3. CASE hand[d].swap # Nil
    BY <1>1, <2>1, <2>3, SwapIsDone, Zenon
  <2> QED BY <2>2, <2>3
<1>2. CASE HandleFormSave(d)
  <2>1. hand[d].at = "form"
    BY <1>2 DEF HandleFormSave, Doing
  <2> QED BY <1>2, <2>1, FormIsDone
<1>3. CASE ConfirmCancel(d) \/ HandleRecordCheckout(d)
  BY <1>3, ButtonIsSeen
<1> QED BY <1>1, <1>2, <1>3, WhoLetsGo

\* A drag that succeeded, a swap and a form that was saved did what was on the screen, to
\* the booking it was shown for, whatever others did meanwhile
\* (Timeline.jsx, confirmDrag, handleFormSave; the version the update names).
THEOREM ConfirmedIsWhatWasShown == BoardSpec => ConfirmedIsDone
<1> DEFINE Done ==
      \A d \in Desks : hand[d] # Nil /\ hand'[d] = Nil /\ stays' # stays =>
       LET h == hand[d]
           now == stays'[h.id]
       IN /\ h.at = "confirm" /\ h.swap = Nil =>
               /\ stays[h.id] = h.was
               /\ now.room = h.shown.room /\ now.from = h.shown.from /\ now.to = h.shown.to
               /\ h.shown.place # h.was.place => now.place = h.shown.place
               /\ now.price = h.was.price /\ now.contact = h.was.contact
          /\ h.at = "confirm" /\ h.swap # Nil =>
               /\ stays[h.id] = h.was
               /\ now = [h.was EXCEPT !.place = h.shown.place, !.version = @ + 1]
               /\ stays'[h.swap].place = h.was.place
          /\ h.at = "form" /\ now.status = h.status =>
               /\ h.was # Nil => stays[h.id] = h.was
               /\ now.room = h.room /\ now.from = h.from /\ now.to = h.to
               /\ now.contact # h.contact => h.contact = Blank /\ now.contact = h.was.contact
<1>1. BoardInv /\ [BoardStep]_boardVars => [Done]_boardVars
  <2>1. ASSUME BoardInv, BoardStep PROVE Done
    BY <2>1, DoneWhenLetGo, BoardAssumption
  <2> QED BY <2>1
<1> QED BY <1>1, BoardInvariant, PTL DEF BoardSpec, ConfirmedIsDone

(* An agreed price *)

\* A change keeps the price if it names none, or that of the booking.
LEMMA UpdatePrice ==
  ASSUME BoardAssumption, BoardInv, NEW i \in Bookings, stays[i] \in StayRow, NEW seen, NEW c \in Changes, Update(i, seen, c),
         NEW b \in Bookings, stays[b] # Nil, stays'[b].price # stays[b].price
  PROVE  /\ b = i /\ c.price # Nil /\ c.price # stays[b].price
         /\ stays'[b].room = c.room /\ stays'[b].from = c.from /\ stays'[b].to = c.to
BY UpdateWrites DEF BoardInv

LEMMA StatusKeepsPrice ==
  ASSUME BoardAssumption, BoardInv, NEW i \in Bookings, stays[i] \in StayRow, NEW status \in Shown \cup {"CANCELLED"}, Becomes(i, status),
         NEW b \in Bookings
  PROVE  stays'[b].price = stays[b].price
<1>1. stays[i].price = [stays[i] EXCEPT !.status = status, !.version = stays[i].version + 1].price
  BY DEF StayRow
<1> QED BY <1>1, BecomesWrites DEF BoardInv

LEMMA SwapKeepsPrice ==
  ASSUME BoardAssumption, BoardInv, NEW d \in Desks, ConfirmDrag(d), hand[d].swap # Nil, NEW b \in Bookings
  PROVE  stays'[b].price = stays[b].price
<1> DEFINE i == hand[d].id
           j == hand[d].swap
           rowI == [stays[i] EXCEPT !.place = stays[j].place, !.version = stays[i].version + 1]
           rowJ == [stays[j] EXCEPT !.place = stays[i].place, !.version = stays[j].version + 1]
<1>1. /\ i \in Bookings /\ j \in Bookings /\ i # j /\ stays[i] \in StayRow /\ stays[j] \in StayRow
      /\ stays' = [stays EXCEPT ![i] = rowI, ![j] = rowJ]
  BY ConfirmDragWrites
<1>2. rowI.price = stays[i].price /\ rowJ.price = stays[j].price
  BY <1>1 DEF StayRow
<1> HIDE DEF rowI, rowJ, i, j
<1>3. stays'[i] = rowI /\ stays'[j] = rowJ /\ (b # i /\ b # j => stays'[b] = stays[b])
  BY <1>1 DEF BoardInv, BoardTypeOK
<1> QED BY <1>2, <1>3

\* A form sends the price of the booking so long as it shows its room and nights.
LEMMA FormPrice ==
  ASSUME BoardAssumption, BoardInv, NEW d \in Desks, HandleFormSave(d),
         NEW b \in Bookings, stays[b] # Nil, stays[b].price # Nil, stays'[b].price # stays[b].price
  PROVE  stays'[b].room # stays[b].room \/ stays'[b].from # stays[b].from \/ stays'[b].to # stays[b].to
<1> DEFINE f == hand[d]
<1>1. f \in Formed /\ f.id \in Bookings /\ Sent(f) \in Changes
  BY FormSaveWrites, SentTyped
<1>2. CASE f.was # Nil
  <2>1. stays[f.id] \in StayRow /\ stays[f.id] = f.was /\ Update(f.id, f.was.version, Sent(f))
    BY <1>2, FormSaveWrites
  <2>2. b = f.id /\ Sent(f).price # Nil /\ Sent(f).price # stays[b].price
        /\ stays'[b].room = Sent(f).room /\ stays'[b].from = Sent(f).from /\ stays'[b].to = Sent(f).to
    BY <1>1, <2>1, UpdatePrice
  <2>3. Sent(f).room = f.room /\ Sent(f).from = f.from /\ Sent(f).to = f.to
        /\ (Sent(f).price # Nil => Sent(f).price = TotalPrice(f))
    BY DEF Sent
  <2>4. f.room = f.was.room /\ f.from = f.was.from /\ f.to = f.was.to /\ f.was.price # Nil => TotalPrice(f) = f.was.price
    BY <1>2 DEF TotalPrice
  <2> QED BY <2>1, <2>2, <2>3, <2>4
<1>3. CASE f.was = Nil
  <2>1. PICK row : stays' = [stays EXCEPT ![f.id] = row]
    BY <1>3, FormSaveWrites
  <2>2. stays[f.id] = Nil
    BY <1>1, <1>3, KindOfHand, FormSaveWrites DEF BoardInv, Forms, NewForm
  <2> QED BY <1>1, <2>1, <2>2 DEF BoardInv, BoardTypeOK
<1> QED BY <1>2, <1>3

LEMMA PriceStep ==
  ASSUME BoardAssumption, BoardInv, BoardStep,
         NEW b \in Bookings, stays[b] # Nil, stays[b].price # Nil, stays'[b].price # stays[b].price
  PROVE  stays'[b].room # stays[b].room \/ stays'[b].from # stays[b].from \/ stays'[b].to # stays[b].to
<1>1. ~\E i \in Bookings : Elsewhere(i)
  <2>1. ASSUME NEW i \in Bookings, Elsewhere(i) PROVE FALSE
    <3>1. CASE Becomes(i, "CANCELLED")
      BY <2>1, <3>1, ElsewhereWrites, StatusKeepsPrice
    <3>2. CASE \E c \in Changes : Update(i, stays[i].version, c) /\ c.price = Nil
      BY <2>1, <3>2, ElsewhereWrites, UpdatePrice
    <3> QED BY <2>1, <3>1, <3>2, ElsewhereWrites
  <2> QED BY <2>1
<1>2. PICK d \in Desks : ConfirmDrag(d) \/ HandleFormSave(d) \/ ConfirmCancel(d) \/ HandleRecordCheckout(d)
  BY <1>1, WhoWrites
<1>3. ~ConfirmDrag(d)
  <2>1. CASE ConfirmDrag(d) /\ hand[d].swap = Nil
    <3>1. /\ hand[d] \in Asked /\ hand[d].id \in Bookings /\ stays[hand[d].id] \in StayRow
          /\ Update(hand[d].id, hand[d].was.version, Patch(hand[d]))
      BY <2>1, ConfirmDragWrites
    <3>2. Patch(hand[d]) \in Changes /\ Patch(hand[d]).price = Nil
      BY <3>1, PatchTyped DEF Patch
    <3> QED BY <3>1, <3>2, UpdatePrice
  <2>2. CASE ConfirmDrag(d) /\ hand[d].swap # Nil
    BY <2>2, SwapKeepsPrice
  <2> QED BY <2>1, <2>2
<1>4. ~ConfirmCancel(d) /\ ~HandleRecordCheckout(d)
  <2>1. ASSUME ConfirmCancel(d) \/ HandleRecordCheckout(d) PROVE FALSE
    <3>1. hand[d].id \in Bookings /\ stays[hand[d].id] \in StayRow
          /\ (Becomes(hand[d].id, "CANCELLED") \/ Becomes(hand[d].id, "CHECKED_OUT"))
      BY <2>1, FormButtons
    <3> QED BY <3>1, StatusKeepsPrice DEF Shown
  <2> QED BY <2>1
<1> QED BY <1>2, <1>3, <1>4, FormPrice

\* A price that was agreed changes with the room or the nights of the booking only,
\* whoever saves a form and whatever it was loaded with
\* (BookingForm.jsx, totalPrice: the price of the booking, not the rack rate).
THEOREM AgreedPriceStays == BoardSpec => PriceStays
<1>1. BoardInv /\ [BoardStep]_boardVars =>
        [\A b \in Bookings : stays[b] # Nil /\ stays[b].price # Nil /\ stays'[b].price # stays[b].price =>
           stays'[b].room # stays[b].room \/ stays'[b].from # stays[b].from \/ stays'[b].to # stays[b].to]_boardVars
  BY PriceStep, BoardAssumption
<1> QED BY <1>1, BoardInvariant, PTL DEF BoardSpec, PriceStays

=============================================================================
