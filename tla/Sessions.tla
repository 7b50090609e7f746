------------------------------ MODULE Sessions ------------------------------
(***************************************************************************)
(* Sessions of the cabinet: refresh tokens in PostgreSQL, the cookies of   *)
(* one browser, its tabs and the requests about sessions under way.  The   *)
(* browser has one general cookie (password, panel of the dispatcher) and  *)
(* one cookie for each hotel entered by a link from Kars Avia.  A tab      *)
(* keeps its access token for itself and renews it by the cookie that      *)
(* belongs to it.  Tokens expire at any moment, so a request may be        *)
(* refused at any moment.  Every SELECT, INSERT and UPDATE is a step.      *)
(***************************************************************************)
EXTENDS Naturals, Sequences, FiniteSets

CONSTANTS
  Users,        \* everybody who can be signed in
  Dispatchers,  \* those who enter by a link from Kars Avia
  Hotels,
  Home,         \* Home[u]: the hotel of u, or None for the platform
  Tabs,         \* tabs of one browser
  Jobs,         \* requests about sessions under way at a time
  MaxEvents,    \* bound: refresh tokens issued, logouts, failures and switches, together
  Legacy,       \* sessions the general cookie may hold from older releases
  None

ASSUME SessionsAssumption ==
  /\ Dispatchers \subseteq Users
  /\ Home \in [Users -> Hotels \cup {None}]
  /\ None \notin Hotels \cup Users \cup Tabs \cup Jobs
  /\ MaxEvents \in Nat

VARIABLES
  rows,    \* refresh tokens ever issued; a token is known by its number
  cookie,  \* cookie[p]: number of the token in the cookie of path p, 0: none
  active,  \* active[u]: the account is not deactivated
  open,    \* open[h]: the hotel is switched on
  codes,   \* one-time codes in the memory of the process
  tab,     \* the pages
  job,     \* the requests
  trouble  \* logouts, failures and switches so far, for the bound

vars == <<rows, cookie, active, open, codes, tab, job, trouble>>

(***************************************************************************)
(* A session is a hotel (or the platform), a person, and on whose behalf.  *)
(***************************************************************************)
Session == [tid : Hotels \cup {None}, sub : Users, imp : Users \cup {None}]
Own(u) == [tid |-> Home[u], sub |-> u, imp |-> None]
Inside(h, u) == [tid |-> h, sub |-> u, imp |-> u]
OnBehalf(s) == s.imp # None

ASSUME LegacyAssumption == Legacy \subseteq {Inside(h, u) : h \in Hotels, u \in Users}

General == None
Paths == Hotels \cup {General}
\* sessionCookiePath: the cookie that renews a session.
Path(s) == IF s # None /\ OnBehalf(s) THEN s.tid ELSE General

Row == [ses : Session, live : BOOLEAN, crossed : BOOLEAN]
\* An access token is issued with the refresh token of its number; the panel's has none.
Token == [ses : Session, n : Nat]
ASSUME NoneAssumption == None \notin Session /\ None \notin Token
Idle == [kind |-> "idle", tab |-> None, stage |-> "sent", path |-> General,
         ses |-> None, row |-> 0, held |-> None, crossed |-> FALSE]
Request == [kind : {"idle", "refresh", "login", "exchange", "exit", "enter", "logout"},
            tab : Tabs \cup {None},
            stage : {"sent", "looked", "taken", "cleared", "issued", "refused", "failed"},
            path : Paths, ses : Session \cup {None}, row : Nat,
            held : Token \cup {None}, crossed : BOOLEAN]

\* A stopped page stays on the token it was stopped on (stoppedOn); a page at /sso holds
\* nothing in memory, its token is the one in the store of the tab.
Page == [token : Token \cup {None}, panel : BOOLEAN, renews : Jobs \cup {None},
         busy : Jobs \cup {None}, screen : {"loading", "out", "sso", "in", "stopped"},
         entered : Session \cup {None}]

\* Bound: a request that may need a row begins, and something goes wrong, only within it.
Issuing(k) == /\ k.kind \in {"refresh", "login", "exchange", "exit"}
              /\ k.stage \in {"sent", "looked", "taken", "cleared"}
Spare == Len(rows) + Cardinality({j \in Jobs : Issuing(job[j])}) + trouble < MaxEvents

SesOf(token) == IF token = None THEN None ELSE token.ses
Standing(s) == /\ active[s.sub]
               /\ OnBehalf(s) => open[s.tid]

Memory(r) == IF r.screen = "sso" THEN None ELSE r.token

\* persistSession keeps the token for F5; a page that drops it has nothing left to find.
Holding(r, token) == [r EXCEPT !.token = token]

\* The page after a load: memory is gone, the store of the tab is left.
Loaded(r, screen) == [r EXCEPT !.renews = None, !.busy = None, !.screen = screen,
                               !.entered = IF r.token = None THEN None ELSE @]

Init ==
  /\ \E s \in Legacy \cup {None} :
       /\ rows = IF s = None THEN <<>>
                 ELSE <<[ses |-> s, live |-> TRUE, crossed |-> FALSE]>>
       /\ cookie = [p \in Paths |-> IF p = General THEN Len(rows) ELSE 0]
  /\ active = [u \in Users |-> TRUE]
  /\ open = [h \in Hotels |-> TRUE]
  /\ codes = {}
  /\ tab = [t \in Tabs |->
              [token |-> None, panel |-> FALSE, renews |-> None, busy |-> None,
               screen |-> "loading", entered |-> None]]
  /\ job = [j \in Jobs |-> Idle]
  /\ trouble = 0

-----------------------------------------------------------------------------
(***************************************************************************)
(* The tab renews its token.                                               *)
(***************************************************************************)

\* refresh: one renewal at a time in a tab, by the cookie of the session it holds.
Renew(t, r) ==
  IF r.renews # None
  THEN /\ tab' = [tab EXCEPT ![t] = r]
       /\ UNCHANGED job
  ELSE \E j \in Jobs :
         LET p == Path(SesOf(r.token)) IN
         /\ job[j] = Idle
         /\ Spare
         /\ tab' = [tab EXCEPT ![t] = [r EXCEPT !.renews = j]]
         /\ job' = [job EXCEPT ![j] = [Idle EXCEPT !.kind = "refresh", !.tab = t,
                      !.path = p, !.row = cookie[p], !.held = r.token]]

\* A request of the page is answered 401.
Refused(t) ==
  /\ tab[t].screen = "in"
  /\ ~tab[t].panel
  /\ Renew(t, tab[t])
  /\ UNCHANGED <<rows, cookie, active, open, codes>>

\* F5, or the tab is opened again.
Reload(t) ==
  /\ tab' = [tab EXCEPT ![t] = Loaded(@, "loading")]
  /\ job' = [j \in Jobs |-> IF job[j].tab = t THEN [job[j] EXCEPT !.tab = None] ELSE job[j]]
  /\ UNCHANGED <<rows, cookie, active, open, codes>>

\* On load the page asks who it is with the token it kept ...
Recognised(t) ==
  /\ tab[t].screen = "loading"
  /\ tab[t].token # None
  /\ tab[t].renews = None
  /\ active[tab[t].token.ses.sub]
  /\ tab' = [tab EXCEPT ![t].screen = "in"]
  /\ UNCHANGED <<rows, cookie, active, open, codes, job>>

\* ... or renews by cookie; a session started from the panel is given up first.
Unrecognised(t) ==
  LET r == IF tab[t].panel
           THEN [Holding([tab[t] EXCEPT !.panel = FALSE], None) EXCEPT !.entered = None]
           ELSE tab[t]
  IN /\ tab[t].screen = "loading"
     /\ tab[t].renews = None
     /\ Renew(t, r)
     /\ UNCHANGED <<rows, cookie, active, open, codes>>

-----------------------------------------------------------------------------
(***************************************************************************)
(* The person in front of the tab.                                         *)
(***************************************************************************)
Ask(t, j, kind, s, path, r) ==
  /\ job[j] = Idle
  /\ r.busy = None
  /\ kind \in {"login", "exit"} => Spare
  /\ tab' = [tab EXCEPT ![t] = [r EXCEPT !.busy = j]]
  /\ job' = [job EXCEPT ![j] = [Idle EXCEPT !.kind = kind, !.tab = t, !.ses = s,
               !.path = path, !.row = IF kind = "logout" THEN cookie[path] ELSE 0,
               !.stage = IF kind \in {"exchange", "logout"} THEN "sent" ELSE "taken"]]
  /\ UNCHANGED <<rows, cookie, active, open, codes>>

Login(t, j, u) ==
  /\ u \notin Dispatchers
  /\ tab[t].screen \in {"loading", "out", "sso"}
  /\ Ask(t, j, "login", Own(u), General, tab[t])

\* A link from Kars Avia is opened in the tab: the page loads at /sso and restores nothing.
OpenLink(t, j, s) ==
  LET jobs == [k \in Jobs |-> IF job[k].tab = t THEN [job[k] EXCEPT !.tab = None] ELSE job[k]]
  IN /\ s \in codes
     /\ job[j] = Idle
     /\ Spare
     /\ tab' = [tab EXCEPT ![t] = [Loaded(@, "sso") EXCEPT !.busy = j]]
     /\ job' = [jobs EXCEPT ![j] = [Idle EXCEPT !.kind = "exchange", !.tab = t, !.ses = s,
                                      !.path = Path(s)]]
     /\ UNCHANGED <<rows, cookie, active, open, codes>>

\* From the panel of the platform into a hotel: an access token and nothing to renew it.
\* It begins, like Exit, with a token that was not refused yet.
EnterHotel(t, j, h) ==
  /\ tab[t].screen = "in"
  /\ tab[t].renews = None
  /\ tab[t].token # None
  /\ ~OnBehalf(tab[t].token.ses)
  /\ tab[t].token.ses.tid = None
  /\ Ask(t, j, "enter", Inside(h, tab[t].token.ses.sub), General, tab[t])

Exit(t, j) ==
  /\ tab[t].screen = "in"
  /\ tab[t].renews = None
  /\ tab[t].token # None
  /\ OnBehalf(tab[t].token.ses)
  /\ Ask(t, j, "exit", Own(tab[t].token.ses.imp), General, tab[t])

Logout(t, j) ==
  /\ tab[t].screen = "in"
  /\ Ask(t, j, "logout", None,
         IF tab[t].panel THEN General ELSE Path(SesOf(tab[t].token)), tab[t])

\* dropTabSession: a stopped tab forgets its session, the cookie stays to the others.
Drop(t) ==
  /\ tab[t].screen = "stopped"
  /\ tab' = [tab EXCEPT ![t] = [Holding([@ EXCEPT !.panel = FALSE], None)
                                  EXCEPT !.screen = "out", !.entered = None]]
  /\ UNCHANGED <<rows, cookie, active, open, codes, job>>

-----------------------------------------------------------------------------
(***************************************************************************)
(* The service.                                                            *)
(***************************************************************************)
To(j, stage) == job' = [job EXCEPT ![j].stage = stage]

\* A cookie renews only the session it belongs to.
OwnCookie(path, s) == IF path = General THEN ~OnBehalf(s)
                      ELSE OnBehalf(s) /\ s.tid = path

\* Slip: the account is not looked at when a token is renewed.
SlipLookUp(j) ==
  /\ job[j].kind = "refresh"
  /\ job[j].stage = "sent"
  /\ LET n == job[j].row
         good == n > 0 /\ rows[n].live /\ OwnCookie(job[j].path, rows[n].ses)
     IN job' = [job EXCEPT ![j].stage = IF good THEN "looked" ELSE "refused",
                           ![j].ses = IF good THEN rows[n].ses ELSE None]
  /\ UNCHANGED <<rows, cookie, active, open, codes, tab>>

\* refresh: the row of the token and its user, read together; every check precedes the revocation.
LookUp(j) ==
  /\ job[j].kind = "refresh"
  /\ job[j].stage = "sent"
  /\ LET n == job[j].row
         good == /\ n > 0
                 /\ rows[n].live
                 /\ OwnCookie(job[j].path, rows[n].ses)
                 /\ active[rows[n].ses.sub]
     IN job' = [job EXCEPT ![j].stage = IF good THEN "looked" ELSE "refused",
                           ![j].ses = IF good THEN rows[n].ses ELSE None]
  /\ UNCHANGED <<rows, cookie, active, open, codes, tab>>

Revoke(j) ==
  /\ job[j].kind = "refresh"
  /\ job[j].stage = "looked"
  /\ rows' = [rows EXCEPT ![job[j].row].live = FALSE]
  /\ To(j, IF OnBehalf(job[j].ses) THEN "taken" ELSE "cleared")
  /\ UNCHANGED <<cookie, active, open, codes, tab>>

\* A one-time code dies on first touch.
TakeCode(j) ==
  /\ job[j].kind = "exchange"
  /\ job[j].stage = "sent"
  /\ codes' = codes \ {job[j].ses}
  /\ To(j, IF job[j].ses \in codes THEN "taken" ELSE "refused")
  /\ UNCHANGED <<rows, cookie, active, open, tab>>

\* resolveImpersonation, or the account that signs in; a password needs its hotel switched on too.
Resolve(j) ==
  /\ job[j].stage = "taken"
  /\ LET s == job[j].ses
         good == /\ Standing(s)
                 /\ job[j].kind = "login" /\ s.tid # None => open[s.tid]
     IN To(j, IF good THEN "cleared" ELSE "refused")
  /\ UNCHANGED <<rows, cookie, active, open, codes, tab>>

\* issueTokens; the token of the panel has no row.
Issue(j) ==
  /\ job[j].stage = "cleared"
  /\ IF job[j].kind = "enter"
     THEN /\ To(j, "issued")
          /\ UNCHANGED rows
     ELSE /\ rows' = Append(rows, [ses |-> job[j].ses, live |-> TRUE, crossed |-> job[j].crossed])
          /\ job' = [job EXCEPT ![j].stage = "issued", ![j].row = Len(rows) + 1]
  /\ UNCHANGED <<cookie, active, open, codes, tab>>

\* logout: the token of the cookie is revoked, whoever it belongs to.
RevokeOnLogout(j) ==
  /\ job[j].kind = "logout"
  /\ job[j].stage = "sent"
  /\ rows' = IF job[j].row = 0 THEN rows ELSE [rows EXCEPT ![job[j].row].live = FALSE]
  /\ To(j, "issued")
  /\ UNCHANGED <<cookie, active, open, codes, tab>>

\* A statement fails; rotate answers 401 to that as to a refusal.
Breaks(j) ==
  /\ job[j].kind # "idle"
  /\ job[j].stage \in {"sent", "looked", "taken", "cleared"}
  /\ To(j, "refused")
  /\ UNCHANGED <<rows, cookie, active, open, codes, tab>>

\* The process restarts: codes are forgotten, connections break.
Restart ==
  /\ codes' = {}
  /\ job' = [j \in Jobs |-> IF job[j].kind # "idle" THEN [job[j] EXCEPT !.stage = "failed"]
                            ELSE job[j]]
  /\ UNCHANGED <<rows, cookie, active, open, tab>>

-----------------------------------------------------------------------------
(***************************************************************************)
(* Answers.                                                                *)
(***************************************************************************)
Stop(r) == [r EXCEPT !.screen = "stopped"]

Adopted(r, token) ==
  [Holding(r, token) EXCEPT !.entered = IF @ = None THEN token.ses ELSE @]

\* Slip: a late answer is not compared with the token the tab holds now.
SlipRenewed(r, held, token) ==
  IF held # None /\ held.ses # token.ses THEN Stop(r)
  ELSE Adopted(r, token)

\* The first branch of refresh: a token came.
Renewed(r, held, token) ==
  IF r.token # held THEN r
  ELSE IF held # None /\ held.ses # token.ses THEN Stop(r)
  ELSE Adopted(r, token)

\* The second branch: refused with 401, or the connection failed.
NotRenewed(r, held, refused) ==
  CASE r.token # held -> r
    [] r.token = held /\ held # None /\ OnBehalf(held.ses) ->
         IF refused THEN Stop(r) ELSE r
    [] OTHER -> Holding(r, None)

\* After the first renewal the page shows itself, the stop or the login.
Started(r, came) ==
  IF r.screen # "loading" THEN r
  ELSE [r EXCEPT !.screen = IF came /\ r.token # None THEN "in" ELSE "out"]

\* The page of the answer to a renewal; what waited for it goes out again or fails.
AfterRenewal(r, j, stage) ==
  LET done == IF stage = "issued"
              THEN Renewed(r, job[j].held, [ses |-> job[j].ses, n |-> job[j].row])
              ELSE NotRenewed(r, job[j].held, stage = "refused")
  IN [Started(done, stage = "issued") EXCEPT !.renews = None]

SignedIn(r, j) ==
  LET token == [ses |-> job[j].ses, n |-> job[j].row]
      kind == job[j].kind
      in == CASE kind = "enter" ->
                   [r EXCEPT !.token = token, !.panel = TRUE]
              [] kind \in {"exchange", "exit"} ->
                   [r EXCEPT !.token = token, !.panel = FALSE]
              [] OTHER -> Holding(r, token)
  IN [in EXCEPT !.busy = None, !.screen = "in", !.entered = token.ses]

LoggedOut(r) == [Holding([r EXCEPT !.panel = FALSE], None)
                   EXCEPT !.busy = None, !.screen = "out", !.entered = None]

PageAfter(r, j, stage) ==
  CASE job[j].kind = "refresh" -> AfterRenewal(r, j, stage)
    [] job[j].kind = "logout" -> LoggedOut(r)
    [] job[j].kind \notin {"refresh", "logout"} ->
         IF stage = "issued" THEN SignedIn(r, j) ELSE [r EXCEPT !.busy = None]

\* The cookie an answer sets: the general one, or that of the hotel the code was for.
CookieOf(j) == CASE job[j].kind \in {"refresh", "exchange", "logout"} -> job[j].path
                 [] job[j].kind \in {"login", "exit", "enter"} -> General

CookiesAfter(j) ==
  IF job[j].stage # "issued" \/ job[j].kind = "enter" THEN cookie
  ELSE [cookie EXCEPT ![CookieOf(j)] = IF job[j].kind = "logout" THEN 0 ELSE job[j].row]

Deliver(j, stage) ==
  /\ job' = [job EXCEPT ![j] = Idle]
  /\ tab' = IF job[j].tab = None THEN tab
            ELSE [tab EXCEPT ![job[j].tab] = PageAfter(@, j, stage)]
  /\ UNCHANGED <<rows, active, open, codes>>

\* The answer reaches the browser, and the page that asked if it is still there.
Answer(j) ==
  /\ job[j].stage \in {"issued", "refused", "failed"}
  /\ Deliver(j, job[j].stage)
  /\ cookie' = CookiesAfter(j)

\* The connection breaks before the answer: no cookie, and the page sees a failure.
Lost(j) ==
  /\ job[j].stage \in {"issued", "refused"}
  /\ Deliver(j, "failed")
  /\ UNCHANGED cookie

-----------------------------------------------------------------------------
(***************************************************************************)
(* Kars Avia, the administrator and time.                                  *)
(***************************************************************************)

\* createSsoCode with provisionDispatcher: a link for a dispatcher also switches the account on.
CreateCode(s) ==
  /\ s \in {Own(d) : d \in Dispatchers} \cup {Inside(h, d) : h \in Hotels, d \in Dispatchers}
  /\ codes = {}
  /\ codes' = codes \cup {s}
  /\ active' = [active EXCEPT ![s.sub] = TRUE]
  /\ UNCHANGED <<rows, cookie, open, tab, job>>

\* Whether a request is past the last look at the account of its person.
Beyond(r) ==
  \/ r.stage = "cleared"
  \/ r.stage = "looked" /\ ~OnBehalf(r.ses)

\* deactivateDispatcher: one transaction.
Deactivate(d) ==
  /\ d \in Dispatchers
  /\ active[d]
  /\ active' = [active EXCEPT ![d] = FALSE]
  /\ rows' = [n \in DOMAIN rows |->
                IF rows[n].ses.sub = d THEN [rows[n] EXCEPT !.live = FALSE] ELSE rows[n]]
  /\ job' = [j \in Jobs |->
               IF job[j].ses # None /\ job[j].ses.sub = d /\ Beyond(job[j])
               THEN [job[j] EXCEPT !.crossed = TRUE] ELSE job[j]]
  /\ UNCHANGED <<cookie, open, codes, tab>>

\* toggleUserActive: an account of a hotel; its tokens stay.
ToggleUser(u) ==
  /\ u \notin Dispatchers
  /\ active' = [active EXCEPT ![u] = ~@]
  /\ UNCHANGED <<rows, cookie, open, codes, tab, job>>

ToggleHotel(h) ==
  /\ open' = [open EXCEPT ![h] = ~@]
  /\ UNCHANGED <<rows, cookie, active, codes, tab, job>>

\* The time of a refresh token or of a code is over.
Expire ==
  /\ \/ /\ \E n \in DOMAIN rows : rows' = [rows EXCEPT ![n].live = FALSE]
        /\ UNCHANGED codes
     \/ /\ \E s \in codes : codes' = codes \ {s}
        /\ UNCHANGED rows
  /\ UNCHANGED <<cookie, active, open, tab, job>>

Work ==
  \/ \E t \in Tabs : Refused(t) \/ Reload(t) \/ Recognised(t) \/ Unrecognised(t) \/ Drop(t)
  \/ \E t \in Tabs, j \in Jobs :
       \/ \E u \in Users : Login(t, j, u)
       \/ \E s \in Session : OpenLink(t, j, s)
       \/ \E h \in Hotels : EnterHotel(t, j, h)
       \/ Exit(t, j)
  \/ \E j \in Jobs : \/ LookUp(j) \/ Revoke(j) \/ TakeCode(j) \/ Resolve(j) \/ Issue(j)
                     \/ RevokeOnLogout(j) \/ Answer(j)
  \/ \E s \in Session : CreateCode(s)

Rare ==
  \/ \E t \in Tabs, j \in Jobs : Logout(t, j)
  \/ \E j \in Jobs : Breaks(j) \/ Lost(j)
  \/ Restart
  \/ \E u \in Users : Deactivate(u) \/ ToggleUser(u)
  \/ \E h \in Hotels : ToggleHotel(h)
  \/ Expire

Next == \/ Work /\ UNCHANGED trouble
        \/ Rare /\ Spare /\ trouble' = trouble + 1

Spec == Init /\ [][Next]_vars

-----------------------------------------------------------------------------
TypeOK ==
  /\ rows \in Seq(Row)
  /\ cookie \in [Paths -> 0..Len(rows)]
  /\ active \in [Users -> BOOLEAN]
  /\ open \in [Hotels -> BOOLEAN]
  /\ codes \in SUBSET Session
  /\ tab \in [Tabs -> Page]
  /\ job \in [Jobs -> Request]
  /\ trouble \in Nat

(***************************************************************************)
(* A tab that was opened for a hotel by a link, or entered it from the     *)
(* panel, works in that hotel and as that person until somebody leaves it  *)
(* there, whatever other tabs do to the cookies of the browser, whichever  *)
(* answers come late and whatever fails (createSessionRefresh).            *)
(***************************************************************************)
Promise == INSTANCE TabSession WITH
             Sessions <- Session,
             HotelSessions <- {s \in Session : OnBehalf(s)},
             entered <- [t \in Tabs |-> tab[t].entered],
             works <- [t \in Tabs |-> SesOf(Memory(tab[t]))]

TabKeepsHotel == Promise!Spec

(***************************************************************************)
(* A dispatcher whom Kars Avia has switched off holds no refresh token but *)
(* one whose request was past its last look at the account at that moment, *)
(* and that one renews nothing (deactivateDispatcher against refresh).     *)
(***************************************************************************)
DeactivatedIsOut ==
  /\ \A n \in DOMAIN rows :
       LET d == rows[n].ses.sub
       IN d \in Dispatchers /\ ~active[d] /\ rows[n].live => rows[n].crossed
  /\ \A j \in Jobs :
       LET s == job[j].ses
       IN s # None /\ s.sub \in Dispatchers /\ ~active[s.sub] /\ Beyond(job[j])
          => job[j].crossed

(***************************************************************************)
(* A renewal uses up the refresh token of a hotel only for a tab that      *)
(* works in that hotel: tabs of other sessions never cut it off, not even  *)
(* where the general cookie still holds it from an older release (refresh  *)
(* checks whose cookie it is before it revokes).                           *)
(***************************************************************************)
HotelTokensSpared ==
  [][\A j \in Jobs :
       Revoke(j) /\ OnBehalf(job[j].ses)
       => job[j].held # None /\ Path(job[j].held.ses) = job[j].ses.tid]_vars

(***************************************************************************)
(* Why the properties hold: what a request has in hand at each stage, and  *)
(* what a page keeps of the session entered there.                         *)
(***************************************************************************)
InHand(r) ==
  /\ r.row <= Len(rows)
  /\ r.kind = "idle" => r.stage = "sent"
  /\ r.kind = "logout" => r.stage \in {"sent", "issued", "refused", "failed"}
  /\ r.kind \in {"login", "exchange", "exit", "enter"} => r.ses # None
  /\ r.kind = "refresh" =>
       /\ r.stage \in {"looked", "taken", "cleared", "issued"} => r.ses # None
       /\ r.path = Path(SesOf(r.held))
       /\ r.stage = "looked" => r.row > 0 /\ OwnCookie(r.path, r.ses)
       /\ r.tab # None => tab[r.tab].screen # "sso"

\* A page in which a hotel was entered has a token of that session.
HotelInHand(r) ==
  r.entered # None /\ OnBehalf(r.entered) => r.token # None /\ r.token.ses = r.entered

SessionsInv ==
  /\ TypeOK
  /\ \A j \in Jobs : InHand(job[j])
  /\ \A t \in Tabs : HotelInHand(tab[t])
=============================================================================
