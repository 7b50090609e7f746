------------------------------ MODULE Accounts ------------------------------
(***************************************************************************)
(* Who has an account in a hotel.  The owner comes by a link: the partner  *)
(* makes it, the newest one alone is good, and whoever follows it becomes  *)
(* the owner.  The owner's team is managed in the hotel, every account is  *)
(* switched off and on by the platform.  An address has one account.       *)
(***************************************************************************)
EXTENDS FiniteSets, Naturals

CONSTANTS Emails, Invites, Clients, Nothing

Account == [role : {"OWNER", "STAFF"}, active : BOOLEAN]
Invite == [email : Emails, state : {"open", "revoked", "used"}, expired : BOOLEAN]

ASSUME AccountsAssumption ==
  /\ Nothing \notin Account /\ Nothing \notin Invite

VARIABLES
  account,   \* Emails -> Nothing or [role, active]
  invite,    \* Invites -> Nothing or [email, state, expired]
  call,      \* Clients -> Nothing, or what they asked for and how far it is
  ownerMissed, \* was an invitation made by one who missed an owner or a link that came?
  backOn     \* was an owner switched on again?

accountVars == <<account, invite, call, ownerMissed, backOn>>

AccountsInit ==
  /\ account = [e \in Emails |-> Nothing]
  /\ invite = [i \in Invites |-> Nothing]
  /\ call = [c \in Clients |-> Nothing]
  /\ ownerMissed = FALSE /\ backOn = FALSE

NewAccount(role) == [role |-> role, active |-> TRUE]
Registered(e) == account[e] # Nothing
Owners == {e \in Emails : Registered(e) /\ account[e].role = "OWNER"}
ActiveOwners == {e \in Owners : account[e].active}

Call(op, e, i) == [op |-> op, email |-> e, invite |-> i, step |-> "check", seen |-> Nothing, fresh |-> TRUE]
Asks(c, r) == call' = [call EXCEPT ![c] = r]
Hangs(c) == Asks(c, Nothing) /\ UNCHANGED <<account, invite, ownerMissed, backOn>>
Moves(c, r) == Asks(c, r) /\ UNCHANGED <<account, invite, ownerMissed, backOn>>
On(c, op, step) == call[c] # Nothing /\ call[c].op = op /\ call[c].step = step
\* An owner has come: whoever looked for one before has missed this.
AllMissed(c) == [d \in Clients |-> IF d = c \/ call[d] = Nothing THEN Nothing ELSE [call[d] EXCEPT !.fresh = FALSE]]

(***************************************************************************)
(* Invitations.                                                            *)
(***************************************************************************)
BeginInvite(c, e) == call[c] = Nothing /\ Moves(c, Call("create", e, Nothing))

CheckOwner(c) ==
  /\ On(c, "create", "check")
  /\ IF ActiveOwners # {} THEN Hangs(c) ELSE Moves(c, [call[c] EXCEPT !.step = "email", !.fresh = TRUE])
CheckAddress(c) ==
  /\ On(c, "create", "email")
  /\ IF Registered(call[c].email) THEN Hangs(c) ELSE Moves(c, [call[c] EXCEPT !.step = "revoke"])

\* One transaction in two statements: the links not followed yet are revoked, and the
\* new one made.  A link made in between is seen by neither and stays good.
OpenInvites == {i \in Invites : invite[i] # Nothing /\ invite[i].state = "open"}
RevokeOpen(c) ==
  /\ On(c, "create", "revoke")
  /\ Moves(c, [call[c] EXCEPT !.step = "write", !.seen = OpenInvites])
MakeInvite(c) ==
  /\ On(c, "create", "write")
  /\ \E i \in Invites :
       /\ invite[i] = Nothing
       /\ invite' = [j \in Invites |->
            IF j = i THEN [email |-> call[c].email, state |-> "open", expired |-> FALSE]
            ELSE IF j \in call[c].seen \cap OpenInvites THEN [invite[j] EXCEPT !.state = "revoked"]
            ELSE invite[j]]
  /\ ownerMissed' = (ownerMissed \/ ~call[c].fresh)
  /\ call' = [d \in Clients |->
       IF d = c THEN Nothing
       ELSE IF On(d, "create", "write") THEN [call[d] EXCEPT !.fresh = FALSE] ELSE call[d]]
  /\ UNCHANGED <<account, backOn>>

InviteExpires(i) ==
  /\ invite[i] # Nothing /\ ~invite[i].expired
  /\ invite' = [invite EXCEPT ![i].expired = TRUE]
  /\ UNCHANGED <<account, call, ownerMissed, backOn>>

Valid(i) == invite[i] # Nothing /\ invite[i].state = "open" /\ ~invite[i].expired
\* The link is looked up; a password is hashed before the rest.
BeginAccept(c, i) == call[c] = Nothing /\ Valid(i) /\ Moves(c, Call("accept", invite[i].email, i))

\* As if the link were asked only when it was looked up.
SlipStillOpen(i) == invite[i].state # "used"
StillOpen(i) == invite[i].state = "open"
\* One who revokes it has it locked till the link of their own is made.
Locked(i) == \E d \in Clients : On(d, "create", "write") /\ i \in call[d].seen

\* One transaction: the link is spent and the account made, or neither.
Accept(c) ==
  /\ On(c, "accept", "check") /\ ~Locked(call[c].invite)
  /\ LET i == call[c].invite
         e == call[c].email
     IN IF ~StillOpen(i) \/ Registered(e) THEN Hangs(c)
        ELSE /\ invite' = [invite EXCEPT ![i].state = "used"]
             /\ account' = [account EXCEPT ![e] = NewAccount("OWNER")]
             /\ call' = AllMissed(c)
             /\ UNCHANGED <<ownerMissed, backOn>>

(***************************************************************************)
(* The team, and the platform's switch.                                    *)
(***************************************************************************)
BeginCreateUser(c, e) == call[c] = Nothing /\ ~Registered(e) /\ Moves(c, Call("createUser", e, Nothing))
CreateUser(c) ==
  /\ On(c, "createUser", "check")
  /\ IF Registered(call[c].email) THEN Hangs(c)
     ELSE /\ account' = [account EXCEPT ![call[c].email] = NewAccount("STAFF")]
          /\ Asks(c, Nothing)
          /\ UNCHANGED <<invite, ownerMissed, backOn>>

\* An employee is put to another state or deleted, which is switching off.
SetUser(e, active) ==
  /\ Registered(e) /\ account[e].role # "OWNER"
  /\ account' = [account EXCEPT ![e].active = active]
  /\ UNCHANGED <<invite, call, ownerMissed, backOn>>

BeginToggle(c, e) ==
  /\ call[c] = Nothing /\ Registered(e)
  /\ Moves(c, [Call("toggle", e, Nothing) EXCEPT !.seen = account[e].active])
ToggleUser(c) ==
  /\ On(c, "toggle", "check")
  /\ LET e == call[c].email IN
     /\ account' = [account EXCEPT ![e].active = ~call[c].seen]
     /\ backOn' = (backOn \/ (e \in Owners /\ ~call[c].seen))
  /\ Asks(c, Nothing)
  /\ UNCHANGED <<invite, ownerMissed>>

ClientStep(c) ==
  \/ \E e \in Emails : BeginInvite(c, e) \/ BeginCreateUser(c, e) \/ BeginToggle(c, e)
  \/ \E i \in Invites : BeginAccept(c, i)
  \/ CheckOwner(c) \/ CheckAddress(c) \/ RevokeOpen(c) \/ MakeInvite(c) \/ Accept(c) \/ CreateUser(c) \/ ToggleUser(c)
AccountsNext ==
  \/ \E c \in Clients : ClientStep(c)
  \/ \E i \in Invites : InviteExpires(i)
  \/ \E e \in Emails, active \in BOOLEAN : SetUser(e, active)
AccountsSpec == AccountsInit /\ [][AccountsNext]_accountVars

\* What a client asked for: one who makes a link remembers those that were good, one
\* who switches an account how it was.
Asked(r) ==
  r \in [op : {"create", "accept", "createUser", "toggle"}, step : {"check", "email", "revoke", "write"},
         email : Emails, invite : Invites \cup {Nothing}, fresh : BOOLEAN,
         seen : IF r.op = "toggle" THEN BOOLEAN ELSE IF r.step = "write" THEN SUBSET Invites ELSE {Nothing}]

AccountsTypeOK ==
  /\ account \in [Emails -> Account \cup {Nothing}]
  /\ invite \in [Invites -> Invite \cup {Nothing}]
  /\ DOMAIN call = Clients /\ \A c \in Clients : call[c] # Nothing => Asked(call[c])
  /\ ownerMissed \in BOOLEAN /\ backOn \in BOOLEAN

\* What a client has in hand is still there.
InHand(c) ==
  /\ On(c, "accept", "check") => call[c].invite \in Invites /\ invite[call[c].invite] # Nothing
  /\ On(c, "toggle", "check") => Registered(call[c].email)

\* An invitation under way whose maker has looked for an owner.
Looked(c) == \E step \in {"email", "revoke", "write"} : On(c, "create", step)

\* One who makes a link and missed nothing has locked the last one, and seen no owner
\* where there is none.
SawAll(c) ==
  call[c] # Nothing /\ call[c].fresh =>
    /\ On(c, "create", "write") => OpenInvites \subseteq call[c].seen
    /\ Looked(c) => ActiveOwners = {}

\* Never two owners, nor two good links, nor a good link beside an owner.
OneComes ==
  /\ \A e, f \in ActiveOwners : e = f
  /\ \A i, j \in OpenInvites : i = j
  /\ ActiveOwners # {} => OpenInvites = {}

OwnerInv ==
  /\ AccountsTypeOK
  /\ \A c \in Clients : InHand(c)
  /\ ~ownerMissed /\ ~backOn => OneComes /\ \A c \in Clients : SawAll(c)

(***************************************************************************)
(* Properties.                                                             *)
(***************************************************************************)
\* However many links were sent and however many are being followed at once,
\* one owner comes of them - unless an invitation was made by one who looked
\* before the last owner or the last link came, or a former owner was switched
\* on again.
OneOwnerByInvite == ~ownerMissed /\ ~backOn => Cardinality(ActiveOwners) <= 1
=============================================================================
