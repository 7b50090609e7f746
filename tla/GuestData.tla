------------------------------ MODULE GuestData ------------------------------
(***************************************************************************)
(* What a hotel remembers of its guests, and for how long.  A booking      *)
(* names its guest, so do the notes of payments and the journal.  The      *)
(* guest of a finished booking is forgotten by hand (anonymize) or, once   *)
(* the terms have passed, by the rules that run daily (runRetention); the  *)
(* form of the booking may be open all the while.  Of personal data two    *)
(* kinds are told apart: "name", with the notes, and "contact".            *)
(***************************************************************************)
EXTENDS FiniteSets, Integers, Sequences

CONSTANTS
  Bookings, Desks, Officers, \* those who edit bookings, those who may forget a guest
  Machines, Nobody,  \* processes of the server, each with its timers; nobody and nothing
  CancelledDays, ContactsDays, FolioDays, \* the terms, in days
  Shorter,           \* the hotel's own terms, shorter or not: [cancelled, contacts]
  CheckIn, CheckOut, \* days of the stays
  Edits,             \* what a form may have changed, of SUBSET {"name", "contact"}
  LastDay, MaxSaves, MaxSlips \* bounds: the calendar, saves of forms, failures

GuestRow == [status : {"live", "done", "cancelled"}, name : BOOLEAN, contact : BOOLEAN, version : Nat]
DeskRow ==
  [step : {"form"}, of : Bookings, shown : GuestRow]
    \cup [step : {"write", "tell"}, of : Bookings, shown : GuestRow, told : SUBSET {"name", "contact"}]
    \cup [step : {"erase", "scrub"}, of : Bookings]

ASSUME GuestsAssumption == Nobody \notin DeskRow /\ Edits \subseteq SUBSET {"name", "contact"}

VARIABLES
  guest,   \* Bookings -> the row: [status, name, contact, version]
  note,    \* bookings with a payment whose note names the guest
  charged, \* bookings with a charge on their folio, from the first on
  trace,   \* Bookings -> the kinds of data the journal holds of the guest
  desk,    \* People -> Nobody, or an open form, a save or an erasure under way
  runner,  \* Machines -> 0 and no set, or the rule under way and what it took for ripe
  today, saves, slips, \* the calendar; saves and failures so far
  late     \* [name, trace]: bookings revived across or after an erasure; with data written after or left by a failure

guestVars == <<guest, note, charged, trace, desk, runner, today, saves, slips, late>>

Finished == {"done", "cancelled"}
All == {"name", "contact"}
People == Desks \cup Officers

GuestsInit ==
  /\ \E s \in Finished \cup {"live"} :
       guest = [b \in Bookings |-> [status |-> s, name |-> TRUE, contact |-> TRUE, version |-> 0]]
  /\ note = {} /\ charged \in SUBSET Bookings
  /\ trace = [b \in Bookings |-> {"name"}]
  /\ desk = [d \in People |-> Nobody]
  /\ runner = [m \in Machines |-> [rule |-> 0, ripe |-> {}]]
  /\ today = 0 /\ saves = 0 /\ slips = 0
  /\ late = [name |-> {}, trace |-> {}]

At(d, s) == desk[d] # Nobody /\ desk[d].step = s
Free(d) == desk' = [desk EXCEPT ![d] = Nobody]

\* Something of the guest of b is being erased, or has been.
Erasing(b) ==
  \/ ~guest[b].name
  \/ \E d \in Officers : (At(d, "erase") \/ At(d, "scrub")) /\ desk[d].of = b
  \/ \E m \in Machines : b \in runner[m].ripe

(***************************************************************************)
(* The form of a booking: a copy of the row, saved whole.                  *)
(***************************************************************************)
OpenForm(d, b) ==
  /\ desk[d] = Nobody
  /\ desk' = [desk EXCEPT ![d] = [step |-> "form", of |-> b, shown |-> guest[b]]]
  /\ UNCHANGED <<guest, note, charged, trace, runner, today, saves, slips, late>>
Close(d) ==
  /\ At(d, "form") /\ Free(d)
  /\ UNCHANGED <<guest, note, charged, trace, runner, today, saves, slips, late>>

\* The transaction reads the row and checks the version the form was opened with.
BeginSave(d, status, edited) ==
  LET b == desk[d].of
      known == {k \in All : desk[d].shown[k]}
  IN /\ At(d, "form")
     /\ saves < MaxSaves /\ saves' = saves + 1
     /\ status \in Finished /\ guest[b].status # status => guest[b].status = "live"
     /\ edited \subseteq known
     /\ desk' = [desk EXCEPT ![d] =
          IF desk[d].shown.version # guest[b].version THEN Nobody
          ELSE [step |-> "write", of |-> b, shown |-> [desk[d].shown EXCEPT !.status = status],
                \* the journal will tell what the save changed of what it read
                told |-> edited \cup {k \in All : desk[d].shown[k] # guest[b][k]}]]
     /\ UNCHANGED <<guest, note, charged, trace, runner, today, slips, late>>
\* The UPDATE writes every field of the form, whatever the row has become since it was
\* read: a copy of a guest not yet forgotten, or of one forgotten and named again since.
Write(d) ==
  LET b == desk[d].of
      status == desk[d].shown.status
  IN /\ At(d, "write")
     /\ guest' = [guest EXCEPT ![b] = [desk[d].shown EXCEPT !.version = guest[b].version + 1]]
     /\ desk' = [desk EXCEPT ![d].step = "tell"]
     /\ late' = [name |-> IF status = "live" /\ (Erasing(b) \/ ~desk[d].shown.name) THEN late.name \cup {b} ELSE late.name,
                 trace |-> IF guest[b].name /\ ~desk[d].shown.name THEN late.trace \cup {b} ELSE late.trace]
     /\ UNCHANGED <<note, charged, trace, runner, today, saves, slips>>
\* Only after the COMMIT, and outside it, the journal is told.
Tell(d) ==
  LET b == desk[d].of
  IN /\ At(d, "tell")
     /\ trace' = [trace EXCEPT ![b] = @ \cup desk[d].told]
     /\ late' = IF desk[d].told # {} /\ Erasing(b) THEN [late EXCEPT !.trace = @ \cup {b}] ELSE late
     /\ Free(d)
     /\ UNCHANGED <<guest, note, charged, runner, today, saves, slips>>

\* A payment whose note says who paid.
AddPayment(b) ==
  /\ b \notin note
  /\ note' = note \cup {b}
  /\ late' = IF Erasing(b) THEN [late EXCEPT !.trace = @ \cup {b}] ELSE late
  /\ UNCHANGED <<guest, charged, trace, desk, runner, today, saves, slips>>

(***************************************************************************)
(* By hand: checked and written in one transaction without a lock, the     *)
(* version left as it is; the journal is cleaned after its COMMIT.         *)
(***************************************************************************)
\* As if any booking would do.
SlipMayForget(b) == TRUE
MayForget(b) == guest[b].status \in Finished

Anonymize(d, b) ==
  /\ desk[d] = Nobody
  /\ MayForget(b)
  /\ desk' = [desk EXCEPT ![d] = [step |-> "erase", of |-> b]]
  /\ UNCHANGED <<guest, note, charged, trace, runner, today, saves, slips, late>>
Forgotten(bs, kinds) ==
  [b \in Bookings |-> IF b \in bs THEN [guest[b] EXCEPT !.name = @ /\ "name" \notin kinds, !.contact = FALSE] ELSE guest[b]]
Erase(d) ==
  /\ At(d, "erase")
  /\ guest' = Forgotten({desk[d].of}, All)
  /\ note' = note \ {desk[d].of}
  /\ desk' = [desk EXCEPT ![d].step = "scrub"]
  /\ UNCHANGED <<charged, trace, runner, today, saves, slips, late>>
Scrubbed(bs, kinds) == [b \in Bookings |-> IF b \in bs THEN trace[b] \ kinds ELSE trace[b]]
Scrub(d) ==
  /\ At(d, "scrub")
  /\ trace' = Scrubbed({desk[d].of}, All)
  /\ Free(d)
  /\ UNCHANGED <<guest, note, charged, runner, today, saves, slips, late>>

(***************************************************************************)
(* By the rules: each in a transaction of its own under a lock that the    *)
(* other machine does not wait for.  The statement that erases does not    *)
(* ask again what its own snapshot took for ripe.                          *)
(***************************************************************************)
Least(n, own) == IF own < n THEN own ELSE n
\* As if a cancellation owed nothing.
SlipFolioNameRipe == {b \in Bookings : guest[b].status = "done" /\ guest[b].name /\ CheckOut + FolioDays < today}
CancelledRipe ==
  {b \in Bookings \ charged : guest[b].status = "cancelled" /\ guest[b].name
     /\ CheckIn + Least(CancelledDays, Shorter.cancelled) < today}
ContactsRipe ==
  {b \in Bookings : guest[b].status \in Finished /\ guest[b].contact
     /\ CheckOut + Least(ContactsDays, Shorter.contacts) < today}
FolioNameRipe ==
  {b \in Bookings : guest[b].status \in Finished /\ guest[b].name /\ CheckOut + FolioDays < today}

\* cancelled-noshow, guest-contacts, folio-names.
Rules == 1..3
Ripe(r) == CASE r = 1 -> CancelledRipe [] r = 2 -> ContactsRipe [] r = 3 -> FolioNameRipe
Erases(r) == IF r = 2 THEN {"contact"} ELSE All

Locked(r) == \E m \in Machines : runner[m].rule = r /\ runner[m].ripe # {}
Turn(m, r) == runner' = [runner EXCEPT ![m] = [rule |-> IF r = 3 THEN 0 ELSE r, ripe |-> {}]]

\* A run takes its rules in their order and passes over one that finds nothing or is taken.
PassesOver(r) == Ripe(r) = {} \/ Locked(r)
TakeRipe(m) ==
  LET done == runner[m].rule
  IN /\ runner[m].ripe = {}
     /\ \E r \in done + 1..3 :
          /\ ~PassesOver(r) /\ \A q \in done + 1..r - 1 : PassesOver(q)
          /\ runner' = [runner EXCEPT ![m] = [rule |-> r, ripe |-> Ripe(r)]]
     /\ UNCHANGED <<guest, note, charged, trace, desk, today, saves, slips, late>>
RunEnds(m) ==
  LET done == runner[m].rule
  IN /\ done # 0 /\ runner[m].ripe = {}
     /\ \A q \in done + 1..3 : PassesOver(q)
     /\ Turn(m, 0)
     /\ UNCHANGED <<guest, note, charged, trace, desk, today, saves, slips, late>>
\* As if the rules left the journal alone.
SlipApply(m) ==
  LET r == runner[m].rule
      ripe == runner[m].ripe
  IN /\ ripe # {}
     /\ guest' = Forgotten(ripe, Erases(r))
     /\ note' = IF "name" \in Erases(r) THEN note \ ripe ELSE note
     /\ Turn(m, r)
     /\ UNCHANGED <<charged, trace, desk, today, saves, slips, late>>
Apply(m) ==
  LET r == runner[m].rule
      ripe == runner[m].ripe
  IN /\ ripe # {}
     /\ guest' = Forgotten(ripe, Erases(r))
     /\ note' = IF "name" \in Erases(r) THEN note \ ripe ELSE note
     /\ trace' = Scrubbed(ripe, Erases(r))
     /\ Turn(m, r)
     /\ UNCHANGED <<charged, desk, today, saves, slips, late>>

\* A run that fails is logged: its transaction is undone, the rules after it wait for the next run.
RunFails(m) ==
  /\ slips < MaxSlips /\ slips' = slips + 1
  /\ runner[m].rule # 0
  /\ Turn(m, 0)
  /\ UNCHANGED <<guest, note, charged, trace, desk, today, saves, late>>
\* The process dies: what follows a COMMIT does not happen.
DeskFails(d) ==
  /\ slips < MaxSlips /\ slips' = slips + 1
  /\ desk[d] # Nobody /\ Free(d)
  /\ late' = IF At(d, "scrub") THEN [late EXCEPT !.trace = @ \cup {desk[d].of}] ELSE late
  /\ UNCHANGED <<guest, note, charged, trace, runner, today, saves>>

DayPasses ==
  /\ today < LastDay /\ today' = today + 1
  /\ UNCHANGED <<guest, note, charged, trace, desk, runner, saves, slips, late>>

RulesStep(m) == TakeRipe(m) \/ Apply(m) \/ RunEnds(m)
DeskStep(d) == Write(d) \/ Tell(d) \/ Erase(d) \/ Scrub(d)
GuestsStep ==
  \/ \E d \in People : DeskStep(d) \/ Close(d) \/ DeskFails(d)
  \/ \E d \in Officers, b \in Bookings : Anonymize(d, b)
  \/ \E d \in Desks :
       \/ \E b \in Bookings : OpenForm(d, b)
       \/ \E status \in Finished \cup {"live"}, edited \in Edits : BeginSave(d, status, edited)
  \/ \E m \in Machines : RulesStep(m) \/ RunFails(m)
  \/ \E b \in Bookings : AddPayment(b)
  \/ DayPasses

\* Days pass, the timers fire daily, and a request that was sent is answered.
GuestsFairness ==
  /\ WF_guestVars(DayPasses)
  /\ \A m \in Machines : WF_guestVars(RulesStep(m))
  /\ \A d \in People : WF_guestVars(DeskStep(d))
GuestsSpec == GuestsInit /\ [][GuestsStep]_guestVars /\ GuestsFairness

(***************************************************************************)
(* Properties.                                                             *)
(***************************************************************************)
\* A guest who is expected or in the house has a name (anonymize: a living
\* booking needs it), unless his booking was put back while it was being
\* forgotten or after.
LiveGuestKnown == \A b \in Bookings : guest[b].status = "live" /\ ~guest[b].name => b \in late.name

\* A guest forgotten is forgotten everywhere - the row, the notes, the journal -
\* once nobody is at it, unless a save or a payment that crossed the erasure
\* wrote after it, a save crossed another that had named him again, or a
\* process died between the row and the journal.
NoTraceIsLeft ==
  \A b \in Bookings :
    ~guest[b].name /\ b \notin late.trace /\ (\A d \in Officers : At(d, "scrub") => desk[d].of # b)
      => ~guest[b].contact /\ b \notin note /\ trace[b] = {}

\* A booking that stays finished does not keep its guest: in the end the rules
\* take him, the charged and the cancelled alike, however often a form brings
\* the name back and whatever fails on the way.
GuestIsForgotten ==
  \A b \in Bookings : []<>(guest[b].status = "live" \/ ~(guest[b].name \/ guest[b].contact))

(***************************************************************************)
(* Why the two hold.                                                       *)
(***************************************************************************)
GuestsTypeOK ==
  /\ guest \in [Bookings -> GuestRow]
  /\ note \subseteq Bookings
  /\ trace \in [Bookings -> SUBSET All]
  /\ desk \in [People -> DeskRow \cup {Nobody}]
  /\ runner \in [Machines -> [rule : 0..3, ripe : SUBSET Bookings]]
  /\ late \in [name : SUBSET Bookings, trace : SUBSET Bookings]

\* No row without a name has a contact, nor has one that a form is to write.
Whole(row) == ~row.name => ~row.contact
RowsAreWhole ==
  /\ \A b \in Bookings : Whole(guest[b])
  /\ \A d \in People : At(d, "form") \/ At(d, "write") => Whole(desk[d].shown)

\* Who is to be forgotten is neither expected nor in the house.
Over(b) == guest[b].status = "live" => b \in late.name
RipeIsOver ==
  /\ \A d \in People : At(d, "erase") => Over(desk[d].of)
  /\ \A m \in Machines : \A b \in runner[m].ripe : Over(b)

\* While the journal waits to be cleaned, the notes are clean.
NotesAreClean ==
  \A d \in People :
    /\ At(d, "erase") \/ At(d, "scrub") => d \in Officers
    /\ At(d, "scrub") => desk[d].of \notin note \/ desk[d].of \in late.trace

GuestsInv ==
  /\ GuestsTypeOK /\ RowsAreWhole /\ RipeIsOver /\ NotesAreClean
  /\ LiveGuestKnown /\ NoTraceIsLeft
=============================================================================
