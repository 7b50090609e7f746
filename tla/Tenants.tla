------------------------------ MODULE Tenants ------------------------------
(***************************************************************************)
(* A hotel as the platform's panel sees it: switched off and on, put into  *)
(* the archive and restored, exported and wiped by an act, its card edited *)
(* by an administrator and by the hotel's own settings.  An administrator  *)
(* decides by a screen; the server reads the hotel, sometimes counts its   *)
(* bookings, and writes, each in a step of its own.                        *)
(***************************************************************************)
EXTENDS FiniteSets, Naturals

CONSTANTS
  Admins,
  Stays,    \* bookings
  Currencies,
  Gone,     \* the hotel after its rows were wiped
  Absent    \* no card, no request, no act

VARIABLES
  hotel,   \* its row, or Gone
  stay,    \* Stays -> "none", "live" (new, confirmed or in house) or "past"
  staff,   \* has anybody a token for the hotel?  It outlives a switching off.
  tab,     \* the settings page of the hotel: the card it opened with
  panel,   \* Admins -> the row their list shows and the dialog open on it
  order,   \* Admins -> their request on its way
  act,     \* the fresh export nothing was wiped by yet: the bookings it has
  late,    \* bookings staff brought to life while the hotel was in the archive
  crossed, \* has a request written what another had changed since it looked?
  wiped    \* how the hotel went: "no", "off" or "on"

tenantVars == <<hotel, stay, staff, tab, panel, order, act, late, crossed, wiped>>

Live == {b \in Stays : stay[b] = "live"}
Booked == {b \in Stays : stay[b] # "none"}
There == hotel # Gone

Dialog(kind) == [kind |-> kind, free |-> FALSE, exported |-> FALSE]
NoDialog == Dialog("none")
\* What a row of the list tells the dialogs.
RowOf(h) == IF h = Gone THEN Gone ELSE [active |-> h.active, archived |-> h.archived]

TenantsInit ==
  /\ hotel \in [active : {TRUE}, archived : {FALSE}, currency : Currencies, feature : {FALSE}]
  /\ stay = [b \in Stays |-> "none"]
  /\ staff = FALSE /\ tab = Absent
  /\ panel = [a \in Admins |-> [row |-> RowOf(hotel), dialog |-> NoDialog]]
  /\ order = [a \in Admins |-> Absent]
  /\ act = Absent /\ late = {} /\ crossed = FALSE /\ wiped = "no"

Request(op, want) == [op |-> op, step |-> "read", want |-> want, seen |-> Absent, fresh |-> TRUE]
Outdated == [a \in Admins |-> IF order[a] = Absent THEN Absent ELSE [order[a] EXCEPT !.fresh = FALSE]]
Sent(a, op, want) == order' = [order EXCEPT ![a] = Request(op, want)]
Stops(a) == /\ order' = [order EXCEPT ![a] = Absent]
            /\ UNCHANGED <<hotel, stay, staff, tab, panel, act, late, crossed, wiped>>
Proceeds(a, r) == /\ order' = [order EXCEPT ![a] = r]
              /\ UNCHANGED <<hotel, stay, staff, tab, panel, act, late, crossed, wiped>>
Reached(a, step, ops) == order[a] # Absent /\ order[a].step = step /\ order[a].op \in ops

(***************************************************************************)
(* The panel.  The list is read again now and then and after every         *)
(* request that succeeded; between the two it is what it was.              *)
(***************************************************************************)
Idle(a) == order[a] = Absent /\ panel[a].row # Gone
Row(a) == panel[a].row
Open(a) == panel[a].dialog
OnlyScreen == UNCHANGED <<hotel, stay, staff, tab, order, act, late, crossed, wiped>>
OnlyRequest == UNCHANGED <<hotel, stay, staff, tab, panel, act, late, crossed, wiped>>

\* The row of a dialog may change under it; one of a hotel now listed elsewhere stays open.
Refresh(a) ==
  /\ panel' = [panel EXCEPT ![a].row = RowOf(hotel)]
  /\ OnlyScreen
\* The dialog asks how many bookings there are, all or live ones.
LoadSummary(a) ==
  /\ There /\ Open(a).kind \in {"edit", "archive"}
  /\ panel' = [panel EXCEPT ![a].dialog.free =
       IF Open(a).kind = "edit" THEN Booked = {} ELSE Live = {}]
  /\ OnlyScreen
\* Editing, archiving and switching off are in the list, wiping is in the list of the archived.
OpenDialog(a, kind) ==
  /\ Idle(a) /\ Open(a) = NoDialog
  /\ Row(a).archived <=> kind = "destroy"
  /\ kind = "switch" => Row(a).active
  /\ panel' = [panel EXCEPT ![a].dialog = [Dialog(kind) EXCEPT !.free = kind = "edit"]]
  /\ OnlyScreen
CloseDialog(a) ==
  /\ Open(a) # NoDialog /\ order[a] = Absent
  /\ panel' = [panel EXCEPT ![a].dialog = NoDialog]
  /\ OnlyScreen

PressToggle(a) ==
  /\ Idle(a)
  /\ \/ ~Row(a).archived /\ ~Row(a).active /\ Open(a) = NoDialog
     \/ Open(a).kind = "switch"
     \/ Open(a).kind = "destroy" /\ Row(a).active
  /\ Sent(a, "toggleActive", Absent)
  /\ OnlyRequest
PressArchive(a) ==
  /\ Idle(a) /\ Open(a).kind = "archive" /\ Open(a).free
  /\ Sent(a, "archiveTenant", Absent)
  /\ OnlyRequest
PressRestore(a) ==
  /\ Idle(a) /\ Row(a).archived /\ Open(a) = NoDialog
  /\ Sent(a, "restoreTenant", Absent)
  /\ OnlyRequest
PressExport(a) ==
  /\ Idle(a)
  /\ \/ ~Row(a).archived /\ Open(a) = NoDialog
     \/ Open(a).kind = "destroy"
  /\ Sent(a, "export", Absent)
  /\ OnlyRequest
PressDestroy(a) ==
  /\ Idle(a) /\ Open(a).kind = "destroy" /\ Open(a).exported /\ ~Row(a).active
  /\ Sent(a, "destroy", Absent)
  /\ OnlyRequest
\* The currency is locked once the dialog knows of a booking.
SaveCard(a, currency) ==
  /\ Idle(a) /\ Open(a).kind = "edit" /\ Open(a).free
  /\ Sent(a, "updateTenant", currency)
  /\ OnlyRequest
ApplyFeature(a, on) ==
  /\ Idle(a) /\ Open(a) = NoDialog
  /\ Sent(a, "applyFeature", on)
  /\ OnlyRequest

(***************************************************************************)
(* The server.                                                             *)
(***************************************************************************)
\* As if an archived hotel could be switched on.
SlipRefusedAtOnce(r) ==
  \/ hotel = Gone
  \/ r.op \in {"archiveTenant", "updateTenant", "applyFeature"} /\ hotel.archived
  \/ r.op = "restoreTenant" /\ ~hotel.archived
  \/ r.op = "applyFeature" /\ hotel.feature = r.want
  \/ r.op = "updateTenant" /\ hotel.currency = r.want
  \/ r.op = "destroy" /\ (hotel.active \/ act = Absent)

\* Refused, or nothing to do.
RefusedAtOnce(r) ==
  \/ hotel = Gone
  \/ r.op \in {"toggleActive", "archiveTenant", "updateTenant", "applyFeature"} /\ hotel.archived
  \/ r.op = "restoreTenant" /\ ~hotel.archived
  \/ r.op = "applyFeature" /\ hotel.feature = r.want
  \/ r.op = "updateTenant" /\ hotel.currency = r.want
  \/ r.op = "destroy" /\ (hotel.active \/ act = Absent)

Read(a) ==
  /\ order[a] # Absent /\ order[a].step = "read"
  /\ IF RefusedAtOnce(order[a]) THEN Stops(a)
     ELSE Proceeds(a, [order[a] EXCEPT
            !.step = IF order[a].op \in {"archiveTenant", "updateTenant"} THEN "count" ELSE "write",
            !.seen = IF order[a].op = "toggleActive" THEN hotel.active
                     ELSE IF order[a].op = "export" THEN Booked ELSE Absent,
            !.fresh = TRUE])

Count(a) ==
  /\ Reached(a, "count", {"archiveTenant", "updateTenant"})
  /\ IF (IF order[a].op = "archiveTenant" THEN Live ELSE Booked) # {} THEN Stops(a)
     ELSE Proceeds(a, [order[a] EXCEPT !.step = "write"])

Closes(a) == panel' = [panel EXCEPT ![a].dialog = NoDialog]
Stored(a) == crossed' = (crossed \/ ~order[a].fresh)
Ended(a) == order' = [Outdated EXCEPT ![a] = Absent]

\* The dialog of wiping stays open through its first step.
WriteActive(a) ==
  /\ Reached(a, "write", {"toggleActive"}) /\ There
  /\ hotel' = [hotel EXCEPT !.active = ~order[a].seen]
  /\ IF Open(a).kind = "switch" THEN Closes(a) ELSE UNCHANGED panel
  /\ Ended(a) /\ Stored(a)
  /\ UNCHANGED <<stay, staff, tab, act, late, wiped>>

WriteArchive(a) ==
  /\ Reached(a, "write", {"archiveTenant"}) /\ There
  /\ hotel' = [hotel EXCEPT !.active = FALSE, !.archived = TRUE]
  /\ Closes(a) /\ Ended(a) /\ Stored(a)
  /\ UNCHANGED <<stay, staff, tab, act, late, wiped>>

WriteRestore(a) ==
  /\ Reached(a, "write", {"restoreTenant"}) /\ There
  /\ hotel' = [hotel EXCEPT !.active = TRUE, !.archived = FALSE]
  /\ late' = {}
  /\ Ended(a) /\ Stored(a)
  /\ UNCHANGED <<stay, staff, tab, panel, act, wiped>>

WriteCard(a) ==
  /\ Reached(a, "write", {"updateTenant"}) /\ There
  /\ hotel' = [hotel EXCEPT !.currency = order[a].want]
  /\ Closes(a) /\ Stored(a)
  /\ order' = [order EXCEPT ![a] = Absent]
  /\ UNCHANGED <<stay, staff, tab, act, late, wiped>>

WriteFeature(a) ==
  /\ Reached(a, "write", {"applyFeature"}) /\ There
  /\ hotel' = [hotel EXCEPT !.feature = order[a].want]
  /\ Stored(a)
  /\ order' = [order EXCEPT ![a] = Absent]
  /\ UNCHANGED <<stay, staff, tab, panel, act, late, wiped>>

\* The act is dated when the tables have been read; the newest one counts.
WriteAct(a) ==
  /\ Reached(a, "write", {"export"})
  /\ act' = IF There THEN order[a].seen ELSE act
  /\ panel' = [panel EXCEPT ![a].dialog.exported = @ \/ Open(a).kind = "destroy"]
  /\ order' = [order EXCEPT ![a] = Absent]
  /\ UNCHANGED <<hotel, stay, staff, tab, late, crossed, wiped>>

\* Every row of the hotel goes; the act that allowed it is spent.
Wipe(a) ==
  /\ Reached(a, "write", {"destroy"}) /\ There
  /\ wiped' = IF hotel.active THEN "on" ELSE "off"
  /\ hotel' = Gone
  /\ stay' = [b \in Stays |-> "none"]
  /\ act' = Absent /\ late' = {} /\ staff' = FALSE /\ tab' = Absent
  /\ Closes(a) /\ Ended(a) /\ Stored(a)

\* A row that is not there any more cannot be updated.
RowIsGone(a) == order[a] # Absent /\ order[a].step = "write" /\ order[a].op # "export" /\ ~There /\ Stops(a)

Handle(a) ==
  \/ Read(a) \/ Count(a) \/ WriteActive(a) \/ WriteArchive(a) \/ WriteRestore(a)
  \/ WriteCard(a) \/ WriteFeature(a) \/ WriteAct(a) \/ Wipe(a) \/ RowIsGone(a)

\* Seven days later.
ActAges ==
  /\ act # Absent
  /\ act' = Absent
  /\ UNCHANGED <<hotel, stay, staff, tab, panel, order, late, crossed, wiped>>

(***************************************************************************)
(* The hotel's own people.  Nobody asks their token whether the hotel is   *)
(* still on: they work until it expires.                                   *)
(***************************************************************************)
SignIn ==
  /\ There /\ hotel.active
  /\ staff' = TRUE
  /\ UNCHANGED <<hotel, stay, tab, panel, order, act, late, crossed, wiped>>
TokenExpires ==
  /\ staff' = FALSE /\ tab' = Absent
  /\ UNCHANGED <<hotel, stay, panel, order, act, late, crossed, wiped>>

\* A booking taken, or a past one put back.
Revives(b) ==
  /\ There /\ staff /\ stay[b] # "live"
  /\ stay' = [stay EXCEPT ![b] = "live"]
  /\ late' = IF hotel.archived THEN late \cup {b} ELSE late
  /\ order' = Outdated
  /\ UNCHANGED <<hotel, staff, tab, panel, act, crossed, wiped>>
Finishes(b) ==
  /\ There /\ staff /\ stay[b] = "live"
  /\ stay' = [stay EXCEPT ![b] = "past"]
  /\ late' = late \ {b}
  /\ UNCHANGED <<hotel, staff, tab, panel, order, act, crossed, wiped>>

\* The form is filled once; saving sends all of it, whatever has changed since.
OpenSettings ==
  /\ There /\ staff /\ tab = Absent
  /\ tab' = [currency |-> hotel.currency, feature |-> hotel.feature]
  /\ UNCHANGED <<hotel, stay, staff, panel, order, act, late, crossed, wiped>>
SaveSettings(c, f) ==
  /\ There /\ staff /\ tab # Absent
  /\ c = tab.currency \/ f = tab.feature
  /\ tab' = [currency |-> c, feature |-> f]
  /\ hotel' = [hotel EXCEPT !.currency = c, !.feature = f]
  /\ UNCHANGED <<stay, staff, panel, order, act, late, crossed, wiped>>

StaffStep ==
  \/ SignIn \/ TokenExpires
  \/ \E b \in Stays : Revives(b) \/ Finishes(b)
PanelStep(a) == Refresh(a) \/ LoadSummary(a) \/ CloseDialog(a) \/ Handle(a)
\* How a hotel leaves and comes back.
LeavingStep ==
  \/ StaffStep \/ ActAges
  \/ \E a \in Admins :
       \/ PanelStep(a) \/ \E kind \in {"switch", "archive", "destroy"} : OpenDialog(a, kind)
       \/ PressToggle(a) \/ PressArchive(a) \/ PressRestore(a) \/ PressExport(a) \/ PressDestroy(a)
\* How its card is edited.
CardStep ==
  \/ StaffStep \/ OpenSettings \/ \E c \in Currencies, f \in BOOLEAN : SaveSettings(c, f)
  \/ \E a \in Admins :
       \/ PanelStep(a) \/ OpenDialog(a, "edit")
       \/ (\E c \in Currencies : SaveCard(a, c)) \/ (\E on \in BOOLEAN : ApplyFeature(a, on))
TenantsNext == LeavingStep \/ CardStep
TenantsSpec == TenantsInit /\ [][TenantsNext]_tenantVars

(***************************************************************************)
(* Properties.                                                             *)
(***************************************************************************)
\* Unless a request wrote what another had changed since it looked: a hotel
\* in the archive is off, and nobody waits for a stay there but those booked
\* since by staff whose token had not expired; and a hotel wiped was off,
\* though the screen that sent the order may have been an old one.
HotelLeavesInOrder ==
  ~crossed =>
    /\ There /\ hotel.archived => ~hotel.active /\ Live \subseteq late
    /\ wiped # "on"

\* The currency of a hotel with bookings does not change: their sums are in it.
MoneyKeepsCurrency ==
  [][There /\ There' /\ Booked # {} => hotel'.currency = hotel.currency]_tenantVars

(***************************************************************************)
(* Why HotelLeavesInOrder holds: what a request read is still so, unless   *)
(* another wrote since.                                                    *)
(***************************************************************************)
HotelRow == [active : BOOLEAN, archived : BOOLEAN, currency : Currencies, feature : BOOLEAN]
OrderRow ==
  LET Rows(ops, wants, seens) ==
        [op : ops, step : {"read", "count", "write"}, want : wants, seen : seens, fresh : BOOLEAN]
  IN Rows({"toggleActive"}, {Absent}, {Absent} \cup BOOLEAN)
       \cup Rows({"archiveTenant", "restoreTenant", "destroy"}, {Absent}, {Absent})
       \cup Rows({"export"}, {Absent}, {Absent} \cup SUBSET Stays)
       \cup Rows({"updateTenant"}, Currencies, {Absent})
       \cup Rows({"applyFeature"}, BOOLEAN, {Absent})

\* A hotel that went is no hotel, nothing is no request.
TenantsAssumption == Gone \notin HotelRow /\ Absent \notin OrderRow

TenantsTypeOK ==
  /\ hotel \in HotelRow \cup {Gone}
  /\ stay \in [Stays -> {"none", "live", "past"}]
  /\ order \in [Admins -> OrderRow \cup {Absent}]

\* What is so when a request writes, if nobody wrote since it read.
StillSo(r) ==
  /\ r.op = "toggleActive" => There /\ ~hotel.archived /\ r.seen = hotel.active
  /\ r.op = "archiveTenant" => Live = {}
  /\ r.op = "destroy" => There /\ ~hotel.active
ReadHolds ==
  \A a \in Admins : order[a] # Absent /\ order[a].step = "write" /\ order[a].fresh => StillSo(order[a])

TenantsInv == TenantsTypeOK /\ ReadHolds /\ HotelLeavesInOrder
=============================================================================
