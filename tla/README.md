# A verification project for the hotel's book

The repository is a property management system for hotels: a NestJS service with PostgreSQL,
Redis and an object store, and a React cabinet. It also sells rooms to a partner, Kars Avia, over
an API. This directory models the parts where a mistake costs a guest a bed, the hotel or the partner money, or
somebody's data: the book of reservations, what a partner is told, promised and charged, what
a hotel sells and at what price, sessions and accounts, and the forgetting of guests.
TLC checks the modules on small instances; TLAPS checks theorems about them for all values of the constants.

## The system

All state that matters is in PostgreSQL, shared by one or more Node processes. Every operation of
a service is one interactive transaction (`common/prisma/prisma.service.ts`, `forTenant`) at the
default isolation level, READ COMMITTED: each SELECT sees what is committed when it runs, and an
UPDATE keyed by the id alone overwrites whatever came in between. Between two `await`s of one request
any other request may run, so the unit of interleaving is the SQL statement - or, where a
handler opens a transaction after another, the transaction. Redis holds caches and
counters, each command a step of its own. A browser acts on what it loaded last.

| Component | State | Modelled by |
|---|---|---|
| reservations | row of a booking: room, nights, place, party, status, version | `Reservations`, `Overtaking`, `PartnerDesk` |
| room places (`room-places.ts`) | none: pure functions | `RoomPlaces`, `FilledRoom` |
| partner create with an idempotency key | key and fingerprint in the row, advisory lock | `PartnerBooking`, `KeyedBooking` |
| rest of the partner API | reviews, annexes, orders of meals, invitations | `PartnerDesk`, `CorporateTariff`, `Accounts` (catalogue and registration of hotels: no) |
| partner webhook | events in the memory of a process | `PartnerNews` |
| guest data, retention | personal data in rows, notes and journal; daily rules | `GuestData` (deletions by age alone: no) |
| folio | charges, payments | as "has a balance" in `Reservations`, notes in `GuestData` |
| rooms, categories | rows, archive, codes, photos | `Premises`, `PhotoLists`, `Reservations` (archive) |
| housekeeping | tasks, cleanliness of rooms | `Housekeeping` |
| storage | objects beside the lists that name them | `PhotoLists` |
| rate plans, operator review | tariffs, verdicts with fingerprints | `RatePlans`, `CorporateTariff` |
| rates, seasons, pricing | three tables of prices, and the page they are typed on | `Pricing`, `PriceEditor`, `RatePlans`, `CorporateTariff` (taxes, extras: no) |
| contract prices | documents of a contract, tariffs filled from them | `ContractTariffs`, `ContractSheets`, `CorporateTariff` |
| restrictions, inventory, availability | rules of a day, grid, caches | `StayRules`, `RevenueCalendar`, `HotelViews`, `PartnerDesk` |
| timeline | cached view, socket, chessboard | `HotelViews`, `Chessboard` |
| authentication | refresh tokens, cookies, tabs, counters | `Sessions`, `TabSession`, `LoginThrottle`, `Accounts` (recovery of passwords: no) |
| partner directory | entries switched on and off | `RatePlans` |
| tenants, super admin, leaving | card, archive, export, users, text of the hotel | `Tenants`, `Accounts`, `HotelAbout` |
| partner keys, reports, journal, database access, health, demo data, rest of the frontend | – | not modelled |

How they interact: the cabinet and the partner API both call `ReservationsService`; a departure
consults the folio, dirties the room and later asks for a cleaning task; rooms consult the book
before they are archived; a booking of the partner is priced by its confirmed tariff, through
a quote in Redis that every edit of a tariff drops; after a COMMIT a service drops caches,
tells the chessboards over a socket, writes the journal and sends an event to the partner. The rules of retention
erase guests beside all of this.

What is hard here: checks made in memory on rows read earlier; writes of whole rows from such
rows, and of whole forms from screens that are behind; two rules of places that differ
(`allocatePlace` counts free places, `spanFree` looks for adjacent ones); statuses that may
be set by a button, by the form and by the partner; caches written across an edit; lost answers, repeated
calls and overtaking events; crashes between COMMIT and answer; two tabs that share a cookie.
`PROJECT.json` lists these hazards by line.

## The modules

Names follow the source. Definitions named `Slip...` are deliberate mistakes, each next to the
definition it spoils; no action uses them, and every property of a passing run was seen to fail
with one of them in place of the original. Variables that only record why something may differ from the ideal
(`overtaken`, `doubtful`, `hasty`, `missed`, `undone`, `excused`, `torn`, `late`, `mixed`, `crossed`, `fresh`) decide nothing in any guard; properties
name them as their exceptions, and the runs or the mutants show that the exceptions occur.

### The book

**`RoomPlaces`** – the rule of places as operators. A holder of places is a record with its first
place and its number of guests; the list of holders becomes a set, because two rows with the same
place and party cover the same places. **`FilledRoom`** is a little machine that fills a room in all ways.

**`Reservations`** – `rows`, `rooms` and `debt` are the tables; `job[p]` is the request that `p`
serves: which statement comes next, what it was asked (`req`), what it read (`cur`) and what it will
write (`new`), exactly the local variables of the handler. The statements are actions:

| Source | Actions, in order |
|---|---|
| `create` | `BeginCreate`, `ReadRoom`, `ReadPlaces`, `Insert` |
| `update` | `Begin`, `ReadForUpdate`, `AssertZeroBalance` (a departure), `ReadRoom` and `ReadPlaces` (if place, room, dates or party are sent), `ReadRoomType` (another room), `WriteUpdate` |
| `recordFact` | `Begin`, `ReadForFact`, `AssertZeroBalance`, `WriteFact` |
| `cancel` | `Begin`, `ReadForCancel`, `WriteCancel` |
| `swap` | `BeginSwap`, `ReadForSwap`, `WriteSwap` |
| `RoomsService.archive` | `BeginArchive`, `ReadForArchive`, `WriteArchive` |
| `restore`, `setStatus`, folio | `Restore`, `SetRoomStatus`, `PostToFolio` |
| every early return, timeout, lost connection | `Refuse` |

The last statement and the COMMIT are one action: in between the row lock keeps other writers out and
READ COMMITTED hides the new values from readers. Abstracted: names, phones, notes, prices and stay
times; days are integers; the balance of a folio is a truth value.

**`Overtaking`** – the book with a history. Nothing keeps requests apart, so the rules that matter most (a room is not sold twice, a live booking
stands in no archived room, nobody leaves owing) do not hold of the code: a transaction decides on what it read and writes by the id. The history
says where that happened. A request is `overtaken` when a step of another changes its booking, its balance, a booking of the room it looks at or
the mark of that room after it has read something. A booking is `doubtful` while its present stay is the work of an overtaken request, or it was
revived by its status alone (`BareRevival`: such an update looks at no room); a room is `hasty` if an overtaken request archived it. Every
step is one of `Reservations`, and the history restricts none.

**`Chessboard`** – the desk: drags and forms decided on the bookings as drawn, confirmed against the book
as it is; here a request is one step, its inside is in `Reservations`. `hand[d]` is what a desk is about to confirm, with the row as it was
drawn (`was`); a row's `version` is what the request sends along and the server compares.

### The partner

**`PartnerBooking`** – one key at the partner, end to end: the early lookup, the checks before the
create, the advisory lock, the lookup under it, place and INSERT, the COMMIT, what follows it, and the
handler of errors with its last lookup. The partner repeats calls freely, also with another body; answers get
lost; the process crashes; a connection may break while PostgreSQL still decides about the COMMIT (`limbo`).
`unsettled` is what the partner knows: raised when a POST ends without the partner having read that it
was rejected. **`KeyedBooking`** is the promise of the header, as an abstract specification: a key gets
at most one booking, and every answer is true when it is given. `PromiseKept` says that
`PartnerBooking` implements it.

**`PartnerDesk`** – the dispatcher: asks what is free, books a room of the list or leaves the choice to the hotel,
changes, cancels, reports facts, orders meals; each transaction of `ConnectivityService` is a step.

**`PartnerNews`** – after a COMMIT the handler reads the booking once more and sends an event without waiting:
up to three attempts, each of which may be received though it failed; events overtake one another and die with the process.

**`CorporateTariff`** – one tariff and one stay. The row keeps the operator's verdict and the
fingerprint of what was looked at; whether the tariff is confirmed is computed by every reader (`Applies`).

| Source | Actions, in order |
|---|---|
| `partnerTariffs`, `operatorTariff` | `Look`, then `ReadDocs`, `ReadPrices` (for the fingerprint) and `ReadFigures` (for display) side by side, `Show` |
| `reviewCorporateTariff`, `applyOperatorReview` | `Decide`, `ReadReviewed`, `ReadDocs`, `ReadPrices`, `WriteVerdict` |
| pricing in `createReservation` | `Ask`, `ReadDocs`, `ReadPrices`, then `priceByPlan`: `Hit`, or `Miss`, `ReadQuoted`, `ReadFigures`, `Store`; `Book` |
| `bulkUpsert`, `fillRange`, `remove`, `replaceSeasons`, `setStandard` | `WritePrices`, `Keys`, `Del` |
| `RatePlansService.update` | `ReadBefore`, `WritePlan`, `Keys`, `Del` |
| `putContractPrices`, `syncContractPrices` | `SetDocs` |
| TTL; every refusal, failure or crash | `Expire`; `Fails` |

### What is sold

**`Pricing`** – the price of a night, computed by `AvailabilityService.priceByPlan` and by `PricingService.quote`, over the three
tables. **`PriceEditor`** – the page `Tariffs.jsx` on which they are typed: three tabs with a draft each (`panel`), lists that loaded at different times
(`loaded`), a save under way (`sending`) whose answer finds the page as it is by then, and the page's own computation of a price (`BaselineShown`, `CellShown`). **`RatePlans`** – tariffs with parents, scope and meals, their tables, and the partner's directory; the CHECK and the
partial unique index of `rate_plan` have the last word. **`StayRules`** – rules of a day with the check of a stay and its
availability; **`RevenueCalendar`** adds the two calendars of the page and their dialogs. **`ContractTariffs`** – the
contract's documents and the button that makes the tariffs they ask for, a call at a time. The page looks for what is missing under the number of the
contract (`PlanForSlice`), the server for rivals under every number (`Rivals`: neither `assertUniquePartnerScope` nor the index names the number), and
people make, edit, switch and delete tariffs by hand under any number. **`ContractSheets`** adds what each tariff costs on a day and how its base
prices and seasons are filled in. **`HotelAbout`** – the text of a hotel, read into an editor and written back.

### The house and the platform

**`Premises`** and **`Housekeeping`** – rooms, categories, archive, forms, and who cleans what. A departure dirties its room in its own transaction
and has its task made in another that nobody waits for; that one is content with any open cleaning task of the same booking, in whichever room and
whoever made it. `unsaid` are the rooms a guest has left and nobody has spoken of since; `missed` and `undone` say which of them have lost their task or their dirt. **`PhotoLists`** –
lists of pictures and the objects they name. **`GuestData`** – what is remembered of guests and how it is erased.
**`HotelViews`** – the caches of chessboard, availability and prices in Redis and the screens that hear of changes; a view is known
by the newest change it is sure to show. **`Sessions`** – refresh tokens, cookies, tabs and the requests under way; **`TabSession`** is
the promise they keep. **`Accounts`**, **`LoginThrottle`**, **`Tenants`** – owners by invitation and users, the counters
before a password, and the life of a hotel on the platform.

### Instances

`MCReservations`, `MCDesk`, `MCCorporateTariff` and `MCSessions` give one module its values.
`MCBookings`, `MCHotelViews`, `MCOffice`, `MCAdministration` and `MCSelling` hold several scenes: no step is a step of two of them, so
a behaviour is of one scene and the state space is their sum, not their product.

## What the runs show

Runs that pass:

| Run | Instance | Properties |
|---|---|---|
| `desk` | two requests at a time about one of four matters: rivals (2 bookings, a room), archive, departure, partner (1 booking, 2 rooms) | `SharedForAReason`, `LostFromSightForAReason`, `OwingForAReason`: what goes wrong goes wrong by an overtaken request, or by a status alone |
| `racing` | two requests at a time, 2 bookings, a hotel that sells places | `SpanInRoom`: drags and growing parties keep every booking inside its room. `DepartedHadArrived`: nobody leaves who never came, not even by a lost update |
| `bookings` | scenes partner (2 concurrent POSTs, 1 key, 2 bodies, fairness) and board (2 bookings, 2 rooms, a desk, 2 changes by others) | `RejectionIsFinal`, `PromiseKept`, `Answered`, `ConfirmedIsDone`, `PriceStays` |
| `corporate_tariff` | 2 processes, one with a screen, 2 edits | `RefusalIsHonest`, `StaleQuoteHasReason`, `ChargedAsShown` |
| `sessions` | 2 tabs, 2 requests, a dispatcher and an employee | `DeactivatedIsOut`, `TabKeepsHotel` |
| `hotel_views` | 2 writers, 2 readers, a chessboard; fairness | `OwnSaveSeen`, `ScreenBehindOnlyByBlemish`, `CachesSettle` |
| `office` | scenes news (2 writers, 2 changes) and guests (1 booking, 2 machines); fairness | `NewestIsHeard`, `EveryChangeTold`, `LiveGuestKnown`, `NoTraceIsLeft`, `GuestIsForgotten` |
| `administration` | scenes pictures, category, premises, cleaning, places, leaving, card, people, doors | `PhotosExist`, `DepartureIsSeen`, `GapIsFound`, `HotelLeavesInOrder`, `OneOwnerByInvite`, `GuessesAreBounded` |
| `selling` | scenes tariffs, rules, calendar, sheets, slices, text, rooms, stays, prices | `PickedDifferByMeal`, `PartnerPriceStable`, `BookableKnowsRules`, `ContractIsFilledIn`, `RefusedForAnotherContract`, `NothingIsLost`, `RefusedOnlyIfChanged`, `MealsAreOneOrder`, `SavedForItsGuests`, `CalendarShowsOffer` |

Each property is explained by the comment above it. Runs that TLC refutes; each compares a sentence of the source with what the code does:

| Run | Property | What happens |
|---|---|---|
| `race_double_booking` | `NoDoubleBooking` | two creates read the free room before either inserts |
| `currency` | `MoneyKeepsCurrency` | the hotel's settings page changes the currency under existing bookings; only the platform's panel refuses that |
| `stop_sale` | `StopSaleKept` | `getGrid` dates its rows as instants, so the calendar of inventory finds no day, its dialog opens empty, and saving it lifts a stop-sale |

More that modelling showed and no run lists: a change of the bare status returns a booking to a room sold again or archived meanwhile
(`BareRevival`, a reason that the properties of `desk` name); a swap tells neither journal nor partner; a booking created as CHECKED_IN departs without an arrival (`CreatedExpected`); a drag
inside a full room that also shifts nights offers only a swap; a telephone or note that was emptied is not sent; creating a
booking looks at no restriction and no stop-sale; the dialog of rules opened on a rule of one tariff saves it as a rule of all.

Some more properties are stated in the modules. All but the last are refuted by TLC. Name one in the `.cfg` of the run to see it:

| Property | Where | What happens |
|---|---|---|
| `PlacesDisjoint` of `Reservations` | `reservations_racing.cfg` with `SPECIFICATION Spec`, `Procs = {p1}`, `Ids = {b1, b2, b3}`, `Requests <- Parties` | free places are counted: a party of two is put on one free place and one taken, with one request at a time |
| `SpanInRoom` of `Reservations`, with swaps | the same with two bookings and `Requests <- Exchanges` | parties of different size are swapped: the larger ends beyond the last place (the theorem assumes `NoSwaps`) |
| `CalendarMirrorsBackend` of `PriceEditor` | `selling.cfg`, `Scenes = {"prices"}` | `Tariffs.jsx:82` says the page "mirrors backend". The server chooses the season that counts and then looks for the guests (`rate-resolution.ts:83`), the page looks for the guests first: of two seasons that overlap, it shows the price of the lower where the upper has none for so many guests, and the night is not offered |
| `FillZeroClears` of `PriceEditor` | the same, as a `PROPERTY` | `fill-rates.dto.ts:33` says "0 to clear" and the dialog says so too; `fillRange` writes a row with the price 0, which `bulkUpsert` would have deleted: the night is offered for nothing |
| `AvailableCanBeBooked` of `PartnerDesk` | `selling.cfg`, `Scenes = {"rooms"}` | availability counts rooms of the grid, into which nothing writes bookings: a full house is offered |
| `CookedForTheStay` of `PartnerDesk` | `selling.cfg`, `Scenes = {"stays"}` | the dates change after the meals were ordered: portions outside the stay |
| `RepeatIsNoError` of `PartnerDesk` | the same | the hotel records the fact between the two transactions of a report of it: the report is refused |
| `PlanRuleWins` of `StayRules` | `selling.cfg`, `Scenes = {"rules"}` | availability and the check of a stay read a departure rule of the hotel and of a tariff differently |
| `ConfirmedWasShown` of `CorporateTariff` | `corporate_tariff.cfg` | an edit while the screen loads: old figures with the fingerprint of the new ones, confirmed |
| `EditIsSaved` of `HotelAbout` | `selling.cfg`, `Scenes = {"text"}` | the free text alone was edited: the page is not told of it and saves what it had |
| `SeasonsReturn` of `PriceEditor` | `selling.cfg`, `Scenes = {"prices"}` | holds: a list of seasons comes back as it was saved, in its order |

### Bounds

* Two bookings suffice for every property of the book: each speaks of one booking or of a pair. Two rooms give
  a move somewhere to go; two nights give stays that touch, overlap and contain each other.
* `MaxVersion = 3` bounds the writes of one row. Saves with every older version are tried, so three writes already give a save that is two versions
  late. In `desk` a behaviour is about one `matter` (`RequestsOf` lists its requests): two bookings compete, or one booking meets the archive, its folio or
  its partner. Two bookings in one room, live bookings in archived rooms and guests who leave owing are all reached there.
* Two requests at a time show every race of a read with a write; the writes are single statements, so a third
  request adds no new kind of interleaving, only longer ones. The same holds of two POSTs, two tabs, two
  writers of a cache and two workers at the tariffs.
* One key is enough because POSTs of different keys share no state; two bodies tell the same call from another.
* One tariff, one stay whose nights cost the same: tariffs share nothing but the prefix of their keys in Redis, dropped as
  a whole. Two edits let a change be made and taken back.
* `sessions`: `MaxEvents = 3` bounds what happens by itself (expiry, dismissals, deliveries). The theorem has no such bound in its argument.
* `hotel_views`: two bookings change, or a chessboard moves between two periods, or everything may change and one thing may fail (`MaxChanges`, `MaxFaults`).
* `office`: three attempts as in the code, two changes, one fault; one clerk, one save, one slip and terms of at most a day over three days, so that the
  rules, the clerk and the officer meet. The hotel's own terms are longer than the platform's, so those of the platform count.
* `administration`: `OneForm` (one form open at a time while rooms are cleaned, nobody renumbers, and no further form once one was saved over another's change), `Tidy` (no cleanliness while rooms are made), in
  "leaving" nobody has yet written over another's change (`~crossed`, the exception of its property), `MaxTails = 1` crashed requests,
  `MaxLeft = 2` departures, rooms of up to `MaxCapacity = 4` places: the smallest where two gaps of one place and one of two exist.
* `bookings`: two bookings on the chessboard, one after the other or side by side, two contacts (one of them none), `MaxChanges = 2` changes by others: enough for a
  booking to be moved and cancelled behind a dialog.
* `selling`: `MaxEdits = 5` edits of tariffs (two tariffs, a parent, two terms, a meal), `MaxSaves = 3` rules, `MaxTries = 3` tries of the contract's
  button and changes by hand, under the number of the contract or none (`MCNumbers`), `MaxSteps = 3` of the editor, two changes of the house; `OfOneDay` (one page and one day in the calendar), `Alone` and `AtMeals` (one
  call looks for a room at a time; of the others only orders of meals cross). In `prices` one screen, two beds, two days, one price besides nothing and zero, two seasons of one name, `MaxWrites = 2` saves; `Few` keeps the drafts
  small and types nothing on a page whose last request has been sent. A tariff of the hotel's own and one of a partner both start.
* Symmetry is used only in runs without a liveness property, over names on which nothing depends.

Deadlock is checked in every run but `hotel_views`, `office`, `selling`, `administration`, `currency` and `stop_sale`: there people, and
bounded edits, may simply stop.

### Fairness

`bookings`: each step the service takes of itself is weakly fair (Node runs on, PostgreSQL ends
statements). The grant of the advisory lock is strongly fair, because PostgreSQL queues those that wait. The decision about a COMMIT whose client is
gone is weakly fair. `hotel_views`: readers and writers go on, TTLs run out, a screen that
was told to load does. `office`: a handler goes on after its COMMIT, some event is attempted, days pass, the daily
rules run (a cron job with a retry on every machine), and who has begun an erasure goes on. No failure is required to happen, none to stay
away; nobody is required to open a form, to save or to call.

## What is proved

The theorems hold for any number of bookings, rooms, days, requests, tabs, keys and events. They use the named assumptions on
constants (types, and that `None` is none of the values) and nothing else, unless the table says so. Of each component an invariant is
proved inductive: one lemma per action, and under it one step per part that the action can disturb.
Every such invariant was first checked by TLC in the run of its module.

| Module | Theorem | Property | Invariant behind it |
|---|---|---|---|
| `RoomPlacesProofs` | `AllocationWithinRoom` | | – (counting over finite sets) |
| `ReservationsProofs` | `TypeCorrect` | | `TypeInv`: what a request has in hand at each statement |
| | `DoubleBookingHasReason`, `LostBookingHasReason`, `OwingHasReason` | `SharedForAReason`, `LostFromSightForAReason`, `OwingForAReason` (steps) | `OvertakingInv`: what a request that nobody has overtaken has checked so far still holds |
| | `RacingDepartedHadArrived` | `DepartedHadArrived` | `ArrivalInv` |
| | `RacingSpanInRoom` | `SpanInRoom` | `SpanInv` |
| `PartnerBookingProofs` | `LockProtectsIndex`, `RejectionsAreFinal`, `KeepsPromise`, `TypeCorrect` | `IndexNeverHit` (in no run), `RejectionIsFinal`, `PromiseKept` (refinement) | `LockInv`, `UnsettledInv`, `KnowsInv` |
| | `ShownRoomsAreGiven`, `OneOrderOfMeals` | `RefusedOnlyIfChanged`, `MealsAreOneOrder` | `DeskInv`: what a call saw is still so while it is fresh; who reads an order of meals is alone at them or they are marked |
| `CorporateTariffProofs` | `RefusalsAreHonest`, `StaleQuotesHaveReasons`, `ChargesAreShown`, `TypeCorrect` | `RefusalIsHonest`, `StaleQuoteHasReason`, `ChargedAsShown` | `TariffInv` |
| | `ButtonRefusedForAnotherContract` | `RefusedForAnotherContract` | `ContractInv`: a page in the middle of a press that nobody crossed knows all tariffs and codes, and what it has still to make is not there |
| `SessionsProofs` | `SwitchedOffIsOut`, `TabsKeepTheirHotels`, `HotelTokensAreSpared`, `SessionsTypeCorrect` | `DeactivatedIsOut`, `TabKeepsHotel` (refinement) | `SessionsInv`, and for the refinement what a request about a tab has in hand |
| | `ConfirmedIsWhatWasShown`, `AgreedPriceStays` | `ConfirmedIsDone`, `PriceStays` (steps) | `BoardInv`: a copy of a booking with the booking's version is the booking |
| `PlatformProofs` | `OwnSavesAreSeen`, `ScreensKeepUp` | `OwnSaveSeen`, `ScreenBehindOnlyByBlemish` | `ViewsInv` |
| | `GuestInHouseIsKnown`, `ForgottenEverywhere` | `LiveGuestKnown`, `NoTraceIsLeft` | `GuestsInv` |
| `AdministrationProofs` | `NamedPlaceIsFound` | `GapIsFound` | type of a filling; a free gap is a set of free places as large as the party |
| | `GuessesBounded` | `GuessesAreBounded` | `GuessesInv` |
| | `InvitesBringOneOwner` | `OneOwnerByInvite` | `OwnerInv` |
| | `DeparturesAreSeen` | `DepartureIsSeen` | `HousekeepingInv` |
| | `HotelsLeaveInOrder` | `HotelLeavesInOrder` | `TenantsInv` |
| | `ListedPicturesExist` | `PhotosExist` | `PhotosInv`: a picture has one owner; on its way into a list it is named by nobody else, and kept once it is put; a request that saw the last write holds the list |
| `SellingProofs` | `PlansTypeCorrect`, `PicksDifferByMeal`, `PartnerPricesAreStable` | `PickedDifferByMeal`, `PartnerPriceStable` (steps) | `PlansInv`: what the CHECK and the partial index of `rate_plan` keep |
| | `OneRuleADay`, `BookableAreLetIn` | `BookableKnowsRules` | `RulesInv`: rows and saves have names of their own, a rule not found is not there |
| | `TypedForItsGuests`, `CalendarIsTheOffer` | `SavedForItsGuests`, `CalendarShowsOffer` | `EditorInv`: a day has one price per guests, rows of one order are one season, what pends was typed for the guests on the page |
| | `NewsTypeCorrect`, `PartnerKnowsTheNewest` | `NewestIsHeard` | `NewsInv` |

The arguments, in short:

* **The book, overtaken.** Any number of requests, nothing assumed about them. For a request that nobody has overtaken, the row it read is the row there is, the room it looked
  at is open, the nights it found free are free and the balance it asked for is so (`StillHolds`): a step that leaves all of this as it is keeps it, and one
  that does not makes the request overtaken (`UndisturbedHolds`). So what it writes meets no booking but doubtful ones. Plain `SharedForAReason` is not
  inductive, for it says nothing of what requests are about to write; and without the history nothing is true, as `race_double_booking` shows.
* **Racing book.** An arrival is never taken back, so whoever is about to write a departure read a row that had arrived, and it still has
  (assumes `CreatedExpected`). Whether a party lies inside its room depends on its booking alone, and a request that changes room, place or party
  writes all three as it checked them, so a lost update replaces one row that fits by another (assumes `NoSwaps`).
* **Idempotent create.** A POST in its transaction has the lock of its key; past the second lookup there is no row; a commit in limbo
  still has the lock. A row, or one that may still come, is either known to the partner as unsettled or belongs to a POST whose answer cannot be a rejection.
  `KeepsPromise` maps every step to a step of `KeyedBooking` or a stutter.
* **Corporate tariff.** What a reader has read is still so unless it was overtaken (`UpToDate`); a review agrees with the tables as
  long as nothing changed behind the screen (`Agrees`); the figures behind a confirmation are those of its fingerprint (`Backed`), which a booking
  keeps once it has compared the verdict (`Priceworthy`). `OneRequest` and `OneEdit` carry most of the work.
* **Tariffs of a contract.** Among as many numbers as there are codes in use and one more, one is free (`FreeCodeIsFree`, by counting), so a code that was passed on
  is in no use the page knows of. What is missing is a finite set, listed without repetitions (`ListOfSet`), so the tariff made for its head takes nothing from the rest; whatever
  others do meanwhile crosses the page. What is still in the way can only be a tariff under another number, for one under the contract's the page would have found. Assumes `SheetsAssumption`: a document has a finite number of rows.
* **The dispatcher.** A call that is fresh saw the book as it is, so the room it was shown still has a place by the same count, and `allocatePlace` finds one
  (the lemmas of `RoomPlacesProofs`). An order of meals writes the portions of one order in one transaction; two that cross are marked `mixed` from the moment
  the second begins.
* **The chessboard.** Every write of a booking raises its version, and every copy on a screen or in a dialog is a row that was in the book; so a copy whose version is
  the booking's is the booking (`Copies`), and the comparison the server makes proves what was shown. The price follows from what a request may write (`Forms`).
* **The page of prices.** What pends in the calendar is wiped when the calendar turns to other guests, which is all `SavedForItsGuests` needs besides the answer's wiping it too.
  For `CalendarShowsOffer` the two computations are compared case by case: the day's own price is one row (unique per day and guests), the season that counts exists because a finite set of orders has a greatest
  (a minimum over strict subsets), and its rows, being of one order, are of one window, so both programs pick from the same rows.
* **Sessions.** `SwitchedOffIsOut`: every token of a dispatcher who is off was revoked, or comes from a request that had read the account
  before; requests that rotate a token carry the session of the token they read. `TabsKeepTheirHotels`: a tab of a hotel keeps the cookie's name of that hotel,
  so whichever tab renews, it renews the same session; answers that come after the tab was left are dropped by their number.
* **Caches.** A cache entry that is not marked as written across an edit shows at least what was promised (`CacheNotBehind`); a drop that is under way covers every key it
  has listed (`ListedIsAll`); a screen that is behind has a load due or a blemish (`ScreensFollow`).
* **Tariffs.** The check of a rival in `RatePlansService` is passed by two requests at once; the index is not. Two tariffs picked for one guest
  are equally specific, so their terms are the same, so the index tells them apart by the meal. A tariff of a partner has no parent (the CHECK), so the chain that
  `priceByPlan` and `quote` walk is the tariff itself, and what is read of the tables are its own rows. The two recursive functions are unfolded once,
  which is all a chain of one needs.
* **Rules.** Two saves of one rule of all tariffs may both find none and both add one (NULLs are distinct in the index). Unless that may have happened
  (`crossed`), a day has one rule of all tariffs; availability and the check then read the same row, and a night that
  `Allows` lets in breaks only what availability does not read (`Unread`).
* **News.** Every event says at least what it is about, because it is read after the COMMIT; so when nothing of a change is on its way, the highest thing heard is new
  enough, or one event was refused, given up or cut off.
* **Guests.** Who is forgotten is finished, and what still carries the name is written by a request that saw it before (`late`). The proof found a case
  outside the run's bound of one save: two saves of one form cross and the older brings the name back. The history variable `late` covers it since.
* **Owners, logins, cleaning, leaving.** One good link at a time and every live acceptance has seen what the others have
  (`SawAll`); failures counted and tries past the question are together below the limit and the number of workers; a room that nobody has spoken of since its guest left
  is dirty, announced and listed but for the three reasons, each of which marks it when it happens (`missed`, `undone`); a request that read the hotel before the last change of it can only write by crossing.
* **Pictures.** What a handler deletes was in the list it read. A list of another owner cannot name it, because a picture has one owner; its own does not, because the handler has written
  the list without it, and who writes later and is up to date holds at most that list and a picture of its own, which nobody else names before it is written
  (`PicturesOnTheirWay`, `DropsUnlisted`).

What is only model-checked, and why:

* liveness (`Answered`, `CachesSettle`, `EveryChangeTold`, `GuestIsForgotten`): fairness is out of the prover's reach;
* `ContractIsFilledIn`, `NothingIsLost`: computed by folds over sequences of documents and words, where
  every fact is an induction over data.

Where the proofs changed the model: the price of a night was written with `CASE` whose guards overlap (an own price of the day, a season, a standard price).
TLC takes the first arm that is true, the language leaves the choice open, and the prover rightly found nothing to prove; they are nested conditions now, in the order of the code.
A list of pictures without one of them is written with the position of the picture (`Less`), since none is listed twice: TLC finds the same states, and no induction is needed.

## Not modelled, and why

Partner keys are a stored hash that is compared. Reports are a read-only proxy. The journal is an append-only log on which no decision depends (what it holds of a
guest is in `GuestData`). Database access gives the granularity of the modules. Demo data and health are output. Amounts of the folio,
taxes, extra services, statistics, the text of the offer and the recovery of passwords keep no state that other parts
decide by. The layout of a contract's page and the rest of the frontend are presentation; pages whose state matters are modelled with their components.

## What is left

Everything that was planned is modelled and checked. To be proved remain the two safety properties named above; the parts of the code that no module
covers are listed with their reasons in the table of components. The steps of `ContractSheets` and `HotelAbout` would have to be stated without folds before anything could be proved about them.
