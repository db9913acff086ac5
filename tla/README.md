# Verification of the barbershop booking backend

TLA+ models of the booking backend in this repository (NestJS, TypeORM over
Postgres, Redis), the TLC configurations that check them, and theorems about
them that TLAPS proves. Paths below are those of the repository, without the
leading `src/`; `bookings.service.ts` and its neighbours are in `src/bookings`.

1. [The system](#1-the-system)
2. [Modules](#2-modules)
3. [How the model relates to the code](#3-how-the-model-relates-to-the-code)
4. [Runs](#4-runs)
5. [Where the code does not keep its word](#5-where-the-code-does-not-keep-its-word)
6. [Proofs](#6-proofs)
7. [What is not modelled](#7-what-is-not-modelled)
8. [Plan](#8-plan)

## 1. The system

One Node process answers HTTP requests and runs the cron jobs. It keeps no state
of its own that outlives a request: what persists is in Postgres and in Redis.
Handlers are `async`, so two of them interleave wherever one awaits, and that is
where nearly everything that can go wrong goes wrong.

| component | state it keeps | operations | hard behaviour | what makes it correct |
|---|---|---|---|---|
| BookingsService (`bookings.service.ts`) | table `bookings` | hold, verify, confirm, cancel, reschedule, update, remove, resend | every handler loads a row, awaits, and saves it; a save reads the row again and writes the columns that differ, so the columns of two handlers can mix | no slot booked twice; a hold has a deadline and code and OTP columns agree with the status, but for mixed rows (section 5); the end follows the start |
| RedisLockService (`common/redis`) | `lock:...` keys with owner token and 5 s TTL, `booking:hold:...` keys | acquire, release, withLock, setSlotHold, releaseSlotHold | TTL shorter than the section; late release; release that fails | one owner per key; only the owner or the TTL frees it; no key for ever |
| SlotService (`modules/otp/slot.service.ts`) | none | isSlotAvailable | read and later write are not one transaction | the overlap test is right on the rows it sees |
| BookingCleanupCron | none | expire (each minute), archive, no-shows | finds by status, updates by id, frees by old slot | expires holds only; misses none |
| AdminBookingsService (`admin/service`) | table `bookings`, logs | set status, bulk set, reschedule, remove, note | no lock; any status to any status | changes nothing a customer's step relies on (it does not: section 5) |
| BookingLookUpService | none (a signed token) | send code, verify code, guest update | patch of single columns | a guest's edit leaves a consistent row (its end it does not: section 5) |
| OtpService (`modules/otp/otp.service.ts`) | `otp:`, `otp:tries:`, `otp:resend:` keys with 5 min TTL | send, verify, resend | the counter is read long before it is incremented; TTLs; pairs of commands that fail half way | bounded guesses and resends; a code works once; a lockout ends |
| rate limits of a hold (`bookings.service.ts:553`) | counters per phone and IP in Redis | check, increment | check and increment far apart | the limits hold up to the requests in flight; nobody is refused for holds of long ago (section 5) |
| blacklist (service, middleware, table) | table, 60 s cache | check, lift (nothing in the code blocks: section 7) | stale cache; save of a stale entry | a blocked phone gets no hold |
| AuthService, JwtStrategy, LoginAttemptService | `users.refresh_token`, `blacklist:at:`, `login:*` keys | login, refresh, logout, validate, register | rotation and logout race; counters and locks race; pipelines that run half | a token that was logged out is refused while it lives; a lock outlives the counter that called for it; a lockout ends |
| ServicesService (`services.service.ts`) | table `services`, two lists cached in memory (24 h) | create, update, toggle, delete, lists | invalidation races with a reader that fills the cache; `create` invalidates before it saves | a list is outdated only by such a race, and catches up |
| CombosService (`combos.service.ts`) | tables `combos`, `combo_detail` | create, view | counts a duration that is missing differently than a hold does | what the site shows is what a hold books |
| BookingsQueryService (`bookings-query.service.ts`) | none | free slots, lookups | reads `appointmentTime` and CONFIRMED only, where a hold reads other columns and statuses | where the list and a hold differ, one of the known reasons applies |
| confirm's tail, BookingGateway, TelegramService | nothing durable | give a code, emit, broadcast with one retry | codes are ordered as strings; a step between save and event fails; answers are lost | every confirmed booking is announced; no message comes three times |
| BookingNotificationCron | none | remind, once a minute, with a line in the log | looks at one exact minute; bookings move across it; runs are missed | nobody is reminded twice; who was confirmed in time is reminded |
| barbers, blogs, contacts, booking logs, captcha, crypto | tables | create and read, stubs | none to speak of | — |

How they interact: a hold goes through captcha, blacklist and rate limits, takes
the lock of its slot, asks SlotService inside the lock, saves a PENDING row with
a deadline ten minutes away, and has OtpService send a code. Verify and confirm
move the row on; confirm gives it a code (`BK-yyyymm-nnn`) and emits
`booking.confirmed`, which the gateway and Telegram pass on. The cron expires
what missed its deadline. Customers, guests with a token and administrators
change or remove rows meanwhile, each by its own rules, and all of them meet in
one table.

## 2. Modules

| module | what it is |
|---|---|
| `BookingEntity` | one row of `bookings`, the transition table, the overlap test, and for each handler the columns it writes |
| `Bookings` | everything that writes that table: the seven customer operations, the guest's update, four admin operations, three cron jobs, the lock and hold keys, TTLs, failing calls, crashes |
| `SaveHistory` | `Bookings` with a record of the saves whose columns mixed with another write's |
| `BookingHistory` | `Bookings` with a record of the bookings that came to their place around the lock |
| `SlotLedger` | what booking promises, with no rows, locks or clocks: a slot has at most one booking and changes hands only by being free |
| `OneTimeCode` | what a one-time code promises, with no Redis, TTLs or counters: a scope has its newest code until that admits somebody or lapses, and nobody shows a code that has admitted somebody |
| `Otp` | OtpService: the codes, the tries, the resends, their TTLs, pairs of commands that fail half way |
| `Auth` | AuthService, LoginAttemptService, JwtStrategy: failures and locks, login, refresh, logout, register |
| `SessionHistory` | `Auth` with a record of what its sessions rest on: passwords, and requests that a logout overtook |
| `HoldGuards` | what a hold passes before the lock: the blacklist with its cache, the rate limits, and the count after the save |
| `Availability` | the free slots the site offers, over the state of `Bookings` |
| `Catalog` | the table of services with its cached lists, and the combos |
| `Notifications` | the code of a confirmation, its event, Telegram, the reminder |
| `RequestView` | what of a request the future still depends on, for TLC's views |
| `MCBookings` | symmetry and view for the runs of `Bookings` |
| `MCSaves` | the same for the runs of `SaveHistory` |
| `MCHistory` | the same for the run of `BookingHistory` and `Availability` |
| `BookingsProofs` | `Bookings` and `Availability`: types, locks, ends, offered and hidden slots, codes, expiry |
| `BookingHistoryProofs` | how bookings come to share a time, with nothing assumed; how a hold loses its deadline and a booking its OTP |
| `BookingsExclusiveProofs` | slots, that `Bookings` implements `SlotLedger`, and what `SlotLedger` guarantees |
| `OtpProofs` | the bounds of `Otp`, that it implements `OneTimeCode`, and what `OneTimeCode` guarantees |
| `AuthProofs` | locks and logouts of `Auth`, and how its sessions come about |
| `HoldGuardsProofs` | limits and blocks of `HoldGuards` |
| `CatalogProofs` | cached lists and durations of `Catalog` |
| `NotificationsProofs` | codes, announcements, messages and reminders of `Notifications` |

`Bookings`, `Otp` and `HoldGuards` are not composed: what crosses between them
is one answer. Whether the customer typed the right code `Bookings` leaves open
(`VerifyRead` may be followed by `VerifySave` or by `Throw`); whether the slot
was free `HoldGuards` leaves open (`Hold`); and a hold that its guards refuse has
no effect on the table. So each module allows all that the composition does.
`Auth` shares no state with the others: the administrators it lets in appear in
`Bookings` as requests.

`Availability` extends `Bookings`: it adds no step, only the query, so it is
checked and proved in every state that module reaches. `Notifications` has the
table again, reduced to the columns it reads (status, start and code). Whatever
else writes a row is one action, `Rewrite`, that may at any time write any status,
any start, and no code, the code there is or one the row may have had, and may
remove the row and put it back. So it stands for status changes by hand, stale
saves that clear a code or bring one back, and `remove`, each of which `Bookings`
has as an action. A confirmation's own save is `Saved`: the columns it changes,
any of which another write may keep, as in `Save` of `Bookings`.

`SaveHistory` and `BookingHistory` add variables to `Bookings` and no behaviour: no
action reads `late`, `mixed` or `strays`, and `RecordSaves` and `Record` say what
they become, so they never stop a step (theorems `SaveRecordOnlyLooksOn`,
`RecordOnlyLooksOn`);
`SessionHistory` does the same for `Auth` with three variables (theorem
`SessionRecordOnlyLooksOn`).
`Catalog` meets
the bookings in one number, the minutes a hold adds up (`HoldMinutes`).

## 3. How the model relates to the code

**Steps.** A handler runs without interruption from one `await` to the next, so a
request is a chain of actions, one per awaited call whose outcome others can change
or observe. `req[p].at` names the awaited call that comes next, `req[p].snap` is the
entity object the handler holds, `req[p].key` the slot it asks for. `VerifyRead` is
`verifyOtp` up to the awaited OTP check, `VerifySave` is the rest, but for its save.
Awaits nobody can tell apart are merged: a log line with the save before it, reads
that never change with the read after them. Where what is read before a write only
feeds the log or a token check (`updateStatus`, `guestUpdateBooking`), the handler
is one action.

**Saves.** `repository.save(entity)` of a loaded booking is two calls of TypeORM
0.3: a `SELECT` of the row as it is now, then an `UPDATE` of the columns in which
the entity differs from what that `SELECT` saw, or an `INSERT` when it saw none.
Both are steps: `Select` keeps the row in `req[p].seen`, and the save action
(`VerifySave`, `ConfirmSave`, `CancelSave`, `MoveSave`, `UpdateSave`) then writes
with `Updated` the columns in which `snap`, as the handler changed it, and `seen`
differ. Between the two any other handler may write. So a save writes back what was
loaded before (a *stale* save: its `SELECT` sees the other write, and the loaded
column differs from it), or leaves a column alone that another handler writes
after its `SELECT` (a *mixed* row). `otpVerifiedAt` is a timestamp: two
verifications never write the same one, so the column is among those a
verification writes, and elsewhere `OtpColumn` leaves open whether two rows that
both have one have the same one. A row that went away after the `SELECT` stays
away; one that was away by then is inserted again under its id. `save` of a new
booking is one `INSERT`. `update(id, patch)` and the query builder write the
patched columns of rows that exist. The unique index on `bookingCode` is the guard
`CodeIsFree`.

`SaveHistory` records the mixing: `late` has the requests between `SELECT` and
write whose row was written meanwhile, `mixed` the bookings for which such a
request then wrote.

| variable | in the code |
|---|---|
| `rows`, `nextId` | table `bookings` and its serial |
| `due` | bookings whose `holdExpiresAt` is past (fixed at creation) |
| `lock` | `lock:...` keys; the value stands for the owner's token |
| `holdKey` | `booking:hold:...` keys |
| `req` | handlers in flight; `seen` is what the SELECT of their save saw |
| `sweep` | runs of `expireStaleBookings` in flight: what they found, and the slots it had then |
| `announced` | bookings for which `booking.confirmed` was emitted |

**Data.** Times of day are minutes on a grid; `calcEndTime` and `toMinutes` are
inverse on `"HH:mm"` within a day. Names, phones, prices, notes, logs and audit
times are left out: no handler decides on them. A booking code is its sequence
number; their order as strings is in `Notifications`.

**Switches.** Four constants say which environment an instance has:

- `Ops`, the operations the environment asks for;
- `AdminStatuses`, the statuses administrators set;
- `LeaseHolds`: no critical section outlives the 5 s of `LOCK_TTL_MS`. The code
  does not enforce it, it chose 5 s to make it likely;
- `Serial`: requests on one booking come one after another and none straddles its
  hold deadline. The code does not enforce this at all. A browser that waits for
  each answer behaves so; section 5 shows what happens otherwise.

A claim made under a switch says so, and `"deadline"` is an operation as well: where
it is not in `Ops` no hold passes its ten minutes. What is claimed with `Serial =
FALSE` and `LeaseHolds = FALSE` is claimed of the code as it is.

**Otp.** A key is its number and the ticks it has left. Two commands in one
`Promise.all` leave on one connection back to back, so nobody comes between them,
but the connection may break after the first: every such pair has a branch in
which only the first ran. `send`, which a hold, a lookup and a resend share, may
come at any time. `wrong` and `accepted` record the answers given; the code does
not keep them and no action reads them. `Stored` and `Shown` map the state to that
of `OneTimeCode`: a guess that was compared and found right has shown the code,
and the two `DEL`s let its guest in. `Fail` there, or a connection that breaks
between them, is an `Enter` that turns the guest away.

**Auth.** Counters and locks are as in `Otp`. `RecordFailure` is the pipeline of
four commands: `ran` of them ran, and the replies of `heard` of them arrived, so
a broken connection is in the model with everything it may leave behind
(`login-attempt.service.ts:92`; a reply that did not come counts as 1). `lapsed`
names the keys on which a command was lost. An e-mail stands for its spellings,
which share their keys. `bcrypt` looks at 72 bytes; a refresh
token of a user begins with the same header, `sub` and the start of `email`, so
its first 72 bytes never change and `auth.service.ts:174` finds every unexpired
refresh token of the user valid as long as the column is set. So `signedIn` is a
set of users and not a token per user. Of the access tokens one is watched, from
its issue to its end; no token has an effect on the keys of another.
`SessionHistory` records whose password was given since the last logout
(`earned`), which requests a logout came before (`overtaken`), and whose session
such a request has saved (`revived`).

**HoldGuards.** `CheckRate` is one `GET`, `req[p].next` says which; the count at
the end is one pipeline, which may break after any command; `lapsed` names the
counters on which one was lost. `watch` is for the properties: a day, or a week,
that begins at any time, and the holds that incremented its counter in it. `free`
likewise says whether the phone was not blocked at some moment since the request
came. The code keeps neither and no guard reads them. The cache may expire at any
time: its 60 s are much less than a tick. `Block` is somebody who enters a phone in
the table by hand: the code's own `handleNoShowBlacklist` is called by `markNoShow`
only, and nothing calls that. The daily limits of the code are both
20 (`bookings.service.ts:538`; its message and the repository's README say 2):
the model has one constant for them.

**Availability.** `Offered` is the loop of `getAvailableSlots` over the half hours
of the working day, `Listed` its query, `Busy` its `isBusy`. `appt` in a row of
`BookingEntity` is `appointmentTime`, which neither reschedule writes; `LeftBehind`
says that one has been.

**Catalog.** A list is a function from the services to what is shown of them, the
status and the duration; `View` is what the query would return now. `Get`,
`Query`, `Set` are a reader that misses the cache; a hit changes nothing. The
writers invalidate after the write, except `create`, where `Clear` comes before
`Insert`. The cache is the memory of the process (`CacheModule`), so a crash
empties it. `behind` is for the property: the readers a write has overtaken, and
the lists they stored or that a `create` or a lost answer went past.

**Notifications.** `NextCode` is `generateBookingCode`: the number after the last
code in the order of the column, where `Before` compares strings of `Width` digits
or one more. Codes of one month are meant. `before` stands for the codes of earlier
bookings, of which only the last matters; `others` for the codes other bookings get
or lose meanwhile. The uniqueness that `ConfirmSave` asks for is the index on
`bookingCode`, `MayHave`: a save that meets it ends as `Fail`. `send[e][c]` is one
`sendMessage`: `first`, then after a failure `wait` for three seconds and `second`.
The API can deliver without the answer arriving. `got` counts what the chat
received. A booking's start is a minute of the calendar, since the cron compares
date and time together. `cron` has the minutes that runs look for; a run is started
at most once a minute (`ticked`), takes as long as it likes, and may fail or be
missed. `early`, `missed` and `silent` are for the properties: bookings not written
since their reminder became due, starts whose run did not come or end, bookings that
somebody confirmed without telling anybody. A reminder is six lines on the console
(`notification-booking.cron.ts:51`): what is counted is who would get one.

**Redis and the process.** A call can reject (`Throw`, `Fail`): inside `withLock`
the `finally` still runs, and `release` itself can reject, which leaves the key to
its TTL. `Crash` ends the process: requests and cron runs vanish, tables and keys
stay.

## 4. Runs

Twelve runs, all with small constants; TLC explores every state of each.

| run | cfg | states | what it asks |
|---|---|---|---|
| `exclusive` | `Bookings_exclusive` | 1.7 M | `SlotExclusive`, `ImplementsLedger`, `CodeIsFinal`, `ConfirmedNeverExpires` |
| `locks` | `Bookings_locks` | 1.4 M | `TypeOK`, `LockFreedByOwner` |
| `saves` | `SaveHistory` | 0.19 M | `DeadlineExplained`, `PhoneExplained`, `HoldsEnd`, `LocksFree` |
| `around_the_lock` | `BookingHistory` | 1.6 M | `EndFollowsStart`, `OffersExplained`, `HiddenExplained`, `SharingExplained`, `ImplementsProperLedger` |
| `otp` | `Otp` | 0.43 M | `TypeOK`, `GuessesBounded`, `ResendsBounded`, `LockoutEnds`, `ImplementsOneTimeCode` |
| `auth` | `SessionHistory` | 1.1 M | `TypeOK`, `LocksOutlastCounters`, `LoggedOutRefused`, `SessionsEarned`, `LockoutEnds` |
| `guards` | `HoldGuards` | 1.4 M | `TypeOK`, `RateBounded`, `BlockedGetsNoHold`, `LimitEnds` |
| `catalog` | `Catalog` | 0.74 M | `TypeOK`, `FreshUnlessRaced`, `ShownIsBooked`, `CachesCatchUp` |
| `notifications` | `Notifications` | 0.71 M | `TypeOK`, `NextCodeIsFree`, `ConfirmedIsAnnounced`, `MessagesBounded`, `RemindedOnce`, `RemindedIfInTime`, `BroadcastEnds` |
| `stale_save`, `overlap` | `Bookings_*` | stop at the counterexample | section 5 |
| `window` | `HoldGuards_window` | stops at the counterexample | section 5 |

**exclusive.** Two bookings, two slots, two requests at once, one cron run, under
`Serial` and `LeaseHolds`. Two is enough for every conflict the properties speak
of: each relates two bookings, or two requests, or a booking and a cron run. Both
slots are needed so that a reschedule can move from one to the other while the
other is being held. Within these assumptions the lock does what it is for: no
two bookings share a slot, and the table behaves as `SlotLedger`. That nobody
comes to occupy a slot except by a save made under that slot's lock
(`SlotTakenUnderLock`), and that no two requests are in one section
(`SectionExclusive`), are theorems. `CodeIsFinal` says
that a booking's code is never replaced, `ConfirmedNeverExpires` that the cron's
UPDATE by id, which does not look at the status again, expires nobody who
confirmed after it was selected: for that the deadline that `confirm` checks
(`bookings.service.ts:506`) and the one the cron asks for must exclude each other.
Both fail as soon as two requests on one booking
overlap, or one straddles the deadline: section 5. The guest's
update, the raw update, the admin's reschedule, and administrators who reopen
bookings are outside this run: none of them asks whether the slot is taken.

**locks.** Everything customers, guests, administrators and the night's jobs do to
one booking, nothing serialised, leases that expire too early, crashes. Left out are
the deadline and the cron that expires, which touch no lock and which `exclusive`
and `saves` have. `LockFreedByOwner`: a late `release` deletes nothing that is not its
own, and nobody is handed a lock. One booking and one slot are enough, because the
property speaks of one key.

**saves.** Two requests at once on one booking in every interleaving, with the cron.
Two are enough: while one is between the `SELECT` and the `UPDATE` of its save, any
number of others can run in the place of the second, one after another.

- `DeadlineExplained`: the cron looks for holds by `holdExpiresAt`. `confirm`
  clears that column and stale saves bring columns back; still a hold has its
  deadline unless a save mixed its columns with another's (`mixed`).
- `PhoneExplained`: likewise for `otpVerifiedAt`, `bookingCode` and the status.
  Without `mixed` both are false, of the model and of the code: section 5 has
  the schedules.
- `HoldsEnd`: a hold does not stay for ever, or it loses its deadline, which by
  `DeadlineExplained` only a mixed save takes.
- `LocksFree`: no lock key stays for ever, although `release` can reject.

The last two need fairness, `FairSaveSpec`: the cron goes on (it fires each minute
and its queries return), every awaited call returns or rejects, deadlines and TTLs
run out. Nothing forces a customer to come. Stale saves can bring a hold back after
the cron got it; but there are only finitely many
saves in flight, none can be loaded from an expired row, and the cron comes again.
A hold without deadline no cron finds; only its customer or an administrator
ends it. Crashes are not in
this run, since a process that crashes for ever runs no cron. After the last
crash the system is in a state this run visits too: a crash drops requests as
`Throw` does and a cron run as its last step does, and `holdKey`, the one thing
that can differ, is read by nothing. The first two with the guest's update, the
administrators and crashes are theorems; they assume that no administrator sets
PENDING or OTP_VERIFIED by hand.

**around_the_lock.** Two bookings of two units, two start times that overlap,
holds, verifications, confirmations and both reschedules in every interleaving,
leases that run out inside the section: the code as it is. Then bookings
do share times. `strays` records who is where it is by no save under its lock,
and `Astray` names the six ways: the two edits that take no lock, a save of a row
that changed since it was loaded, a reschedule whose columns mixed with another
write's (`MixedBy`), a save after the key ran out, the guest's update, an
administrator who sets an occupying status. `SharingExplained`
says that of two bookings that share a time one is such a stray, or the two start
at different times. `ImplementsProperLedger` says it of every step: without the
strays the table is `SlotLedger`, so a save under the lock never gets a slot that
another such save has. So the check inside the lock is worth what it was meant to
be, and each double booking is traced to one of these lines. Mixed rows come about
in this run, since two reschedules of one booking overlap in it; that such a
row then shares its slot takes a second day, which makes an instance too large for a
run. There the exception is needed: two reschedules of one
booking, one to another day and one to another time, together move it to a slot
neither of them locked. The guest's update, the
administrators' status, the raw update, the removals, the cron runs and crashes are
not in the run either; theorem `SharingIsExplained` has all of it, for every instance.
`EndFollowsStart` holds of mixed rows too: a booking's duration never changes, so
two versions of it differ in both `slotStartTime` and `slotEndTime` or in neither,
and a save writes both or neither.

The two properties of `Availability` compare the public list with what a hold
finds. They differ, and the code means them to in part: the list shows a hold as
free until it is confirmed. The properties say that nothing *else* makes them
differ. A start that is offered and refused lies in a booking that is not
confirmed, begins later (the list asks for the moment, the hold for the interval)
or was moved; a start that is hidden and free was a moved booking's. Moved
bookings are both a false promise and a lost sale, and `appointmentTime` is the
only reason for it. The guest's update is left out: `GuestEdited` writes
`slotStartTime` without `slotEndTime` (`booking-lookup.service.ts:132`), so
`EndFollowsStart` does not survive it. `PATCH /bookings/:id` (`Edited`), which
recomputes the end, is covered by theorem `EndsFollowStarts`.

**otp.** One scope (scopes share no key), two requests, two tries, one resend, TTLs
of two ticks, three codes. Two ticks let a key be refreshed while another runs out;
three codes let a guess be overtaken by two resends. The limits hold up to the
requests in flight and not better: with `n` requests at once a code can be answered
wrong `OTP_MAX_TRIES - 1 + n` times. `ImplementsOneTimeCode` is the refinement:
whatever interleaves, runs out or fails half way, the keys behave as codes that
nobody can show once somebody was let in with them. It does not promise that only
one guest gets in: two requests that compared the same right code before either
deleted it are both let in (`otp.service.ts:81`). `LockoutEnds` needs time to pass,
nothing else; its one exception is a counter whose `EXPIRE` was lost, which stays
until the next code is sent.

**auth.** One e-mail, one address, two requests, one watched token. A tick is half
a window of the e-mail (7.5 minutes): its lock lasts as long as its window, two
ticks, the lock of the address twice as long, as in
`login-attempt.service.ts:8`. Locking the e-mail needs two failures and the
address three, so each can be full without the other. An access token, and its
key on the blacklist, live one tick: a tick between any two steps of a logout ends
both; longer lives are in theorem `LoggedOut`. One e-mail and one address
are enough: the keys of others are changed by their own requests only, and the
two kinds of key meet in `recordFailure` and `recordSuccess` of one request. Two
requests let a success delete what a failure is counting. `LocksOutlastCounters`
is why a lockout is followed by a clean count and not by another lockout at the
first mistake; its exceptions, a lock whose command is still to come or was lost,
are in the formula. `LoggedOutRefused` is claimed of the access token only:
a refresh, or a login, in flight can save a refresh token after the logout
(`auth.service.ts:184`). `SessionsEarned` says that nothing else brings a session
back: whoever is signed in has given the password since the last logout, or was
signed in by such a request, or by refreshes of the session it saved. As all
refresh tokens of a user compare equal (`auth.service.ts:174`), what keeps an old
one out is only that the column is empty.

**guards.** One phone, one address, two requests; a day is one tick with one hold
allowed, a week two ticks with two. `RateBounded` says what a sliding window is
worth: in no day or week, wherever it begins, are there more holds than the limit
and the requests that passed the check together. It needs that a counter is never
forgotten within the window: every hold renews its TTL. `BlockedGetsNoHold` holds
because `checkBlacklist` asks the table again; without it the cache would let a
blocked phone through for a minute. `LimitEnds` needs time to pass and nothing
else. `MaxCount` is above what the counters reach: two requests that pass
a limit of two together make three.

**catalog.** One service, one combo, two requests, durations of none, 0 and 15
minutes, TTL of two ticks. Every race is between two requests on one list: a reader
and a writer, or two writers. One service is enough for the lists, since `View`
treats each service by itself; sums of several durations are in the theorem.
`ShownIsBooked` speaks of combos whose services have a duration and whose sum is not
0: for the others the two sums are written differently (section 5). A reader that
misses the cache can store a list older than the write that emptied it meanwhile,
and `create` empties the cache before it saves, so that any reader in between stores
the list without the new service. `FreshUnlessRaced` says that these, and a write
whose answer is lost, are all the ways a list becomes outdated. `CachesCatchUp`
needs time to pass (`WF(Tick)`), nothing else: no request has to come.

**notifications.** One booking, one chat, one event, one confirmation at a time, two
starts a minute apart with a lead of one minute, and codes that begin at 8 or at
998, so that both 9/10, where an order without padding breaks, and 999/1000, where
the padding ends, are passed. Other bookings take and leave codes (`MaxOthers` above
the first), and other writers clear this booking's code, bring it back, or remove
the row (`Rewrite`), between any two steps of the confirmation. `NextCodeIsFree`
carries the condition that there are less than 1000 codes; beyond it, section 5.
`ConfirmedIsAnnounced` names the two ways a confirmed booking stays unannounced.
`MessagesBounded` says that a retry after a lost answer makes two messages and never
three. `RemindedOnce` holds although a booking may be moved away from a start and
back, or wait in a slow run: each start has one minute in which a run for it begins.
`RemindedIfInTime` is the other side: a run that came and ended missed nobody it
should have found. `BroadcastEnds` needs that a call returns or rejects and that the
timer of the retry fires; the process may crash, which ends it as `lost`.

**Symmetry and view.** Requests are interchangeable (`Symmetric`); runs with
liveness properties do not use it. The runs of the bookings have a view. It leaves
out `holdKey` and `announced`, which no guard, no other variable and no property of
these runs reads, and of a request it keeps what its next steps use
(`RequestView`): of one before the `UPDATE` of its save, the columns that will be
written and the place its entity was loaded from, and not the entity and the
`SELECT` they came from. So it merges only states with the same future.

**Bounds.** `MaxBookings`, `MaxCode` and `MaxCodes` bound what is ever created,
`MaxFails` the failures in one counter, `MaxCount` the holds in one, `MaxServices`
the services, `MaxTime` the clock, `MaxEvents` the events, `MaxOthers` the codes of
others; a request that would pass them waits or fails. `DeadlinePasses` comes once
per booking. Everything else is finite by itself. Where a run is small, section 6
has the theorem for every size.

Every property has a mutant, a bug of the kind somebody might write (a lock taken
without NX, a DEL without the token, a cron that looks for PENDING only, a
counter compared off by one), under which the same run finds it violated. Mutants
stand next to the definition they change, marked `(mutant of ...)`.

## 5. Where the code does not keep its word

Three runs end in a counterexample; each is a schedule of ordinary requests.

- **`stale_save`** (`bookings.service.ts:166`). A verification loads the row; a
  cancellation of the same booking is saved; somebody else holds the free slot;
  the verification saves its entity, whose status differs from the row's and is
  written. Two bookings have the slot. Confirm does the same
  (`bookings.service.ts:227`); a reschedule that waits for its lock also writes the
  status it loaded, but to a slot it has checked (`bookings.service.ts:341`).
- **`overlap`** (`bookings.service.ts:94`). The lock key is the start time. Holds
  at 00:00 and 00:15 of 30 minutes each take different locks, both find the
  barber free, both save.
- **`window`** (`bookings.service.ts:573`). Each hold sets the weekly counter's
  TTL to a week again, so with a hold a week it never restarts. A customer who
  comes once a week is refused the sixth time with "5 bookings this week".

What the models also show and no text of the repository rules out is not stated
as a finding:

- a hold loses its deadline. Two verifications of one booking are let in; the
  `SELECT` of the first one's save sees PENDING, so it will write `status` and
  `otpVerifiedAt`; the second saves, and a confirmation saves CONFIRMED with
  `holdExpiresAt = null`; then the first one's `UPDATE` lands. The row is
  OTP_VERIFIED without a deadline, the cron's query (`booking-cleanup.cron.ts:26`)
  never finds it, and it occupies its slot until somebody acts by hand. TLC shows
  it when `\ mixed` is taken out of `DeadlineExplained`, or the exception out of
  `HoldsEnd`;
- a booking has a code and no `otpVerifiedAt`. A cancellation loaded it PENDING, the
  `SELECT` of its save sees it verified, so it will write `otpVerifiedAt = null`; a
  confirmation saves its code in between (`PhoneExplained` without `\ mixed`);
- two reschedules of one booking, one to another day and one to another time of
  the same day, can leave it on the new day at the new time, a slot neither of them
  locked or checked (`bookings.service.ts:341`, `MixedBy`);
- the guest's update writes `slotStartTime` and leaves `slotEndTime`
  (`booking-lookup.service.ts:132`), where the entity calls the end computed
  from the start and the duration (`booking.entity.ts:66`);
- a combo's services without a duration count 0 minutes for the site and 30 for
  a hold, and a sum of 0 becomes 60 for the hold (`combos.service.ts:94`,
  `bookings.service.ts:81`; so the precondition of `ShownIsBooked`);
- an `INCR` whose `EXPIRE` is lost leaves a counter of tries without TTL: the phone
  is locked until a new code is sent (`otp.service.ts:75`). A connection that breaks
  between the two `DEL`s of a right guess takes the code and lets nobody in
  (`otp.service.ts:81`);
- two confirmations of one booking at once both find no code, and the second save
  replaces the code that the first has answered and announced
  (`bookings.service.ts:219`; so `CodeIsFinal` needs `Serial`);
- the cron selects a hold, a confirmation that began before the deadline saves,
  and the UPDATE by id expires the confirmed booking
  (`booking-cleanup.cron.ts:44`; so `ConfirmedNeverExpires` needs `Serial`);
- after a reschedule the public list offers the new slot and hides the old one
  (`bookings.service.ts:337`, `LeftBehind`);
- after the code `-1000` of a month the last code in the order of strings is still
  `-999`, the next is `-1000` again, and every confirmation of that month fails at
  the unique index (`bookings.service.ts:520`);
- a service list can be outdated for a day after a `create` that a reader
  overlapped (`services.service.ts:57`);
- a confirmation whose log or lookup fails after the save has given a code and
  tells nobody (`bookings.service.ts:228`), and its retry is refused;
- `AdminMoveCheck`/`AdminMoveUpdate` test and write without a lock, and
  `AdminUpdateStatus` can bring a cancelled booking back onto a taken slot;
- a session comes back when a logout overtakes a refresh or a login (`revived`),
  and two refreshes at once both succeed (`RefreshRead`, `SaveRefreshToken`);
- a logout whose second command fails cannot be repeated: its token is on the
  blacklist by then (`Fail` at `clear`);
- `Lift` saves an entry of the blacklist as it was loaded, over a block that was
  renewed meanwhile.

## 6. Proofs

All theorems are of the specification with unconstrained constants, apart from
the assumptions named here.

| theorem | assumes | of the code it says |
|---|---|---|
| `BookingsProofs!TypeCorrect` | — | a step that saves has a row to save |
| `BookingsProofs!EndsFollowStarts` | no guest update | the end is the start plus the duration |
| `BookingsProofs!OffersAreExplained`, `HiddenAreExplained` | no guest update | the reasons for which the public list and a hold differ |
| `BookingsProofs!LocksFreedByOwners` | — | a lock is freed by its owner or its TTL |
| `BookingsProofs!SectionsExclude` | `LeaseHolds` | mutual exclusion under one lock key |
| `BookingsProofs!CodesAreFinal` | `Serial` | the code a customer was told stays |
| `BookingsProofs!ConfirmedNeverExpire` | `Serial`, `OnlyClosedByHand` | the cron expires nobody who is confirmed |
| `BookingHistoryProofs!DeadlinesAreExplained`, `PhonesAreExplained` | `NoHoldByHand` | the columns of a row agree through all stale saves, but where a save mixed them |
| `BookingHistoryProofs!SaveTypesCorrect`, `SaveRecordOnlyLooksOn` | — | the record of mixed saves keeps its types and adds no behaviour |
| `BookingHistoryProofs!SharingIsExplained` | — | of two bookings that share a time and start together, one went around the lock by one of six ways |
| `BookingHistoryProofs!LedgerButForStrays` | — | the refinement of `SlotLedger` by the bookings that are no strays |
| `BookingHistoryProofs!SharersAreStrays` | `Aligned` | of two bookings that share a time, one went around the lock |
| `BookingHistoryProofs!OnlyOvertakenGoAstray` | `LeaseHolds`, `NoWayAround` | stale saves and mixed reschedules are then the only ways around |
| `BookingHistoryProofs!RecordOnlyLooksOn` | — | the record adds no behaviour |
| `BookingsExclusiveProofs!SlotsTakenUnderLock`, `LedgerImplemented`, `NothingPromisedTwice` | `Disciplined` | the lock as the only way to a slot, and the refinement of `SlotLedger` |
| `BookingsExclusiveProofs!SlotsExclude` | `Disciplined`, `Aligned` | no two bookings overlap |
| `BookingsExclusiveProofs!PromiseKept` | — | whatever implements `SlotLedger` shares no slot |
| `OtpProofs!TypeCorrect`, `CodesResistGuessing`, `ResendsAreBounded`, `CodesWorkOnce` | finitely many requests | the limits, for any limits and TTLs |
| `OtpProofs!CodesImplementPromise`, `RightGuessesAreFresh` | finitely many requests | the refinement of `OneTimeCode`; no guess is right by a code that let somebody in |
| `OtpProofs!SpentCodesStaySpent` | — | whatever implements `OneTimeCode` shows no spent code |
| `AuthProofs!Types`, `LocksOutlast` | — | a full counter is gone before its lock is, whatever the limits, as long as a lock lasts as long as its window |
| `AuthProofs!LoggedOut` | — | a token on the blacklist is refused to its end |
| `AuthProofs!SessionsAreEarned` | — | a session without a password since the last logout is the work of a request that it overtook |
| `AuthProofs!SessionRecordOnlyLooksOn` | — | the record adds no behaviour |
| `HoldGuardsProofs!Types`, `HoldsAreLimited` | finitely many requests | no window, wherever it begins, has more holds than the limit and the requests together |
| `HoldGuardsProofs!BlockedIsRefused` | — | no cache lets a blocked phone through |
| `CatalogProofs!Types`, `Fresh` | — | a cached list is outdated by a race, a create or a lost answer only |
| `CatalogProofs!Booked` | — | minutes shown are minutes booked |
| `NotificationsProofs!Types`, `NextCodesAreFree` | — | there is a last code, and below 1000 the next is nobody's |
| `NotificationsProofs!ConfirmedAreAnnounced` | — | a confirmed booking has its event or one of two excuses |
| `NotificationsProofs!MessagesAreBounded` | — | at most two copies of a message |
| `NotificationsProofs!RemindersOnce`, `RemindersComeInTime` | — | one reminder per start, and none forgotten by a run that ended |

`Disciplined` is `Serial`, `LeaseHolds`, none of `update`, `guest`, `admin_move`
in `Ops`, and no occupying status in `AdminStatuses`; `NoWayAround` is the last
two of these. `OnlyClosedByHand`: administrators set `done` and `cancelled` only;
`NoHoldByHand`: they set neither `pending` nor `otp_verified`.
A theorem assumes no more of this than its argument uses: mutual exclusion needs
only the leases, a code's permanence only the order of requests, and what is
said of shared times in `SharingIsExplained` neither. `Aligned` says that a
booking ends before the next start time of the grid; `overlap` shows why it is
needed. The assumptions on constants (`GridAssumption`, `CodeAssumption`,
`BoundAssumption`, `NilAssumption`, `SwitchAssumption`, `LimitAssumption`,
`ReqsAssumption`, `KeysAssumption`, `DursAssumption`, `StartsAssumption`) are
evaluated by TLC in every run of their module.

**Rows.** The row invariants are not inductive by themselves, because a request
saves the entity it loaded, however old. `TypeInv` adds "a request at a save has an
entity, and after its `SELECT` a row or nothing" to the types. `SoundInv` then speaks
of all versions of a booking there are, its row and what requests have loaded or
seen of it: they agree in what nobody writes (barber and duration), and each ends
where it should. So whichever columns a save picks from two of them, the result
does too. That is all `EndsFollowStarts` and the theorems of `Availability` need.

**Mixed saves.** For status, deadline, code and OTP the columns of two versions may
disagree, and `SaveInv` says what is left. A row that no save has mixed is `Good`,
and so is every entity that a request will save (`Vouched`), which moreover has
the status its handler has checked. `UpToDate`: a request between `SELECT` and
write that is not `late` still has the row in front of it, so what it writes makes
the row equal to its entity, and that is `Good`. One that is `late` puts its booking
in `mixed`. Columns need to agree within one version only, which is why the
argument goes through although versions of any age are written.

**Slots.** `ExclInv` is a conjunction with a part for each way a slot could be
taken twice. `NoTwo`: no two occupying rows are on one slot. `Alone`: no two
requests are on one booking (this is what `Serial` buys). `SweepsDue`: what a
cron run has found is past its deadline, so its UPDATE meets nothing that is
still on its way to be confirmed. `Fine(p)` is what request `p` can rely on: it
owns the lock of its section; once past its check, its slot is vacant; and if it
is about to save a verification or a confirmation, the row is still a hold, not
due, on the slot the snapshot has. `Fresh` keeps new ids apart from old ones.
Preservation is split by what a step does to occupancy: most steps take no slot
(`NoGain`), and the saves of a hold and of a move take the one whose lock they
own (`Gain`). `Effect(p)` says what a step of `p` leaves to the others, so the
other requests are dealt with once (`OthersStayFine`) and not per action. The
refinement reads off the same two cases as `Free` and `Take`.

**Sections.** `Leased`: a request between acquire and release owns its key. That
is inductive with the types as soon as leases hold, whatever else runs.

**Shared times.** `HistoryInv` assumes nothing. It says that proper bookings (those
that occupy a slot and are no strays) are each on a slot of their own
(`ProperApart`), with an end that fits (`ProperFit`); and of each request,
`Ready(p)`: once it has checked its slot, and as long as the key is still its own,
no proper booking is on it. For one step there are two cases: whoever comes to a
place is a stray by definition of `Astray` (`OnlyStrays`), so proper bookings can
only become fewer; or one booking gets the slot of a request that owns its key
(`Gets`), and `Ready` says that slot was clear of them. A lease that runs out ends
`Ready` for that request and makes its save a stray's. A reschedule whose `UPDATE`
leaves the booking anywhere but at the slot of its key is one by `MixedBy`; where it
leaves it there, the columns may be of two writes and the slot is still the one it
owns. The two cases are the `Free` and `Take` of `SlotLedger`, which is
`LedgerButForStrays`. `SharersAreStrays` then needs only arithmetic on the grid.

**Codes and expiry.** Both rest on `SerialInv`, which is what `Serial` buys and
nothing more: no two requests are on one booking (`Alone`), new ids are apart from
old ones (`Fresh`, `Numbered`). `CodeInv` adds what a request still knows of its
booking, `KnowsCode`: whoever is about to save the row has its code in the
snapshot, and a confirmation that generates one has found none. `StatusInv` adds
that what a cron run has found is past its deadline (`SweepsDue`), is a booking
there has been (`DueKnown`) and is not confirmed before its UPDATE
(`SweptIsOpen`), and what each request remembers of the status. A step is split by
its `Footprint` (which row, which requests) and its `Outcome` (what the row
becomes), so that the invariants are dealt with by the shape of a step and not by
its name. Neither needs leases or a restriction on `Ops`.

**Offers.** `SeenAlike`: a confirmed booking that was not left behind is seen by
the list and by the overlap test at the same interval, which needs that its end
follows its start. So a booking by which the two differ was left behind, or is not
confirmed, or begins later.

**Otp.** `GuessesBounded` rests on two facts. `Counted`: of the code now stored,
the counter knows every wrong guess, and it outlives the code (each guess renews
the TTL, and a code never gets more). `Guesses`: the wrong guesses of a code plus
those compared and not yet counted are within the bound. A comparison happens
only below the limit, so the first fact gives the second; the requests in flight
are counted with the finite-set lemmas.

**One-time codes.** `Keeps` maps each action to one of `OneTimeCode` or to none:
`Tick` to `Lapse` of the codes that run out, `Send` and `ResendSend` to `Send`,
a comparison that succeeds to `Show`, and `VerifyRight` in both its outcomes, or a
`Fail` after the comparison, to `Enter`. That a request carries a code its scope
has had (`Numbered`) is the one invariant this takes. On the abstract side `Spent`
(an admitted code was sent, and is not the code of its scope) is inductive, since
`Send` uses a new number and `Enter` with success removes the code. The theorem of
`Otp` is the two together.

**Auth.** `LocksOutlastCounters` is not inductive by itself: when a request that
was about to lock ends, something must say that the lock it sets is long enough.
That is `LimitAssumption` (a lock lasts at least its window) with the bound on
`left` in `TypeOK`; and an e-mail is never an address (`KeysAssumption`), or the
lock of one would be taken for that of the other. For `LoggedOutRefused`,
`BlacklistLasts` says it earlier, when the blacklist is written: a request that
is about to clear the session of the watched token left a key that outlives it.

**Sessions.** `SessionsEarned` needs the same of the requests that are let in and
have not saved yet: `LetInEarned` says that their user is in `earned` or
`revived`, or that they are `overtaken`. For one step three facts suffice. Who was
on record and was not logged out by the step stays on it. Nobody is let in but by
a password or by a session that is there before and after the step (`LetInBy`).
Nobody is signed in but by a request that was let in (`SignedInBy`), and if that
one was overtaken the step itself puts its user in `revived`.

**HoldGuards.** `CountersBounded` counts a counter together with the requests that
have passed it and are still to increment it (`Passed`), as for the guesses of an
OTP. `WatchedCounted`: the counter of the watched window knows every hold in it
and outlives it, unless a command was lost on it. The bound follows for holds of
any window. `FreeKnown`: past `checkBlacklist` a request has found its phone free.

**Catalog.** `ReadersKnow`: a reader that no write has overtaken holds what the
table says. Then what it stores is up to date, and `FreshUnlessRaced` is inductive
with it and the types.

**Notifications.** That a confirmation gets a number at all needs a last code.
The bookings may be infinitely many, so `CodesBounded` says that at any time some
number bounds the codes; a bounded set has a greatest head and of those with it a
greatest number (`LastExists`, from the well-foundedness of `<` on the naturals).
`ConfirmedIsAnnounced` is inductive with the types. For the reminders `Over(s)`
says that the minute of `s` has passed or its run has begun: who was reminded of
`s` was reminded by that run, and no other will look for `s` (`ReminderSpent`);
who is confirmed for `s` and was so before has been found by it
(`RemindedOnTime`), because a row written later is not in `early`.

**Only model-checked:** `HoldsEnd`, `LocksFree`, both `LockoutEnds`, `LimitEnds`,
`CachesCatchUp`, `BroadcastEnds` (liveness under fairness is out of the prover's
reach), and the counterexamples of section 5. Every invariant and action property
of a passing run is a theorem, some under the assumptions in the table.

## 7. What is not modelled

- `markNoShow` (and with it `handleNoShowBlacklist`, so that the code itself never
  blocks a phone), `handleExpireBookings`, `isSlotHeld`, and
  `SlotService.getAvailableSlots` have no caller. The rate-limit middleware
  returns before it does anything.
- Contents of logs, notes, prices, statistics and lists; encryption and hashing;
  sockets. No handler that writes decides on them. The lists an administrator or a
  customer reads are queries without a state of their own; the one list that
  another decision rests on, the free slots, is `Availability`.
- The captcha: it asks an outside service and lets the request pass when that is
  out of reach, so any hold may come.
- Blogs and barbers: pages and names created after a check that a unique index
  repeats, and read. Contacts and booking logs are generated stubs.
- The length of a day. The instances of `Bookings` lie within one; a booking that
  runs past midnight ends at "24:30" and does not meet the next day's
  (`bookings.service.ts:510`). Durations of 0 minutes, which a hold turns into 60,
  are in `Catalog` and not in `Bookings`.
- The sending of a reminder: `notification-booking.cron.ts:51` prints it.
- Of booking codes one month: the next begins at 001 again.
- Two Node processes on one database. The code is deployed as one; with two, a
  handler's steps would still be the steps modelled here.

## 8. Plan

Done: the table of bookings with everything that writes it, the free slots, the
OTP, the accounts, the guards of a hold, the catalogue, and the notifications,
each with its safety proved; how bookings come to share a time with nothing
assumed; two abstract specifications, each implemented and each shown to be worth
something. What would come next:

1. One instance that composes `HoldGuards` and `Otp` with the hold of `Bookings`
   through the three answers of section 2, so that the claim made there is a
   refinement and not a remark.
2. An abstract specification of a lockout, for `Auth` and `Otp` together.
3. The calendar: ends past midnight, and `Bookings` over two days.
