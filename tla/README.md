# AI Usage Tracker in TLA+

AI Usage Tracker is a Tauri application. A Rust backend (`src-tauri/src`) keeps accounts
of AI providers, signs in to them, refreshes their usage on a schedule, alerts the user,
keeps a history, and serves it all to a React frontend (`src`), to a local HTTP API and,
on request, to another device. This directory holds TLA+ models of the program's own
logic, the TLC runs that check them on small instances, and proofs that TLAPS checks for
every value of the constants.

Paths below are relative to the repository; Rust files are under `src-tauri/src/`.

* [1. The system](#1-the-system): components, state, operations, interactions
* [2. The modules and the runs](#2-the-modules-and-the-runs)
* [3. What each module models](#3-what-each-module-models), its run, what it shows, its bounds
* [4. Fairness](#4-fairness)
* [5. What is proved](#5-what-is-proved)
* [6. Where code and documentation disagree](#6-where-code-and-documentation-disagree), and other
  behaviour met while modelling
* [7. What is not modelled](#7-what-is-not-modelled)

Running it: `tlc -config X.cfg M` for a run, `tlapm M.tla` for a module of proofs.
`PROJECT.json` lists the runs, the mutants that show that each property can fail, the
lines of code each definition models, the hazards and the theorems.

## 1. The system

Synchronous `#[tauri::command]` functions run one after another on the main thread;
asynchronous ones, and everything they spawn, run concurrently on tokio. State that
several of them share is behind short `parking_lot` locks (never held over an await), a
tokio mutex per account, a tokio semaphore and a few `Notify`s. So the interleavings that
matter are at awaits, between two short locks, and at the ends of spawned tasks.

| Component | State | Operations | What is hard | What makes it correct |
|---|---|---|---|---|
| Account refresh: `usage.rs`, `state.rs` | account locks, refreshes in flight, permits, backoff, `auth_required` | refresh, join, time out, settle; remove, connect and edit under the same lock | a provider task outlives the call that spawned it; locks are dropped and made again; rotated tokens work once | one holder per account; no rotated token lost or shown twice; a removal leaves no sign-in |
| Providers: `providers/` | the credential a refresh carries | renew, call, retry, page, parse | the provider rotates a credential and its answer is lost; each provider counts other answers as final | the newest credential is on disk; a suspension has a cause |
| Refresh loop and backoff: `refresh_loop.rs`, `refresh_backoff.rs`, `background_refresh.rs`, `platform/ios_background.rs` | last refresh, failure counts, wake-up channels, background requests | tick, wake, check, reschedule, run in the background | two clocks, one of which stops and one of which jumps; a process that is killed | a due refresh waits at most a tick; every account is tried again |
| Account store: `store/accounts.rs`, `platform/fs_util.rs` | accounts in memory, file, backup, tombstones | upsert, mutate, remove, recover | a write half fails; a crash between two files | what a restart loads is what was shown; no second account for one person |
| Credential store: `store/credentials/` | keyring entries, chunk generations, manifest, cache, an older service | load, save, migrate, delete | every keyring call may fail; the process may stop anywhere; readers without the lock | a register: a save happens or does not; no mixed sign-in |
| Order, groups, alert settings: `store/` | one value each in memory and on disk | read, change, persist, reset | read-modify-write over two locks; failed writes | a removal leaves nothing |
| Alerts: `store/alerts.rs`, `usage.rs` | alert settings, what was announced, a queue | save, evaluate, mark, deliver | evaluations and saves overlap; marks are written before the notification is shown | what is marked was delivered; no repetition without a reason |
| Deletion of all data: `state.rs`, `commands/system.rs` | everything above | delete all | one deletion of several fails | nothing left, or an error that says so |
| History: `history/` | readings per month, in memory and on disk | record, thin, roll over, prune, remove, report | resets that are late, early or jitter; lost readings; clocks | no use is counted twice or left out |
| Browser sign-in: `auth/oauth/`, `auth/oauth_common.rs`, `auth/login_window.rs`, `commands/auth.rs` | the one pending login, callback server, window, queued code | start, callback, exchange, poll, cancel, time out | every await can be overtaken by a cancel, a timeout or the next attempt | a code is used once; a saved account is reported; the server stops |
| AI Studio: `auth/google_ai_studio_oauth.rs` | the same, and the selected project | sign in, select a project | the callback ends in one of several outcomes | as above |
| Cookie sign-ins: `auth/grok_login.rs`, `auth/opencode_login.rs` | the same, with a cookie poll | capture, save, first refresh, finish | the account is saved long before the attempt finishes | the session saved is the user's own |
| Mobile sign-in: `auth/mobile_auth.rs`, `auth/ios_*.rs`, `auth/sign_in_tab.rs` | the one WebView, the tab, a watch per attempt | navigate, intercept, watch, dismiss | the app's only window shows a provider's page | the app's page comes back; a newer sign-in keeps its page |
| Local API: `bridge_api.rs`, `commands/bridge.rs` | setting, runtime status, rate buckets | enable, bind, serve, drain, retry; admit | a click between check and wait; the port taken; requests that overtake each other | it follows the setting; the rate is bounded |
| Device transfer, sessions: `pairing/mod.rs`, `commands/pairing.rs`, `pairing/transport.rs` | session slot, its answer channels, frozen options, epoch, network binding | host, join, choose role, confirm, cancel | a cancelled session's task lives on; one-shot channels that change owner | only the compared code is confirmed; a dismissed session transfers nothing |
| Device transfer, import: `pairing/payload.rs`, `pairing/airgap.rs` | accounts, sign-ins, groups, order, alerts | plan, remap, apply | a save of an import fails; the device changes during it | sign-ins made here are kept; what arrives is complete and consistent |
| Device transfer, dialog: `src/features/pairing` | view, captured frames, calls under way | open, scan, compare, import, close | answers come after the user moved on | what is imported was compared; completion is told once |
| Discovery: `pairing/discovery.rs`, `pairing/dnssd.rs` | the advertisement | publish, browse | mDNS | a code finds its host, or nothing (the look-up is in `PairingSession`) |
| Updater: `updater/` | last announced version | check, announce, install | | |
| Frontend data and reordering: `src/features`, `src/app` | snapshot, layout, gestures | poll, apply, reorder | | |
| Startup, platform, diagnostics, mobile shells | none of its own | | | |

How they interact. A refresh holds the account's lock while it loads the sign-in from
the credential store, calls the provider, and saves what the provider rotated; it then
writes usage to the account store and the history, and evaluates the alerts. The refresh
loop and the background runs decide which accounts are refreshed when. A sign-in saves
its account under the same lock and then refreshes it. Removal takes the lock and goes
through the credential store, the account store, order, groups, alerts, history, backoff
and the lock map. Transfers read (export) without the lock and write (import) through the
same path as sign-ins. The local API only reads the account store. Settings wake the
refresh loop and the local API.

## 2. The modules and the runs

| Module | Extends | Run (configuration) | Properties of the run |
|---|---|---|---|
| `AccountRefresh` | | `refresh` (`AccountRefresh.cfg`) | `OneHolder`, `NoRetiredTokenPresented`, `SavedTokenUsable`, `NoOrphanSecret`, `EveryCallReturns` |
| `AccountRefreshProofs` | `AccountRefresh` | | theorems, section 5 |
| `ProviderRefresh` with `ProviderWindows` | | `providers` (`ProviderRefresh.cfg`, `MCProviderRefresh`) | `SuspensionHasCause`, `StoredIsNewest` |
| `ProviderRefreshProofs` | `ProviderRefresh`, `RefreshSchedule` | | theorems, section 5 |
| `RefreshSchedule` | | `schedule` (`RefreshSchedule.cfg`) | `DueRefreshWaitsOneTick`, `EveryAccountIsTried` |
| `CredentialStore` implements `SecretRegister` | | `credential` (`CredentialStore.cfg`, `MCCredentialStore`) | `NoOrphanChunks`, `IsRegister` |
| `CredentialStoreProofs` | `CredentialStore` | | theorems, section 5 |
| `AppData` over `AccountStore` over `AccountLists` | | `appdata` (`AppData.cfg`, `MCAppData`) | `ReloadKeepsAccounts`, `TwinNeedsRace`, `PurgeSparesAccounts`, `RemovalForgets` |
| | | `appdata_retried` (`AppData_retried.cfg`) | `RetriedDeleteAllForgets`, violated |
| `UsageAlerts` | | `alerts` (`UsageAlerts.cfg`, `MCUsageAlerts`) | `MarkedIsDelivered`, `RepeatNeedsReason` |
| `UsageAlertsProofs` | `UsageAlerts` | | theorems, section 5 |
| `UsageHistory` | | `history` (`UsageHistory.cfg`, `MCUsageHistory`) | `NeverTellsMore`, `TellsWhatWasSeen`, `RemovedAreGone` |
| `MobileSignIn` over `SignIn` | | `signin` (`MobileSignIn.cfg`) | `CodeRetriedUnanswered`, `SavedIsReported`, `SessionIsOwn`, `NoExchangeOnceEnded`, `NewerSignInIsKept`, `ServerStops`, `AppComesBack` |
| `MobileSignInProofs` | `MobileSignIn` | | theorems, section 5 |
| `LocalApi` | | `localapi` (`LocalApi.cfg`) | `NoLostWakeup`, `RateBound`, `StaysOn` |
| `LocalApiProofs` | `LocalApi`, `AppData` | | theorems, section 5 |
| `PairingSession` | | `pairing` (`PairingSession.cfg`) | `ComparedIsConfirmed`, `DismissedTransfersNothing`, `ActiveIsAlive`, `CancelledEnds` |
| `PairingSessionProofs` | `PairingSession`, `UsageHistory` | | theorems, section 5 |
| `PairingDialog` over `TransferImport` over `AccountLists` | | `transfer` (`PairingDialog.cfg`, `MCPairingDialog`) | `NoTwins`, `TransferArrives`, `ToldOnce`, `SignInsAreKept`, `ImportIsOfComparedFrames`, `VerificationEnds` |
| `PairingDialogProofs` | `PairingDialog` | | theorems, section 5 |

Compositions: `AppData` is everything on disk together, with the operations that run over
several stores; `PairingDialog` is the dialog, the air-gap commands behind it and the import;
`MobileSignIn` is the login table of `SignIn` with the phone's WebView, tab and watches,
and its initial state chooses the build, so that one run covers desktop, Android and iOS.
`AccountRefresh` contains what a refresh needs of the credential store (a stored
sign-in and one only the cache has), `CredentialStore` what that is made of.
`ProviderRefresh` is one refresh of `AccountRefresh` opened up: the requests it makes.

The abstract specification is `SecretRegister`: what every other module assumes of a
stored sign-in. `CredentialStore` is shown to implement it, by TLC on an instance and by
proof for every one.

A run's instance is small; a run takes from 20 seconds to 3 minutes with two workers. No
module declares a RECURSIVE operator, so all of them can be proved about.

A proof module extends the module it is about. Three extend a second one that shares no
name with the first: `RefreshSchedule`, `AppData` and `UsageHistory` therefore call their
initial states, steps and specifications `LoopInit`, `DataNext`, `HistorySpec` and so on. Such a
pair of components has nothing to do with each other in the proofs.

Every module keeps the names of the functions and fields it models; `PROJECT.json` maps
each definition to its lines. Operators whose names continue another's after an
underscore (`ForgetLock_InUse`) are mutants: a plausible bug in that piece of code. No
specification uses them; putting one in the place of its original makes the property it
is paired with fail.


## 3. What each module models

### 3.1 AccountRefresh

One refresh call (`refresh_account_with`) goes through `Join`/`Lead` (the in-flight map),
`AcquirePermit`, `AcquireLock`, the checks under the lock (`AccountMissing`,
`SignInUnusable`), `SpawnTask`, and then waits with a timeout. The spawned task has steps
of its own (`TaskExchange`, `TaskSaveRefreshed`, `TaskAnswer`, `TaskSave`, `TaskPanic`,
`TaskDropped`) and owns the lock guard and the sign-in; `StopWaiting` is the timeout, after
which the call goes on without the lock. `Finish`, `Release`, `Abandon` and `DropInFlight`
are the ways out. Removal, connection and editing (`StartOp` to the last step of each)
interleave with all of it and take the same lock. A sign-in is the number of its refresh token; renewing retires the
token presented and issues the next. What a refresh reads and writes of the sign-in is
what the store has (`disk`), what only the cache has because a write failed (`dirty`), and
what the cache takes for the store's although it is not (`old`). A deletion that fails may
forget what the cache has (`DeleteFails`, `store/credentials/mod.rs:336-345`), and a load
outside the lock, an export or a background run, may put an older sign-in into the cache
long after it read it (`RememberRead`, `cache.rs:45-56`).

The run `refresh` shows that the lock excludes although `ForgetLock` drops lock objects;
that no retired token is presented, and none is what remains; that a removed account
leaves no sign-in; and that every call returns, joined ones included. The code breaks the
second of these in just the two ways named, and may bring a deleted sign-in back into the
cache by the second way: the properties except the accounts they happened to (`mislaid`)
until a working sign-in of theirs is saved, or theirs is deleted. Section 6 lists both.

Bounds. Two calls make a leader and either a joiner or, once the leader gave up, a second
leader beside a task that lives on. One operation runs as a removal, a connection and an
edit in turn, any number of times. Two lock objects are enough for a dropped one and its
successor, as `LockInv` shows that nobody keeps a dropped one. Two tokens give one
rotation and one reconnection. Accounts share only the permits. All of these bounds are
removed by the theorems (section 5) for everything but the liveness property.

### 3.2 ProviderRefresh and ProviderWindows

What one refresh of `AccountRefresh` does inside its task, for the six providers: when the
access token is renewed (`RenewIssued`, `RenewRefused`), that the renewal is saved at once
(`SaveRenewed`), the calls with their order, repetitions and pages (`UsageWindows`,
`CallUsage`, `LoadCodeAssist`, `RetrieveSummary`, `FetchModels`, `ListModels`,
`ReadMonitoring`, `ReadDashboard`, `RecaptureCookies`, `ReadBilling`, `ReadProfile`), which
answer is
an authentication failure, a rate limit or transient (`ErrorOf`, `NeedsNewSignIn`), and
what the account becomes (`Settle`). `ProviderWindows` has the pure part: from the fields
of an answer to the windows shown, with their ids and kinds. The provider issues numbered
credentials, may accept a renewal and lose its answer, and may drop an access token early;
its user may revoke the sign-in or sign in again; the process may stop. What exactly an
account says is `ProviderWindows`' result; where it is malformed, the parser's error.

The run `providers` shows that an account is suspended only for a cause: its provider no
longer accepts what is stored, or it rejected a good credential in a way that provider's
code counts as final (`Excuses` lists them per provider, and is where a reader sees how
much the providers differ); and that between refreshes the disk holds the newest
credential unless an answer, a save or the process was lost between the provider's
rotation and the disk. OpenCode's causes are the widest: a dashboard page that was accepted
but reads like a login suspends, as does a malformed cookie or workspace id, which is never sent
(`ReadDashboard`, `opencode_go.rs:33-45,70,153-159`).

Bounds. Three credentials are an original and two rotations; two pages make a second
page and an empty one. A fault is an early death, a failed save or a crash, at every place;
two of them let an access token die early and then the one that replaced it, which is the
one way in which early deaths alone suspend an OAuth account (`with_fresh_secret` renews
once, `providers/mod.rs:206-214`).

### 3.3 RefreshSchedule

The loop of the process with a window (`LoopStarts` to `LoopWakes`), the backoff of each
account (`Fails`, `Forgets`, `FailureDelay`), and the background runs: Android's worker,
also without a window (`AndroidRuns`), and the task iOS starts, with its deadline
(`IosLaunches`, `IosExpires`, `RunEnds`). `Tick` passes time; `Sleeps` passes it on the
wall clock only; `ClockIsSetBack` moves the wall clock alone. A background run that is due
may be skipped, as its data or the sign-ins cannot be read (`RunBegins`), and iOS may
refuse the request for a run (`ScheduleNext`). A round goes to the accounts that are not
suspended and whose usage does not only list models (`Refreshable`). What a refresh does is left
to `AccountRefresh`: here it is answered (`Answered`) with success, failure or
suspension.

The run `schedule` shows that a due refresh is left waiting for at most one tick of awake
time ("short ticks bound that lateness"), however the machine sleeps and its clock moves,
and that, while the app is open, every account that stays and is refreshable is tried
again and again. Of an app without a window nothing is claimed: whether a phone starts a
run is up to the phone.

Bounds. Times are relative and saturate where no guard tells them apart, so no run is cut
off. One account: accounts share the round, and a round ends when all have answered. Two
intervals allow a change of setting in either direction. The units are small multiples of
one tick, with a Retry-After hint longer than the longest backoff. Kills and steps of the
clock are not bounded.

### 3.4 CredentialStore and SecretRegister

`CredentialStore` is one account's sign-in on Windows and Linux: the manifest entry, the
chunk generations, the cache and its unwritten value (`dirty`), and the entry of an
older service. A save reads the manifest, deletes what the previous one names, writes
chunks, commits the manifest, deletes the old chunks and cleans up; a load reads manifest
and chunks or takes over the older entry; a deletion goes over all of them. Every keyring
call may fail, and `Crash` may happen between any two.

`SecretRegister` is what the rest of the application may assume: one value that a save
replaces at some moment, or not at all. `IsRegister` is the refinement, with the mapping
`stored <- Durable`, where `Durable` is what a load after a restart would return. It
covers that the manifest never names missing chunks, and that what an operation returned
is what a restart finds. `NoOrphanChunks` adds that nothing is left behind, also where the
deletion of a replaced generation fails: it stays named until it is gone. It claims
nothing once the process stopped within an operation, or the deletion of a generation that no
manifest names failed; nobody finds those chunks again.

Bounds. Three generations are the active, the previous and the one being written. Two
chunks make a half-written generation possible. One reader beside the owner: readers only
read, or migrate. `MigratesLocked = TRUE` leaves out the race of an unlocked migration
with a save, which breaks the refinement and can happen only once per account, at its
first load after an upgrade.

### 3.5 AccountLists, AccountStore and AppData

`AccountLists` is what stores and transfers share: when two accounts are the same
person's, which account a sign-in updates, and how an order is applied (`Sublist` picks the
elements of a list at some of its places). `AccountStore` is
`accounts.json` with its backup, recovery at start, and the deleted-accounts list
(tombstones). A write ends in the new file, the old file and an error, or the new file
and an error (`late`: the permissions could not be hardened after the rename).

`AppData` is everything on disk about accounts together: sign-ins, accounts, order,
groups, alerts, history. Its tasks run the asynchronous commands (connecting, refreshing,
removing, Delete all) and its page the synchronous ones (dashboard, drag, groups, alert
edits); a removal goes through the stores in the order of `state.rs`, and a Delete all is
removals followed by what belongs to no account (`deleteRest`). Files that are missing or cannot be
parsed are told from any list of accounts (`FilesAssumption`), and the earlier run left a list
of accounts (`InitAssumption`). `Stop`, `Reinstall` and
`Start` are a crash, an installation that left the credentials of an older one behind, and
the start with its recovery and its purge of such credentials.

The run `appdata` shows that a restart loads what was shown; that a sign-in adds a second
account for a person only if the list changed since its look-up; that the purge never
deletes the sign-in of an account the start then loads; and that a removal or a Delete all
that reported success and overlapped nothing leaves nothing in any store or file, but in
`accounts.json.bak`: that is the previous version of the list, and has a removed account
until the list changes again (`store/accounts.rs:465-473`, section 6). `appdata_retried` is the
disagreement of section 6.

Bounds. Two ids are a person's account and a second one; two e-mails behind one provider
id make two people whose identities partly agree. Two workers and the page give every
pair of operations. Three operations, one fault and one tombstone (so that the
list overflows) are where the interesting histories are: a deletion that fails, is retried,
and meets a third operation.

### 3.6 UsageAlerts

One alert over the windows of its kind: `NewReading` is a refresh's answer,
`RefreshEvaluates` and `SaveEvaluates` the two places that evaluate, `Evaluate` what becomes
low, is announced, remembered or forgotten again, `Emits`/`EmitEnds` and
`WorkerTakes`/`WorkerPosts` the ways to the user on a desktop and on phones,
`SaveBegins` to `SaveWrites` the save command with its read-modify-write. A period is
recognised by the text of its reset time, which an answer may make the app compute anew
or may not have at all. An evaluation judges the windows one by one, in the order of the
answer: a mark of an older version, which names no window, is shared by all that begin a
period together, and once one of them has forgotten it, it no longer counts for the rest
(`DueLater`).

The run `alerts` shows that what is marked as announced was delivered, is on its way, or
was lost in a way the code accepts; and that the same alert is told again only for a
reason: the present reading had more left in between (an older reading that a save
evaluates is no reason), or the user changed the alert. The code has one exception, which the
property makes: a save that a refresh overtook takes off the marks of that refresh
(`overtaken`), since it evaluates the reading of its start (`commands/alerts.rs:85-108`) and
writes back the marks it had read (`store/alerts.rs:131`).

Bounds. Two windows with given reset times, so that they can share an older version's
mark and forget it for each other; reset times that are computed or missing are covered
by the theorems, which hold for every number of windows and each kind. Two levels and thresholds
put every reading above, at or
below. Two readings, two saves and one fault are an announcement, what invalidates it, and
what interferes. A queue of one is full at once. Nothing tells the two windows apart, so
they are symmetric.

### 3.7 UsageHistory

A refresh shows where an account's weekly limit is by then (`Refresh`: the true use, as
its provider rounds, jitters or delays it); `Record` is the store's side with its heartbeat
and thinning (`ShouldWrite`), `Marked` its files by month; `RemoveAccount`, `Clear` and
`Restart` with `Expired` months and a size cap are the rest of the store.
`StartsNewPeriod`, `PeriodStart`, `Counted`, `Parts` and `UsedPercent` are the report.
What the refreshes have shown is kept beside it (`seen`), so that the report is compared
with what it should say.

The run `history` shows that the report never tells of more use than the refreshes have
shown; that it tells all of it, up to what thinning leaves out, where no reading was lost
and every reset shows; and that a removal that reported success, at the first try or a
later one, leaves no reading. That has one exception in the code, and in the property: a month
in memory that an earlier try edited and could not write is not marked, so that the next
try takes it for done (`missed`, `history/store.rs:326`).

Bounds. One account that is used and names its reset time, one that does not and stays
used up. A removal may be tried again any number of times. Three moments, of which two
make a day and one a month, and windows of three: a reading before, at and after a reset, a day and a month boundary. Levels 0, 1 and 3 are
told apart by the thinning step 1 and the reset drop 2. One edit and one mishap (a failed
write, a crash, a wrong clock).

### 3.8 SignIn and MobileSignIn

`SignIn` has the one pending login of the application with its status, and for each attempt
its start command, callback server, timeout, window by label (with its close and Back handlers), and
background work: the callback, the exchange, the status poll that retries a queued code,
the AI Studio grant and project selection, the cookie capture, save and first refresh.
`IfWaiting` is the compare-and-set of `state.rs`: it changes the status only of the attempt
it names and only while that one waits. `FinishCode` is the finish of a browser sign-in,
which may also turn a cancelled attempt into a connected one; `FinishCookie` is not. What the
code has one function per provider for is an operator each: how an attempt listens
(`ListenOAuth`, `ListenStudio`) or opens its window (`OpenGrok`, `OpenOpenCode`), how a captured session is
saved (`SaveSession` with `PersistGrok`, `PersistOpenCode`), and the projects of AI Studio
(`ChooseProject`, `ProjectFails`).

`MobileSignIn` adds the phone: the one WebView (`page`), its cookies, Android's browser tab
(`tab`), and the watch each attempt has over them (`SeesPage`, `EndPoll`, `ShowResult`,
`HoldEnds`, `Abandon`, `TabReturns`, ...). The watch may take the callback before the server
does (`Intercept`). `GoBack`, `UserReturns` and `UserClosesTab` are the user.
`BuildInit` chooses a desktop or a phone build; the desktop part of `Next` is `SignIn`'s.

An exchange tries a code up to five times while the provider is unreachable. A late or
lost answer counts as that (`exchange.rs:63-78`) and may hide that the provider took the code
(`MaySpend`).

The run `signin` shows that no two requests present a code at a time and none presents it
again once one was answered (after a lost answer the code itself presents it again,
section 6; AI Studio's callback, which claims no code, is not covered), that no exchange
starts for an attempt that ended, a browser sign-in that saved its account is never reported failed, the
callback server stops with its attempt, a newer sign-in keeps the WebView or tab it
opened, a captured session is the user's own, and the app's page always comes back.

Bounds. Two attempts are one and its successor, of any two kinds. Two background tasks
are a callback and a poll, or two callbacks. On phones, one callback request per tab; the
look at a result page and the navigation that follows are one step; the system's back
button is a return to the app (the WebView's history is not modelled).

### 3.9 LocalApi

`run_controller` with the `Notify` of the setting, and the token bucket of
`rate_limited_at`. `Check`, `Bind`, `Wait`, `Wake`, `RetryBind`, `Watch`, `Drained`,
`ServerFails` and `SleptOver` are the pieces between its awaits. Commands change the
setting at any time. A request reads the clock (`Arrive`) before it takes the lock on the
buckets (`Charge`). Buckets hold whole ticks, one refilled per tick; the code has
floating-point tokens at one per second.

The run `localapi` shows that no click is lost between the controller's check and its wait;
that it keeps coming up while the setting stays on and the port is free; and that a lane
is let through no more than a burst and what was refilled.

Bounds. Two requests can overtake each other. A request costs one tick and a bucket
holds two, so a lane can burst, run dry, refill in part and in full; an entry is forgotten
after two ticks, which is when it is full, and the clock takes two. The theorems cover all
other values.

### 3.10 PairingSession

The manager of one device (`PairingSessionManager`), every command of
`commands/pairing.rs`, and each run: one spawned session task with its event handler. The
other device is the environment: it connects, picks a role, confirms, sends or leaves at
any time. The answer channels are one-shot; a run keeps the receiving end, while the
sending end moves from the task to the slot of the active session and to the command that
answers. A host and a client are installed by commands of their own (`InstallHost`,
`InstallClient`). `ClearActive` is the end of an event handler, with the release of the network.

The run `pairing` shows that only the code that was compared is confirmed, even by a
click that arrives late; that a session that was cancelled or replaced before its
confirmation transfers nothing; that a session that ended does not stay active; and that
a cancelled task ends, but for one wait: a peer that confirmed and then reads nothing keeps the
sender's task in the write of the payload, which has no timeout (`"write"`, `transport.rs:962`).

Bounds. Two runs are one session and its replacement. Two calls are a start and what
races with it. `Capacity` is 1 so that the event channel fills up; the code has 16
and a run sends fewer. `LinksAssumption` says that the id in a link somebody else made is
none of this device's own: both are random (`Uuid::new_v4`). `Rescans = FALSE` excludes the same
link followed twice, which
section 6 is about. The run does not check deadlock: when all runs and calls of the
instance are used up, the model stops.

### 3.11 TransferImport and PairingDialog

`TransferImport` is what an export contains and each step of an import, with every save
that may fail: account by account (`LookUp`, `Persist`, `SkipAccount`), then groups
(`MapGroup`, `SaveGroup`), settings, order (`MapOrder`, `SaveOrder`), alerts (`CheckAlert`,
`SaveAlert`) and the page's layout (`EmitLayout`), each through the map from the sender's
ids to this device's. `LocalLookUp`, `LocalSignIn`, `LocalRemove` and `DeleteGroup` are the
user of this device meanwhile; a sign-in asks which account it updates before it waits for the
account's lock, so that the import and a removal may come in between. `MapOrder` includes that
`AccountOrderStore::apply` saves the order it puts right, and keeps it when that fails.

`PairingDialog` is the page: the views and every way between them, the capture of frames
(`ReadFrame`: a frame of another transfer starts over), the comparison, the import behind
`Confirm`, and the calls under way. A call answers whenever it likes. Those with a ticket
(`useLatestRequest`) are ignored when stale (`Stale`); the verification, the poll, the
Wi-Fi check and the camera permission have none. The session of `PairingSession` is reduced to the
status the poll reads.

The run `transfer` shows that no person becomes two accounts; that an import that saved
everything brought everything; that completion is told once and only when it was; that a
sign-in made on this device is never replaced, but where it brought back an account that was
removed while it waited (`revived`); that whatever save fails, groups, order, alerts and layout are
about accounts that are here; that what is imported is what the compared
code was computed from; and that a complete capture always gets its code or is scanned
again.

Bounds. Two transfers: one of two frames, with groups, order, alerts and layout; one of one
frame with the same person under two ids, one of them unreadable and one that cannot name
a file (`Unfit`). An id made here is any of `Fresh` that is not in use. `SentAssumption` says
that what another device made is none of those, as ids are random (`Uuid::new_v4`), and that
a sender holds an account or a group once; `ReceiversAssumption` that this device has nobody
twice at first. That the members of one group stop at the cap on accounts is left out.
`MaxTurns = 2` bounds what goes wrong or out of turn: damaged frames, failed
saves, local changes, and steps of the user before what was asked for has answered.

## 4. Fairness

Liveness is checked under fairness of the code that can run and of nothing else,
unless said here. No user, peer, provider page or other program is fair.

| Module | Assumed | Because |
|---|---|---|
| `AccountRefresh` | WF of a call's own steps, of its task and of operations; SF of `AcquirePermit`, `AcquireLock`, `OpLock` | every provider request has an HTTP timeout, so a task ends; tokio's semaphore and mutex serve waiters in order, so one that keeps becoming free is got |
| `RefreshSchedule` | WF of the loop's and the run's steps and of the answer to each refresh; SF of `Tick` | refreshes return (`EveryCallReturns`); time passes whenever the machine is awake again and again; nothing is asked of a phone's scheduler |
| `PairingSession` | WF of commands, tasks and handlers; SF of `HostExpires`; none of the write of the payload | every other wait on the peer has a timeout; the listening deadline is absolute, so it passes however often a peer connects and leaves |
| `PairingDialog` | WF of `VerifyAnswered` | the command computes over what it was given and always answers |
| `MobileSignIn` | WF of every attempt's timers and of its watch | a timer that was set goes off; a watch polls and sleeps; neither the user nor the provider has to do anything |
| `LocalApi` | WF of the controller and of the requests under way | the controller is one spawned task; its sleeps end; a request only takes a short lock |

The other modules have no liveness property: their operations are straight-line code, and
what could be waited for in them (locks, answers) is in the modules above.

## 5. What is proved

TLAPS checks these for every value of the constants that the modules' assumptions admit:
any number of accounts, calls, operations, lock objects, permits, tokens and requests, any
burst, any files an earlier run left.

`AccountRefreshProofs` (assumes `ProcsAssumption`, `BoundsAssumption`):

* `TypeCorrect`: `Spec => []TypeOK`.
* `LocksAgree`: `Spec => []LockInv`. `LockInv` is inductive together with `TypeOK`. It says
  where each call and operation holds an `Arc` of a lock object, that an `Arc` is always
  of the object the map holds for that account, and that whoever is past the wait owns its
  guard. Each action of `Next` has its step; what
  dropping a guard does to the locks, and that the end of a task keeps the invariant, are
  lemmas (`DropGuardLocal`, `TaskEndKeepsLocks`).
* `MutualExclusion`: `Spec => []OneHolder`. It follows from `LockInv`: two holders of one
  account have `Arc`s of the one mapped object, which has one owner. `OneHolder` alone is
  not inductive: without `RefsAreMapped`, two objects for one account would exclude
  nobody.
* `PermitsAreConserved`: `Spec => []PermitsConserved`, by the cardinality of the set of
  calls that hold a permit.
* `SecretsAreSound`: `Spec => []SecretInv`. `SecretInv` is inductive relative to `TypeOK`
  and `LockInv`. Its parts: whatever is stored, cached or carried was issued
  (`TokensAreIssued`); a task carries a token that works (`TasksCarry`), an editing
  operation too (`OpsCarry`); the token of a connection that is not yet saved is known to
  nobody else (`PendingIsNew`); and what is saved works, unless somebody has renewed it and
  not yet saved that (`RenewalUnsaved`), and belongs to a known account unless a connection has yet
  to record it (`UpsertDue`) (`SavedIsSound`). `mislaid` accounts are left out of the last two, and a cached
  sign-in that is not the store's is theirs (`CacheIsCurrent`). The exceptions are why the properties alone are
  not inductive: in the middle of a renewal the saved token is a retired one, and what
  makes that harmless is that the one who renewed it is alone with it. The lemma
  `InsideAlone` says so: a task lives only while it holds the lock, which `LockInv` gives.
  So each step that reads a saved sign-in finds one that works (`FoundWorks`), and each
  step that lets go of the lock has saved first.
* `RetiredIsNotPresented`, `SavedWorks` and `RemovedLeavesNoSecret` are
  `NoRetiredTokenPresented`, `SavedTokenUsable` and `NoOrphanSecret` for every instance, each but
  for accounts whose sign-in the code mislaid (section 3.1).

`ProviderRefreshProofs` (assumes `ProviderAssumption`), for every provider, any number of
credentials, pages and accidents:

* `TypeCorrect`: `Spec => []TypeOK`, all but `parsed`, whose shapes `ProviderWindows` gives.
* `RefreshIsSound`: `Spec => []RefreshInv`, inductive with `TypeOK`. Its parts: each step belongs
  to its kind of provider (`StepsFit`); the refresh number a refresh works with is the one on
  disk, except between a renewal and its save or when that save has failed
  (`SecretIsStored`), and is the one the provider accepts (`SecretIsNewest`); an access token
  that the provider does not accept is about to be renewed, was revoked or died early, and
  one that was renewed after a rejection can only have died early again
  (`DeathsAreKnown`); and a suspension, or a rejection on its way to one, has a cause that
  lasts (`RejectionsHaveCause`).
* `SuspensionsHaveCause` and `StoredStaysNewest` are `SuspensionHasCause` and `StoredIsNewest` for
  every instance. Neither is inductive: the first says nothing of an access token, and a
  cause must outlive a renewal that makes the stored number the accepted one again; the second
  speaks only of the time between refreshes. `RejectionStands` is the lemma for all requests:
  a rejection that stands, at whichever provider, after a renewal or without one, has a
  cause. `CallKeeps` says what all requests leave alone.

Of `RefreshSchedule` (assumes `ScheduleAssumption`), in the same module:

* `DueRefreshIsSoonStarted`: `LoopSpec => []DueRefreshWaitsOneTick`, for any accounts,
  intervals, back-off, hints, time-outs and number of kills and steps of the clock. The
  property is not inductive, as it does not say how long the loop has slept. `LoopInv` does: a
  due refresh has waited no longer than the loop's present sleep, and no sleep outlasts a
  tick (`SleepBoundsLateness`, one step for each action).

`LocalApiProofs` (assumes `CostAssumption`, `FullAssumption`, `TTLAssumption`,
`MaxTimeAssumption`; of these `Full <= TTL` carries weight: a bucket may be forgotten only
when it would be full again, 10 requests at one per second against 60 seconds):

* `TypeCorrect`: `Spec => []TypeOK`.
* `WakeupsAreKept`: `Spec => []NoLostWakeup`, inductive with `TypeOK`.
* `RateIsBounded`: `Spec => []RateBound`. The bound is not inductive: it says nothing of
  what the bucket still holds. `Budget` does: what was let through plus what is left is
  at most the burst plus the time up to the bucket's clock. `PruningIsFree` shows that
  forgetting a bucket keeps it, `RefillingIsPaid` that a refill does.

Of `AppData` (assumes `AccountListsAssumption`, `AccountStoreAssumption`, `FilesAssumption`,
`AppDataAssumption`, `InitAssumption`), in the same module, for any people, ids, workers, groups, faults and
operations:

* `AccountsAreSound`: `DataSpec => [](FilesInv /\ LookUpInv)`, inductive together. `FilesInv` says
  that the list in memory and both files hold accounts or are missing or broken, that a
  running app's file can be read, and `ReloadKeepsAccounts`. `LookUpInv` says of a sign-in
  between its look-up and its write that its account is in the list it read, or that nobody
  there has its identity. Each action is a change of the list and its file together, or
  leaves both alone (`Untouched`, `SameFiles`), and is a step of one process (`Apart`,
  `ApartKeepsLookUps`).
* `RestartLoadsWhatIsShown`: `DataSpec => []ReloadKeepsAccounts`, through every failed write,
  rollback, crash, recovery from the backup and reinstallation.
* `TwinsNeedARace`: `DataSpec => TwinNeedsRace`. The write of a sign-in does not look again; what
  it adds was absent from the list it read, which is `LookUpInv`.
* `PurgeSparesLoadedAccounts`: `DataSpec => PurgeSparesAccounts`. A purge takes neither file to
  be there; then the start loads nobody.
* `RemovalsForget`: `DataSpec => RemovalForgets`, over five stores, their files but
  `accounts.json.bak`, and every step of a removal. The invariant it needs, `DeletionInv`, says
  what is true between two steps.
  `RunsInv`: nothing runs while the app is down, what runs alone runs alone, and each step
  belongs to the operations that have it (`KindFits`). `OrderInv` and `GroupsInv`: file and
  memory agree unless somebody is still to copy and save, and what a save will write is what
  memory holds, as long as none failed or copied during another. `StoresInv`: the two stores
  written under their lock agree. `RemovedInv`: a removal that runs alone has, at each of its
  places, forgotten its accounts in every store behind that place, and a Delete all still has
  every account there is on its list or in hand; that is why its end, which forgets what is
  about no account, finds no account left. Every step is a `Move` of one process, which leaves
  the locals of the others alone (`Own`); what it does to a store that it does not write is
  one lemma (`Elsewhere`), what it does to one that it writes another (`OrderMoves`,
  `StoreMoves`). Then only the successful last step leaves a removal without a fault (`LastStep`).

That a filtered list holds accounts again is `SublistElements`: what the recursive function inside
`Sublist` gives at every place, by the least counterexample (`LeastNumber`).

`CredentialStoreProofs` (assumes `NoneAssumption`, `ChunkAssumption`, `VersionAssumption`;
all but the first theorem for the instances in which no reader takes an old entry over
without the lock, `~OldService \/ MigratesLocked`; section 3.4 has what that race is):

* `TypeCorrect`: `Spec => []TypeOK`. Reading the generation a manifest names is typed only
  because a manifest that is there names one (`NamesAreReal`), so the two are inductive
  together.
* `KeyringIsSound`: `Spec => []KeyringInv`. Its parts: a save has a generation of its own,
  writes its chunks from the first on, and commits only when all are there, to the manifest
  it read (`SaveFits`); the manifest names two generations that were written, and one that
  was not written has no chunk (`GenerationsFit`); readers never write (`ReadersOnlyRead`);
  and where the chunks are until one may be lost sight of (`NothingIsLeft`). One step per action
  of the owner (`PersistStep`, `OwnerStep`); the readers are out of its way
  (`ReadersSpare`).
* `NothingIsOrphaned`: `Spec => []NoOrphanChunks`. It is not inductive: the chunks a save
  deletes at its end are still named by the manifest it read, and only because that is
  the current one.
* `StoreIsRegister`: `Spec => IsRegister`, the refinement of `SecretRegister`.
  `RegisterStep` are the register's steps in the store's terms; `StepIsRegisterStep` takes each
  action of the store to one of them, `RegisterSteps` those to the register. The step
  that matters is the commit: it makes the new generation readable at once because
  `SaveFits` has all of its chunks written, and whatever is deleted before and after
  belongs to another generation (`ChunksApart`, `DeletesOwn`).

`PairingSessionProofs` (assumes `CapacityAssumption`, `NoneAssumption`, `LinksAssumption`):

* `TypeCorrect`: `Spec => []TypeOK`, with the capacity of every event channel.
* `ActiveStaysAlive`: `Spec => []ActiveIsAlive`, with or without links followed twice.
* `SessionsAreSound`: `Spec => []SessionInv` if no link is followed twice (`~Rescans`; for what
  happens otherwise see section 6). Its parts: a run's session id is its own (`IdsAreOwn`) and
  a start that has not spawned its run yet has one nobody has (`StartsAreNew`); the
  confirmation slot holds only the active session's sender (`SlotIsOwn`); a click carries
  the id of the run whose code was on screen, and the sender it takes is that run's
  (`ClicksAreOwn`); a task confirms, sends or imports only after a yes (`AnswersFit`); and
  a dismissed run is never active again and its sender is gone (`DismissedStayOut`).
* `ComparedStaysConfirmed` and `DismissedIsHarmless` are `ComparedIsConfirmed` and
  `DismissedTransfersNothing` for every instance with `~Rescans`. Neither is inductive: both rest
  on whose sender is in the slot, across every order of a click, a cancellation, a
  replacement and the late end of a handler.

Of `UsageHistory` (assumes `HistoryAssumption`), in the same module, for any accounts, lengths of
days and months, limits and mishaps:

* `RemovedReadingsAreGone`: `HistorySpec => []RemovedAreGone`. It is not inductive: a month that
  memory holds is written back as it is there, and one it does not hold is read from its
  file. `HistoryInv` relates the two: a month not held is empty in memory; the file of one that is held
  and not dirty has nothing that memory lacks, except what a failed removal edited in memory
  only (`missed`); and who is gone has no removal left to repeat (`halfway`). `RemovalKeepsHistory` and
  `RecordKeepsHistory` are the steps that matter, `LastMonth` says that a removal no write stops goes through
  every month.

`MobileSignInProofs` (assumes `NumbersAssumption`, `KindsAssumption`, `NoneAssumption`), of
`BuildSpec`, so of the desktop's sign-ins and of a phone's:

* `TypeCorrect`: `BuildSpec => []MobileTypeOK`.
* `SignInsAreSound`: `BuildSpec => []SignInInv`, inductive with the types. The part of the
  login table (`LoginInv`) says what an attempt has begun (`AttemptsBegan`), that a callback
  server and a window are those of their kind of attempt (`ServersFit`), which work runs for
  which kind (`WorkFits`), that a claimed code is in the hands of one request or put aside,
  and has no server once a poll takes it (`CodesAreSingle`), and that a saved account which
  is not reported yet has a request that will report it (`SavedShows`). The part of a phone
  says that the page in the WebView belongs to the attempt in the table (`PagesAreOwn`),
  that a desktop has none (`BuildFits`), and that the cookies a waiting attempt reads are
  its own (`JarIsOwn`). `LoginTypes`, `AttemptsStep`, `ServersStep`, `WorkStep`, `CodesStep`
  and `SavedStep` have a step for each action of the table, `PhoneTypes` to `PhoneSession`
  one for each of a phone's; `OpeningKeepsLogin`, `GivingUpKeepsLogin` and
  `BeginningKeepsLogin` are the three ways in which a phone moves the table.
* `CodesAreRetriedUnanswered`, `SavedAreReported`, `SessionsAreOwn`: `CodeRetriedUnanswered`,
  `SavedIsReported` and `SessionIsOwn`. None is inductive: a code that was put aside without
  an answer is presented again later, and only `CodesAreSingle` says that nobody else has it
  by then;
  who reads the cookies never looks whose they are.
* `EndedStopsServer`, `EndedIsNotExchanged`, `LateWatchIsHarmless`: the action properties
  `ServerStops`, `NoExchangeOnceEnded` and `NewerSignInIsKept`. The first needs the
  invariant: a request that a poll made, or a cookie window's timeout that finds another
  attempt's window at its label, ends an attempt without stopping a server, and what saves
  it is that such an attempt has none (`EndStopsServer`).

`UsageAlertsProofs` (assumes `AlertsAssumption`), for every number of windows and every kind of
reset time:

* `TypeCorrect`: `Spec => []TypeOK`.
* `AlertsAreSound`: `Spec => []AlertInv`, inductive with `TypeOK`. Its parts: every mark in
  memory, on disk or in the hands of a save is of an alert that is accounted for
  (`MarksAreAccounted`); an alert that was told, and that nothing has yet made right to
  tell again, is marked both in memory and on disk, unless a save that was overtaken took
  its mark off (`ToldIsMarked`); only who shows
  notifications has some (`BatchFits`).
* `MarkedAreDelivered` and `RepeatsHaveReasons` are `MarkedIsDelivered` and `RepeatNeedsReason`
  for every instance. The first is not inductive: a crash brings back the marks of the disk,
  and a save writes those it read before somebody else's evaluation. The second says
  nothing of why no alert is told again; `ToldIsMarked` does, and it has to hold of the
  disk too. `MarksFit` is the lemma about one evaluation that both need: what it marks was
  not marked, and what it forgets of the alerts told are those whose window has more left.

`PairingDialogProofs` (assumes `AccountListsAssumption`, `TransferImportAssumption`,
`SentAssumption`, `ReceiversAssumption`, `PairingDialogAssumption`), for any number of
transfers, frames, accounts, groups, failures and changes meanwhile:

* `TypeCorrect`: `Spec => []TypeOK`, of the dialog and its capture.
* `DialogIsSound`: `Spec => [](CallInv /\ CaptureInv /\ TellInv)`, inductive with `TypeOK`.
  `CallInv` says that at most one call is current, and an import only in its view;
  `CaptureInv` that a code on screen is that of the frames held, and that a complete capture
  is being compared or was imported; `TellInv` that what was told is still shown and nothing
  that could tell it again is under way. The last two hold until an answer without a ticket
  comes to a dialog that has moved on (`late`), which the code lets through and section 6 lists.
* `ComparedIsImported` and `ToldJustOnce` are `ImportIsOfComparedFrames` and `ToldOnce` for every
  instance. Neither is inductive: what is imported is whatever the frames are when the user
  confirms, and only `CaptureInv` says that they are still those of the code.
* `AccountsAreSound`: `Spec => []AccountsInv`, inductive by itself. Its core is the gap
  between asking whether an account is here and saving it: nobody has its id by then whatever
  happened, unless a sign-in brought it back (`revived`), as ids are never shared; nobody is its
  person unless the device changed meanwhile.
  `NobodyIsTwice` (`NoTwins`) and `OwnSignInsStay` (`SignInsAreKept`) follow from the two halves.
  The lemma `DuplicateIsListed` is about the search for an account of the same person; that a
  first match exists needs `LeastNumber`, from the library's well-foundedness of the numbers.
* `ImportIsSound`: `Spec => [](MapsInv /\ ArrivedAccountsInv /\ ArrivedGroupsInv /\
  ArrivedAlertsInv)`, inductive with `AccountsInv`. The first `n - 1` items of the list an import
  goes through have arrived, those of the lists before it all have, and a later step undoes
  none of it (`ArrivedAccountStays`, `ArrivedGroupStays`). Sent ids map to accounts
  that are here (`MapsInv`), which is why an alert is skipped only for an account that did not
  come; the group about to be saved is still what was worked out from the groups here.
* `AllThatWasSentArrives`: `Spec => []ContentsArrive`, which is `TransferArrives` but for the order.

Only model-checked:

* everything under fairness (liveness is out of the prover's reach);
* what folds and `SelectSeq` compute: that the imported order is the sender's
  (`TransferArrives`), and `NeverTellsMore` and `TellsWhatWasSeen` of `UsageHistory`. Their library definitions
  take an operator as a parameter, which the provers cannot unfold. Induction over the places of
  a list is in reach where the recursion is a function of the module's own, as
  `SublistElements` shows.

## 6. Where code and documentation disagree

One disagreement has a run, `appdata_retried`, that is expected to be violated; its trace
is the demonstration. `state.rs:438-441` says that a Delete all that fails part-way "can
simply be tried again". The order, group and alert stores change memory before they
write, and skip the write when memory is already empty
(`store/buckets.rs:180-206`, `store/account_order.rs:104-124`, `store/alerts.rs:284-300`). So the
retry reports success and leaves the file, which the next start loads.

Others were met on the way. They are visible in the modules' actions, or in code next to
what is modelled, and are listed for whoever maintains the code.

Accounts and refreshes.

* `providers/anthropic.rs:148`: an auth failure "suspends the account until the user signs in
  again"; but a manual refresh that fails for another reason clears `auth_required`
  (`usage.rs:510`).
* `providers/mod.rs:216-219` says that Anthropic's edge answers 403 for bot challenges, so
  that a 403 must not suspend; but at the token endpoint a 403 suspends for every OAuth
  provider (`providers/oauth_refresh.rs:112`). A server fault (5xx) whose body says
  `invalid_grant` suspends for all but OpenAI.
* `state.rs:133` caps simultaneous provider calls, but tasks that outlive their wait are not
  counted (`usage.rs:79`).
* A failure recorded without the lock after a removal leaves a backoff entry
  (`usage.rs:480`). A failed manual refresh overwrites a longer Retry-After; all
  backoff is lost at a restart.
* `wakeup_refresh` is lost when the loop is in a round, as nobody waits on its `Notify` then
  and it stores no permit (`state.rs:228`; `request_refresh_check` is remembered).
* `store/credentials/cache.rs:46-47`: a clean read "must never overwrite a newer secret"; but the
  check and the insertion are two critical sections, and exports and background runs load
  without the account's lock. `store/credentials/mod.rs:70-72`: after a failed save "later
  loads still return this secret"; but a removal whose deletion fails forgets it
  (`mod.rs:343-345`) and leaves the account. Either way the next refresh may present a retired
  token. Section 3.1 has the exceptions this makes.
* `CHANGELOG.md:169` and `docs/THREAT_MODEL.md:132`: every account is removed; but
  `accounts.json.bak` still has the list of before the last removal
  (`store/accounts.rs:465-473`), and a start that cannot read `accounts.json` recovers it.
* `providers/opencode_go.rs:70,153-159`: a page the server accepted suspends the account when
  its text has a login's words.
* `CHANGELOG.md:1345`: a removal fails if the saved credentials cannot be deleted; but the
  entry that names the chunks is deleted even when one of them could not be
  (`store/credentials/mod.rs:305`), so the retry reports success.
* `CHANGELOG.md:979` says that accounts with different e-mails are never merged. When a Grok
  sign-in matches neither the account to reconnect nor an identity, it falls back to any
  account with the typed label (`auth/grok_login.rs:143`). As the page passes the account's
  own label with a reconnection (`src/app/App.tsx:115`), signing in as another person
  overwrites the account it should have been told apart from (`store/accounts.rs:323-325`).
* AI Studio's identity changes from a fingerprint of the key to the project with the first
  refresh, so adding the same key again makes a second account. OpenAI's window ids
  depend on `limit_window_seconds`, which its answers may leave out.
* Alerts: `commands/alerts.rs:85-108` evaluates the reading of its start, and
  `store/alerts.rs:131` writes back marks it read earlier; a refresh in between loses its
  mark, and its alert is told twice.
* History: a pair of readings more than three hours apart is told as measured when a period
  began between them (`history/activity.rs:113`). A removal that is tried again after a failed
  one reports success with readings left on disk. A month made current by a wrong clock
  refuses the right month's readings until a restart.

Sign-in.

* `auth/oauth/exchange.rs:6-7`: when the provider "did not answer in time" the "same code is
  still good"; but the provider may have taken it, and then refuses it at the next try, which
  ends the sign-in (`exchange.rs:63-80,116-133`; `CHANGELOG.md:913`).
* `CHANGELOG.md:504`: a sign-in that finishes as it is cancelled is not reported as failed
  though the account was added; but cookie sign-ins finish only if they still wait, seconds
  after the save (`auth/grok_login.rs:611`). A first refresh that fails makes a saved OpenCode
  account report failure (`auth/opencode_login.rs:391`).
* `CHANGELOG.md:913`: the callback server stops as soon as an attempt ends; but not when the
  phone's WebView cannot load the sign-in page (`auth/mobile_auth.rs:370-376`), nor when a
  cancel comes before the shutdown sender is registered (`auth/oauth/mod.rs:112`).
* A due timeout closes the window that now has its label (`auth/login_window.rs:206`). A code
  queued just after a cancel stays in memory until the next poll
  (`auth/oauth/callback_server.rs:116`). Saving the selected project uses `blocking_lock`
  in async code, which panics (`auth/google_ai_studio_oauth.rs:498`), and early returns there
  leave the attempt waiting.
* Phones: a Grok probe of an earlier attempt sends the shared WebView to grok.com even if it
  now shows a newer attempt's page (`auth/grok_login.rs:518-526`). A watch that ends
  closes every iOS popup, a newer sign-in's too (`auth/mobile_auth.rs:472-474`). When the
  watch takes the callback before the server does, the page stays at "Finishing sign-in".
  A return to the app's page between two polls is not noticed. Returning during an
  exchange abandons the attempt although its account may still be saved. When clearing
  the cookies fails, a session of before may be captured; `SessionIsOwn` excepts that.

Local API.

* `README.md:74` and `README.md:155` promise one request per second; the bucket lets ten
  through at once (`bridge_api.rs:33-37`). A request that overtook another between clock
  and lock sets the bucket's clock back, so that time is refilled twice; `RateBound` is
  stated net of it. The command that switches the API off reports it stopped although the
  controller may be about to bind (`commands/bridge.rs:106`); it then goes down by itself.

Device transfer.

* `pairing/mod.rs:109`: confirming "freezes the choice, so a later write cannot change what that
  transfer sends"; but a cancellation or a new start resets the one shared snapshot while
  the confirmed task still waits to transfer.
* `pairing/mod.rs:357`: a start that a cancel superseded never hands out its code; but
  `cancel` leaves the epoch alone.
* A run that followed the same link twice offers its channel to its successor, which has the
  same id (`pairing/mod.rs:281-286`). The end of an older session releases the network binding
  of the
  one that started since (`pairing/mod.rs:479`); a code that is not found leaves the binding
  with no session (`commands/pairing.rs:65`, against `docs/THREAT_MODEL.md:276`).
* The payload is written without a timeout and deaf to a cancellation (`pairing/transport.rs:962`,
  `protocol.rs:301-337`), unlike every other wait on the peer. The sender waits 30 seconds for
  the acknowledgement; an import that takes longer shows as
  failed there and as completed here.
* Dialog: closing it while a verification is under way leaves that code for the next
  capture, which is then not verified; `ImportIsOfComparedFrames` excepts an answer
  without a ticket that comes too late. Leaving the comparison with Escape leaves its prompt
  set, so the
  scanner shows "Captured all 0 frames" until Back. Late answers of the camera
  permission and the Wi-Fi check change the view, or start a session, after the user moved on or
  closed; `src/features/pairing/hooks/useQrScanner.ts:45` says that every track is stopped on
  cleanup,
  but a stream that opens later stays on.
* `pairing/payload.rs` says that a transfer "cannot overwrite a sign-in, however the other
  device is set up"; but a sign-in looks its account up before it waits for the lock
  (`store/accounts.rs:326`, `state.rs:456-464`). If the account is removed meanwhile, an import that
  just found it gone saves over the sign-in that brought it back.
* Import: an account that could not be saved is only counted as skipped. Accounts without
  an identity match by id alone, so that another person's groups and alerts may follow an id.

## 7. What is not modelled

* The end-to-end protocol of a transfer as two endpoints: key agreement, encryption and
  framing are computations on bytes (a confirmation tag is right or wrong here), and each
  endpoint is in `PairingSession` with the other as environment.
* Other builds' credential stores (Apple's single item, the encrypted file of Android and
  debug builds), the upgrade of a plain credential file, and the unlocked migration
  (excluded by `MigratesLocked`).
* Sign-in: the login window's profile directories, the popups and injected scripts on iOS, the
  timing by which Android tells a closed tab from a hidden one, accounts added from a pasted cookie,
  the fallback by label (section 6), and the offered AI Studio projects. AI Studio on a
  phone goes through the system browser and is left to the desktop build.
* Providers: parsing of bytes, the text of requests, key fingerprints. A malformed
  answer is one of the answers a call may get.
* The local API's Host and Origin checks, its payload, and the regeneration of its token.
* Settings that are single saved values; startup, migrations of old files, platform calls.
* The messages of discovery (mDNS and DNS-SD records); the look-up of a code is an
  answer in `PairingSession`.
* Updater, rendering and page storage, pointer geometry of reordering, camera
  and QR decoding, system web views, diagnostics, the mobile shells, the vendored notification
  plugin, build scripts: without protocol state of their own, or out of a model checker's reach.
* `PairingDialog` takes imports from captured frames; an import over Wi-Fi is the same
  `TransferImport`, not composed with its session. One import runs at a time.
