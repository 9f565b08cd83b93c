# Verification of capsolver

TLA+ models of the CAPTCHA solver service in `src/`, checked with TLC, and their
safety proved with TLAPS. Paths below are relative to the repository; `pool.rs`
is `src/browser/pool.rs`, `cdp.rs` is `src/browser/cdp.rs`, `turnstile.rs`,
`iuam.rs` and `utils.rs` are in `src/solvers/`.

## The system

A request (`POST` Turnstile or IUAM) takes a *slot* from `BrowserPool`, opens a
page in a browser context of its own on the Chrome process the slot belongs to,
lets a solver work on that page over the Chrome DevTools Protocol, and gives the
slot back. Everything runs as tokio tasks on several threads; a request is a
future that axum drops at its current await when the client disconnects.

| Component | State | Operations | Talks to |
|---|---|---|---|
| Slots of `BrowserPool` (pool.rs:195-318, 426-436) | semaphore, `available_contexts`, `active_contexts`, each under a lock of its own | `acquire`, `release`, `get_capacity_stats` | called by the handlers; looks up processes |
| `BrowserProcess`, health monitor, start, shutdown (pool.rs:40-192, 205-254, 438-492; main.rs) | vector of processes under an `RwLock`; per process the `Child`, the connection, the profile directory | `spawn`, `kill`, the 30 s scan, abort | Chrome; every lookup of a process |
| `CdpConnection` (cdp.rs:12-151) | map of pending replies, channel to the writer, broadcast of events, two tasks | `connect`, `call`, `subscribe`, `close` | Chrome over one WebSocket; all sessions of a process |
| `new_page` and the reset of a slot (pool.rs:290-308, 329-424) | browser context, target, session | four CDP calls and a navigation | `CdpConnection` |
| `CdpSession` (cdp.rs:156-440) | session id | navigate, evaluate, cookies, `Fetch.*` | `CdpConnection::call` |
| Handlers (api/handlers.rs) | none | acquire, new_page, solve, release | pool, solvers |
| `TurnstileSolver`, `IuamSolver` | deadline, interceptor task | intercept, navigate, poll | `CdpSession`, events |
| Solver utilities (solvers/utils.rs) | none | stub page, escaping, validation | solvers |
| `main` (main.rs) | none | serve, drain, shut the pool down | handlers, pool |
| `Config` (config.rs) | environment | `from_env` | everything, once at start |

What is hard here: requests that vanish at any await; two maps and a semaphore
that are updated one after the other; replies, timeouts and drains that race for
one entry; Chrome crashing while it is being started, replaced or killed; a
monitor that is aborted with a lock held; a list of dead processes that is used
long after it was read; an interceptor that must hear of a paused request among
the events of every other solve; deadlines that pass in the middle of a poll; a
shutdown that waits for requests that wait for slots. `PROJECT.json` lists these
hazards line by line with the properties that cover each.

What makes the components correct, in a sentence each: the pool hands every slot
to one request at a time and neither loses nor invents capacity while clients
stay; a call gets exactly what Chrome answered to it, or an outcome that does
not overstate what Chrome did, and always returns; every Chrome has one owner,
the dead ones are replaced, the living ones are left alone, and none survives; a
Turnstile solve whose URL Chrome would write the same way sees its stub and
never the target, answers its own requests only, and cleans up behind itself; a
slot is held for a bounded time; a client is told what was done for it, after
its slot is back; and the service stops when told to, with nobody using the pool
any more.

## Modules

### BrowserPool (abstract promise: SlotPool)

One action per stretch of code between two awaits. `pc[r]` is where request `r`
is; `permits` and `waiters` are tokio's fair semaphore; `available` and `active`
the two maps.

| Action | Code |
|---|---|
| `TakePermit`, `Park`, `ForgetPermit` | `semaphore.acquire().await` and `forget` (257-265): at once, or parked and assigned later |
| `PopSlot` | 267-273, with the empty-queue branch that answers 503 |
| `Activate` | 275-287 |
| `FinishSolve` | `new_page` and the solver, success or error (handlers.rs:129-149); its inside is left out |
| `Unlist`, `PushSlot`, `ReturnPermit` | release, 290-317; `add_permits` wakes the oldest parked request |
| `LeaveQueue`, `LeaveGranted`, `LosePermit`, `LoseSlot` | the handler is dropped while parked, assigned, between `forget` and the slot, or with the slot |
| `ReadAvailable`, `ReadActive` | the two reads of `get_capacity_stats` |

There is no await between `push_back` having its lock and `add_permits`, so a
request in stage `pushed` is never dropped; requests of other threads do run in
between. The port refreshed by `acquire` and the session fields are left out:
nothing here depends on them. A slot is a process index with a tab number in
place of the UUID. `SlotPool` knows only free slots, holders and stages: a
request takes a whole slot or none, there is no refusal, and what a leaver held
is gone.

### CdpConnection (abstract promise: RemoteCall)

A call stands for its message id (a 64-bit process-wide counter, which does not
wrap in practice). `pending` is the map, `reply` the oneshot channels, `outbox`
the channel to the writer task, `inbox` the answers in the socket. `Register`
and `Send` are separate, because the map's lock is an await; `Expire` and
`TimeOut` are separate for the same reason, so that a reply may arrive between
the timer and the removal. `Deliver` hands over under the lock. `ReadEnds`
leaves the loop for whatever reason and `Drain` is the wake-up of all callers;
`close` aborts both tasks at an await, so no drain then. Chrome (external)
answers each command once, in any order, or never, and may go away. Both
"Chrome answered with an error" and "connection closed" reach the caller as
`CdpProtocolError` and are one outcome, `error`. Time is not counted: a timer
may fire whenever the caller waits without a reply.

`RemoteCall` says what a caller may conclude: a `result` was executed, an
`unsent` command never is, an `error`, a `timeout` or a dropped call leaves both
open, and nothing is executed twice.

### ProcessSupervisor (abstract promise: ProcessTable)

`BrowserPool::new`, the health monitor and `shutdown` are three actors that run
the same `spawn` and `kill`. An *instance* is one run of Chrome with its
`BrowserProcess`; `chrome`, `dir`, `child` and `link` are its process, its
profile directory, the `Option<Child>` and the connection. Instances that left
no trace are used again, so crashes and restarts are unbounded. `lock` is set
only while a writer holds the `RwLock` of the processes across an await;
lookups, the scan and the replacement itself need it free.

| Action | Code |
|---|---|
| `StartChrome`, `SpawnRefused`, `ChromeAnswers`, `StartupFails`, `CleanUp` | `spawn`, 40-116, for `new` (216-228) and the monitor (462) |
| `AskToClose`, `ReapAndReplace`, `ReapAndGoOn` | `kill`, 168-192, for the monitor (464-467), the undo of `new` (222-224), shutdown (485-489) |
| `Scan`, `LockForRestart` | 448-457, 462-464 |
| `AbortMonitor`, `MonitorDropped` | `abort` (482) only marks the task; its future is dropped later, at its await, and `kill_on_drop` ends the Child it holds |
| `BindFails` | main.rs:29-30 returns before `shutdown` |
| `LookUp`, `LookUpAgain` | `connection_for` (320-326) and the port in `acquire` (275) |
| `Crash`, `LinkEnds` | Chrome dies; only its connection ends (cdp.rs:53-58) |

Abstractions: a poll of the monitor that is under way while `abort` is called is
ordered before the abort; removing a directory succeeds; `Browser.close` either
ends Chrome or does nothing, and waiting or SIGKILL then ends it.

A `try_wait` that fails is left out with them.

`ProcessTable` is what those that look a process up may count on: a mode
(starting, serving, closing) and what is behind each index (nothing, a Chrome, a
dead one). The pool serves as soon as the last place is filled and has none
empty from then on until it closes; a Chrome dies at any time, a dead one is
exchanged only while the pool serves, a living one never, and a pool that closes
only loses Chromes. `spawn`, `kill`, the lock, the replacement being started and
the directories are hidden: `ModeOf` is read off the stages of `new` and
`shutdown`, `PlaceOf` off the vector.

### PageLifecycle

What `new_page` and `release` ask of Chrome for one slot, call by call, on one
process. `ctx` and `session` are what the slot remembers; `contexts`, `pages`
and `attached` are what Chrome has. A call is used as `RemoteCall` describes it:
`sent` commands are executed (`ran`) at any later time or never, a stage goes on
only when its command is executed, and fails whether it is or not. A browser
context, its page and its session are named by the solve that asked for them.

| Action | Code |
|---|---|
| `Create`, `Created`, `TargetMade`, `Attached` | `new_page`, 335-408, one per reply |
| `Prepared` | domains, viewport, navigation (410-417); only then is the session in the slot |
| `NewPageFails` | any `?` of `new_page`, and the handler's release (handlers.rs:135-138) |
| `Detach`, `Detached`, `Disposed` | `release`, 290-317, which ignores both outcomes |
| `Drop` | the handler is dropped, with the slot |
| `Restart` | the monitor's replacement (462-470) as `ProcessSupervisor` has it, in one step: commands under way are lost, `stale` solves keep the old connection while `connection_for` hands release the new one |
| `RunCreate` ... `RunDispose` | Chrome (external) executes a command |

A command sent between a crash and its replacement is one that Chrome does not
execute. That `connection_for` finds no connection happens only after shutdown
and is left out.

### SolveDeadline

One request from the moment it has its slot to the return of it, as the *legs*
it consists of: sixteen single CDP calls at most; the three waits `load` and
`ready` (`wait_for_navigation`) and `proof` (the token or the clearance cookie),
each a loop of a poll, a look at the deadline and a pause; and the three lookups
`port`, `find` and `refind` of the process the slot belongs to (`Lookups`: the
end of `acquire`, and `connection_for` in `new_page` and `release`). `After` and
`OnFailure` are the two ways on from each leg, for the two endpoints; `got` is
what the solve has of what it is to return.

| Action | Code |
|---|---|
| `Enter` | every `call` has `cdp_timeout`, every wait a deadline from its start (cdp.rs:206-229, 387; turnstile.rs:136; iuam.rs:85) |
| `CallSucceeds`, `CallFails` | the reply, or an error or timeout, or no such process; the request survives it (`Tolerated`) in `acquire`, `get_ip_address`, `disable_fetch` and the calls of release (pool.rs:275-277, 290-307, iuam.rs:130-160, turnstile.rs:61) |
| `Succeed`, `Forgo`, `Fail` | what comes of a leg: `Ok`, an error nobody sees, an error handed on with `?` |
| `PollFinds`, `PollMisses`, `Wake` | the loops of cdp.rs:389-407, turnstile.rs:138-169, iuam.rs:87-127 |
| `PollFails` | an error ends the token and cookie loops, not that of the navigation |
| `Refuse` | turnstile.rs:40-47, iuam.rs:48-54 |
| `Tick`, `Show` | time passes; the page becomes what the wait is for, and stays so |

Time is counted in ticks of the granularity of the smallest constant. A timer
and a reply are handled in the tick they fall due: the bounds hold up to what
the scheduler adds. What a page shows stays shown during a wait; an expired
token (`onTurnstileExpire`) only makes a wait longer, within the same deadline.
The wait of `acquire` for a slot has no deadline and comes before the clock
starts.

A lookup has no timeout of its own. It waits while the health monitor holds the
list of processes for writing, across `slot.kill().await` (pool.rs:463-466) for
`KillTime` at most: 5 s for `Browser.close` and 5 s for Chrome to exit
(pool.rs:168-192). What follows a SIGKILL, reaping the process and removing its
directory, is taken to fit in as well. tokio's `RwLock` is fair and the monitor
is its only writer while requests are in flight (shutdown takes the lock after
the last of them), so a lookup waits for one kill, not for all that are due; its
other critical sections contain no await.

With the defaults of config.rs `HoldBound` is about 279 s, 30 s of which are
lookups behind three kills, and `SolveBound` 109 s. `HoldBound` is exact up to a
tick for each of the three waits, whose last pause begins before its deadline.

`OutcomeFits` says that a solve succeeds exactly if it got what its endpoint
returns: a token, or a clearance and a user agent. The address and the clean-up
decide nothing. The user agent does decide, although iuam.rs:131 calls the cookie
"the actual deliverable": a clearance that was found is lost if the call for the
user agent fails (iuam.rs:113-116).

### TurnstileSolve (abstract promise: StubVisit)

`TurnstileSolver::solve` and the interceptor it spawns, for several solves on
one connection. `unread[s]` and `lagging` are the receiver of the broadcast
channel of solve `s`; `commands` and `answers` what its solver and its
interceptor have sent and Chrome not executed; `fetch`, `page` and `resource`
what Chrome has. A document is paused when the navigation is executed with Fetch
on and the URL of the solve fits as a pattern (`matched`); the stub may then ask
for the target's URL as something else (`resource`).

`matched` is chosen once for each solve, by its URL. The client's URL is the
`urlPattern` of `Fetch.enable` as it is (turnstile.rs:76). Chrome reads it as a
pattern for the URL it is going to ask for, as it writes that itself: without a
fragment, the host in lower case, and with `/` for an empty path. So
`https://example.com/login` fits, `https://example.com` does not, and nothing
of its navigation is paused: the page becomes the target's. A `?` or `*` in the
URL is a wildcard and fits itself. Left out is a pattern that does not fit the
navigation and does fit something asked for later, by a redirect or a frame.
`SiteNotVisited` and the promise of `StubVisit` that a solve sees its stub are
about solves whose URL fits, and `Miss` is what becomes of the others.

| Action | Code |
|---|---|
| `Enabled`, `EnableFails` | `serve_stub_at` up to the spawn, and the call of `Page.navigate` (turnstile.rs:75-84, 121-125): no await in between |
| `Navigated` | turnstile.rs:121-133 |
| `Finish`, `DisableReturns` | abort and `Fetch.disable`, whatever the outcome (57-63) |
| `Drop` | the handler is dropped: its JoinHandle goes, the task stays (84) |
| `Receive`, `AnswerReturns` | one turn of the loop (85-116) |
| `ReceiveFails` | `Lagged` ends the loop (85) |
| `Emit` | the reader broadcasts (cdp.rs:79-81); the channel holds `Capacity` = 512 events (cdp.rs:40) |
| `Run*`, `RequestResource`, `OtherEvent` | Chrome (external) |

The interceptor holds the session, the session the connection, and the
connection the sender, so `Closed` is never received: a detached interceptor
ends by lagging or not at all. A call is used as `RemoteCall` describes it.

`StubVisit` is what a solve makes of its page: a document goes from blank to
paused to the stub, to the target's own only when the solve is over, and never
back; the target is asked for at most once and not before the solve begins; what
the stub itself asks of it is let through. A solve whose URL does not fit
(`fits`) has the target's document instead (`Miss`), once. The calls that make
it so, Fetch, the interceptor and its channel are hidden, and whatever of them
is late, lost or executed after a timeout must not show.

### RequestInputs

`escape_html`, the tag of the stub page that carries the request's data,
`validate_sitekey`, `validate_url` and `origin_of`, as operators on sequences of
symbols. A symbol is a character or a word that no rule looks into: `"x"` is any
ASCII letter or digit, `"https"`, `"host"` and `"amp"` are words, `":"` and
`"/"` are characters (`"://"` is three symbols, and may occur again in what is
behind the first one, where `origin_of` ends the host at its slash), and
`Symbols` is what the texts of a request may be made of. `Attributes` is what a
browser (external) reads off the tag: a value lies between a quote that an even
number of quotes precede and the next one, and `Unescape` replaces the entities
in it. That an HTML parser turns CR and CR LF into LF before it reads a tag is
left out. The laws `WidgetKeeps` (the attributes found are those that were
`Sent`) and `OriginFits` state what the operators are for.

### SolverService (uses SlotPool)

Both endpoints and `main`. The pool is what `SlotPool` promises of it, and
`BrowserPool` is shown to implement that promise; a page and a solver are one
step each, with the checks of the input before and after the navigation.

| Action | Code |
|---|---|
| `Arrive` | the router and the body (api/mod.rs:17-28, handlers.rs:105-108, 166-169) |
| `Acquired` | handlers.rs:124-127, 188-191; the 503 of `acquire` is never taken (`ImplementsSlotPool`) |
| `PageOpens`, `PageFails` | 131-138, 193-200 |
| `Refuse`, `Navigate` | the checks, and what fails before the navigation (turnstile.rs:40-57, iuam.rs:48-60) |
| `Solved`, `SolveFails` | 151-162, 206-220; `origin_of` fails only here (iuam.rs:84) |
| `Released` | `release` before the answer (84-88, 136, 149, 198, 204) |
| `Leave` | axum drops the handler |
| `Signal`, `Drained`, `PoolDown` | main.rs:36-46: `serve` returns when no connection has a request any more |

A body that axum refuses, a route that does not exist and `/health` take no slot
and are left out.

`SequenceLemmas` holds the lemmas that more than one proof needs: `Append`,
`Tail` and `RemoveAt` on sequences without duplicates, the least of a set of
numbers, `FlattenSeq`, and induction over sequences; `MC*` modules give TLC its
model values. Definitions under "with a plausible bug" in a module are not used
by its specification: each is an action altered the way a bug would, and
`PROJECT.json` says which property notices it.

## Runs

| Run | Instance | Shows |
|---|---|---|
| `pool` | 2 processes × 1 tab, 4 requests, 1 may be dropped, 1 probe | `CapacityConserved`, `PermitsBacked`, `SlotExclusive`, `ActiveIsHeld`, `NoLostWakeup`, `NoStandstill`; `ImplementsSlotPool` with its fairness; `StayersAnswered` |
| `cdp` | 2 calls, 1 may be dropped | `WaitersReachable`, `PendingIsOwned`, `RepliesReachWaiters`, `ImplementsRemoteCall`, `CallsReturn` |
| `pages` | 2 solves on 1 Chrome, 1 may be dropped, any number of restarts | `ContextsAccounted`, `SolverHasPage`, `SlotsComeBack` |
| `supervisor` | 2 processes, 3 instances, 1 reader | `NoIndexUnwatched`, `OnlyDeadReplaced`, `NoOrphan`, `NothingLeftBehind`; `ImplementsProcessTable`; `CrashRepaired`, `LookUpReturns`, `ShutdownEnds` |
| `deadline` | timeouts of 2, 2 and 4 ticks, pauses of 1 and 3, kills of 3 | `HeldWithinBound`, `SolvedWithinBound`, `OutcomeFits`, `NoEarlyTimeout` |
| `turnstile` | 2 solves on 1 connection, 1 may be dropped, a channel of 2 events | `PausedIsKnown`, `OnlyOwnAnswered`, `InterceptorStopped`; `ImplementsStubVisit`; `DocumentReleased` |
| `service` | 2 slots, 3 requests, 1 may be dropped; URLs with tails of 4 symbols, texts of 2 | `PoolOutlivesRequests`, `AnsweredGaveBack`, `StatusFits`, `StubKeepsInputs`, `OriginCoversHost`, `StayersGetAnswers`, `ShutdownCompletes` |

`TypeOK` is proved for each of these modules, so no run repeats it; nor does one
repeat `SiteNotVisited`, which `StubVisit` contains. Four requests on two slots
park two, with a leaver anywhere in the queue; two slots with one leaver keep
one slot in service, so that no state is a deadlock (with as many leavers as
slots the service really does stop: see `pool_drift`). Two calls suffice to tell
one caller's reply, entry or timeout from another's; the proofs cover any
number. Two processes let the second crash while the monitor handles the first,
and three instances are the two in service and the replacement, more than which
never exist. The solves of `pages` share nothing but Chrome; the second shows
that a restart catches them at different stages, and the proofs cover any
number. In `deadline` a pause is longer than a call may take, so that a deadline
falls into pauses as well as into polls, and is shorter than the deadline, so
that a wait polls more than once; the proofs cover every choice. In `turnstile`
the second solve supplies events of another session, and two of them fill the
channel; each of the two may have a URL that fits or one that does not. In
`service` one request holds each slot while a third waits; each of the checks
fails for some request. The inputs that are let through stand for those with any
`cdata` and `action` and any continuation of the URL: two symbols are enough for
an escape of an escape, four for a path, a query and a fragment in any order.

`SlotsComeBack` is what `BrowserPool` takes for granted in the fairness of
`FinishSolve` and `Release`. `ContextsAccounted` says what is left behind: a
browser context whose creation was not answered in time, one whose disposal
Chrome did not carry out, and all those of dropped handlers, until Chrome is
restarted.

Runs that end in a counterexample, each a disagreement between the code and
what the repository says of it:

| Run | Property | What happens |
|---|---|---|
| `pool_drift` | `NoDrift` ("capacity must not drift across cycles", tests/integration_tests.rs:122) | a handler dropped after `forget` takes its permit or slot for good |
| `pool_stats` | `TotalIsCapacity` (USAGE.md:111) | a request between the two maps is counted in neither |
| `supervisor_dirs` | `ShutdownLeavesNoDirectory` (USAGE.md:118, pool.rs:84) | shutdown during a restart leaves the replacement's directory |
| `supervisor_link` | `LostLinkRepaired` (IMPLEMENTATION.md:278) | a lost WebSocket of a running Chrome is never replaced |
| `deadline_total` | `SolvedWithinTimeout` (USAGE.md:283, "Total operation timeout") | the navigation and the token each wait for the whole solve timeout |

Two more are visible in runs that pass, whose properties say what the code does:

- turnstile.rs:66-68 says "the stub has to be served *as* the target URL". The URL
  is made the pattern as it is (turnstile.rs:76), so the target itself is loaded,
  and polled for a token, for every URL that Chrome writes differently: also for
  `https://example.com`, which TURNSTILE_SOLVER.md:68 gives as an example
  (`matched`, and `Miss` of `StubVisit`).
- iuam.rs:131 says "the clearance cookie is the actual deliverable". A solve that
  has it fails if the call for the user agent does (`OutcomeFits`).

The documents disagree with each other on a pool that is full. USAGE.md:316-319
and 400-406 have `acquire` refuse with `CapacityExhausted`; USAGE.md:63,
IMPLEMENTATION.md:266 and tests/integration_tests.rs:126-134 have it wait, as the
code does. The model follows the code: `acquire` parks, and never refuses
(`ImplementsSlotPool`, `NeverEmptyHanded`).

Two comments overstate what the code beside them does, and the models follow the
code: "Wake every caller" (cdp.rs:86) misses a call that registers after the
drain, which its timeout ends (`CallsReturn`); "under a read lock" (pool.rs:446)
is a write lock (449), and the restart holds it across `kill`, which a lookup
waits for and survives (`LookUpReturns`).

### Fairness

- Pool: weak fairness of each request's `Acquire`, `FinishSolve` and `Release`.
  tokio polls what is ready, the locks are held for a moment, and every CDP call
  and polling loop between acquire and release has a deadline. Nobody has to
  disconnect, and no fairness is needed for the queue, which is first in, first
  out. `SlotPool` is given strong fairness of `Take`, and the run shows that the
  queue delivers it.
- Connection: only the callers and their timers move. Nothing is assumed of
  Chrome or the two tasks.
- Pages: weak fairness of each solve's `NewPage` and `Release`: a call returns
  (`CallsReturn`), and a solver has deadlines. Nothing is assumed of Chrome.
- Supervisor: weak fairness of spawn, kill, the monitor and the shutdown's wait
  for the lock. Strong fairness where the code retries: a Chrome started for the
  same index every 30 s comes up in the end, and a lookup gets the lock that is
  free again and again (tokio's `RwLock` is fair). `CrashRepaired` also assumes
  that from some time on no replacement crashes before it is in place: without
  it, it is false of any supervisor. Nobody has to call shutdown.
- Turnstile: weak fairness of each solver, whose calls have timeouts, and of
  Chrome's execution of a `Fetch.disable` it was sent. Nothing is assumed of the
  interceptor, and nobody has to be dropped.
- Service: strong fairness of `Acquired`, which is what `SlotPool` promises and
  `ImplementsSlotPool` shows; weak fairness of the other steps of a handler,
  whose time `HeldWithinBound` bounds; and of `Drained` and `PoolDown`
  (`ShutdownEnds`). Nobody has to leave or to send a signal.
- Deadline: none. Its bounds are safety properties.

## Proofs

`BrowserPoolProofs`, for every `PoolSize`, `TabsPerProcess` and finite set of
requests (`PoolAssumption`): `TypeCorrect`, `Conservation`, `Exclusion`,
`ActiveExact`, `WakeUps`, `NeverEmptyHanded`, `SomebodyReleases`, and
`Implements` (`Spec` implies `SlotPool`'s `Spec`). `PermitsBacked` is not
inductive: that a permit has a slot behind it rests on where every other permit
and slot is. `IInv` therefore adds up permits over the stages of all requests
(`PermitsConserved`), slots likewise (`SlotsConserved`), and says which stages
hold a slot (`HoldersHaveSlots`); the difference of the two sums is
`PermitsBacked` (`Backed`). A step moves one request, or two when a permit wakes
a parked one, and `CountStep` turns a move into plus or minus one; that the
woken request is another one, and parked, is `NoLostWakeup`. `Implements` needs
`PermitsBacked` for the branch of `PopSlot` that refuses.

`NoStandstill` (`SomebodyReleases`) is the safety half of `StayersAnswered`: as
long as fewer clients can leave than there are slots, whoever is parked waits for
a request that is running and will add a permit back. Only a client that may
disconnect loses a permit (`LeaversOnly`), so fewer are lost than there are; none
is free while somebody is parked (`NoLostWakeup`); by `PermitsConserved` the rest
are with requests between `acquire` and the end of `release`.
`NoDriftWhileClientsStay` is the other side of the run `pool_drift`: without
clients that leave, capacity does not drift.

`CdpConnectionProofs`, for every set of calls: `TypeCorrect`, `NoReplyMissed`,
`NoStaleEntries`, `RepliesArrive`, `Implements` (`Spec` implies `RemoteCall`).
`WaitersReachable` alone is not inductive: the entry must be there from
registration on, and an answer must not be read for a call that has not sent
its command yet. `MapInv` ties stage, entry and reply together; `TripInv` puts
each command in at most one of the outbox, Chrome's hands and its answers, and
in none before it is sent.

`PageLifecycleProofs`, for every set of solves: `TypeCorrect`, `Accounted`,
`Attachment`. `SentInOrder` says what is sent at each stage and what each
command implies of the earlier ones; `ContextKept` that the order to dispose is
given or the slot still remembers the context; `SessionKept` that nothing sent
before release takes a session away. Together they are inductive.

`SolveDeadlineProofs`, for every choice of timeouts, pauses and `KillTime`
(`TimeAssumption`): `TypeCorrect`, `Held`, `Solved`, `Outcomes`, `LastLook`. A
bound on the whole is not inductive: the invariant gives each leg the latest
time it can be entered, counted from `acquire` and from the beginning of the
solver, and bounds what is left of the leg by its timer and its deadline; a step
to the next leg stays below the next bound because the difference of the two is
what the leg may take. `Outcomes` needs to know, besides, what a solve has got in
each leg, and that its outcome is open until then.

`TurnstileSolveProofs`, for every set of solves and every `Capacity`
(`TurnstileAssumption`): `TypeCorrect`, `NothingMissed`, `SiteSpared`,
`OwnOnly`, `Stopped`, and `Implements` (`Spec` implies `StubVisit`). That a
paused request is known rests on Fetch being on and the interceptor listening
for as long as the solve goes on (`Armed`), which rests on nothing having
happened before (`Fresh`); that an interceptor answers its own rests on events
telling what has happened (`EventsTrue`). `Implements` maps what Chrome executes
to the steps of a document. `SiteSpared` and the stub it shows are about
solves whose URL fits (`Spared`); which those are does not change. It needs two
more facts (`NavigatesOnce`): a
navigation not executed yet finds the page blank, so that one executed late
cannot take a stub away, and a request of the stub means that the page is the
stub, so that a late `Fetch.disable` either lets the document go or the request,
not both.

`SolverServiceProofs`, for every set of requests and slots
(`ServiceAssumption`) and all inputs over any `Symbols` (`AskAssumption`):
`TypeCorrect`, `Outlives`, `GaveBack`, `StatusTrue`, `StubLossless`,
`OriginCovered`. The properties relate handlers to the pool, so the invariant
ties the stage of each request in the pool to its phase (`Tied`), says what is
known of the page behind a status and of the input of a request that has arrived
(`Told`), and that every slot is free, held, or gone with a client (`Backed`).

The last two rest on laws of the texts, proved for texts of any length in the
same module: `EscapeLossless` (what `escape_html` returns ends no attribute, and
a browser reads from it what was escaped), `WidgetLossless` (of the whole tag)
and `OriginLawful`. The five replacements of `escape_html` act on each symbol by
itself (`EscapeConcat`), so a text is the concatenation of its escaped symbols;
`Unescape` looks at three symbols at a time, and a concatenation is safe to read
piece by piece when no entity straddles the joint, which is why the law carries
along that no ampersand is among the last two symbols of an escaped text, and no
quote anywhere (`Harmless`). The induction
over the text is over the set of texts for which the law holds
(`SequenceInduction`): the least length at which it fails cannot exist.
`AttributesConcat` does the same for attributes, by counting quotes: a tag whose
quotes pair up (`Whole`) and one more attribute have the attributes of both.

`ProcessSupervisorProofs`, for every `PoolSize` and every set of runs of Chrome
larger than it (`SupervisorAssumption`): `TypeCorrect`, `Watches`,
`OwnsEveryChrome`, `ReplacesTheDead` (`PortsAreExclusive` and `SparesLiving`),
`LeavesNothing` (`FailsClean` and `LeavesNoDirectory`), and `Implements` (`Spec`
implies `ProcessTable`). None of these is inductive: that the monitor kills only
the dead rests on the list it read earlier still being true (`DeadKnown`), which
rests on nobody else having replaced what is listed. The invariant says which
stages of the three actors go together (`Stages`) and who holds the lock in them
(`Locks`), which indices are filled meanwhile (`Places`), that every run of
Chrome has one owner (`Owned`), that every profile directory has one until
shutdown cuts a restart short, and at most one has none from then on (`Strays`),
that a run someone owns has its Chrome, be it dead (`Manned`), and where the
Child is (`Watched`). There is one lemma per action, one step in it per part.
`Implements` maps each action to a step or a stutter: a spawn by `new` fills a
place, and the last one opens the pool; what the monitor starts is seen only
once it is in place, and then in the place of a dead Chrome (`DeadKnown`), while
the pool serves (`Locks`); if it has crashed by then, nothing is seen. That a
restart in its last step cannot put a Chrome back into a pool that closes is
`Locks` too: shutdown waits for the lock, and a monitor that was aborted does
not move.

Model-checked only, because they are beyond the prover: liveness
(`StayersAnswered`, `SlotsComeBack`, `CallsReturn`, `CrashRepaired`,
`LookUpReturns`, `ShutdownEnds`, `DocumentReleased`, `StayersGetAnswers`,
`ShutdownCompletes`) and the fairness half of `ImplementsSlotPool`.

## Not modelled

Chrome's command line, HTTP framing, logging, serialisation, error texts and
the declarations in `error.rs`, `lib.rs` and the `mod.rs` files have no
behaviour the properties tell apart. `is_healthy` is written and never read;
`add_init_script`, `query_selector`, `get_cookies` and `request_timeout` are
called by nobody.

`Config::from_env` reads the environment once and keeps no state: a value that
does not parse is replaced by its default. The timeouts are constants here, in
whatever unit: config.rs:4 takes them as milliseconds, while USAGE.md:282-285
lists seconds. `cdp_port_base + index as u16` (pool.rs:217) is one expression,
which overflows only for a base near 65535 or more than 65535 processes;
`ProcessSupervisor` takes ports to be distinct.

Clients that send or read slowly, and the contents of cookies and tokens, are
left out.

## Plan

Done: pool, connection, supervisor, pages, deadlines, Turnstile and service, with
proofs of their safety, and of the laws of the texts they handle. The
slots, the connection, the processes and the page of a Turnstile solve are shown
to implement abstract specifications; left are one of `new_page` and `release`
(the life of a browser context against its slot), and what the prover does not
reach, which stays with the runs: liveness.
