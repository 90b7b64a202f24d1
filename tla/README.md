# TLA+ models of the spot controller server

The server (`src/backend/app`) plays short audio spots on Android nodes. Nodes
keep a websocket open; admins play, stop, enable and enroll nodes through a
dashboard; a scheduler plays a sequence of spots at an interval. These modules
model the parts where several of those actors meet, model-check them with TLC,
and prove with TLAPS, for any number of nodes, connections, commands, threads,
requests and spots, every invariant and action property the runs check.

## 1. The system

| Component | State | Operations | Meets |
|---|---|---|---|
| Connection registry (`websocket/manager.py`) | `_connections`, `_pending` | connect, disconnect, send_to_node, create/resolve/cancel_ack | endpoint, dispatch |
| Node endpoint (`websocket/endpoint.py`, `handlers.py`) | one coroutine per socket, `authenticated_node_id` | accept, HELLO, messages, error path, finally | registry, node rows, enrollment |
| Playback dispatch (`services/playback_service.py`) | one coroutine per request, its futures and results | dispatch_play, dispatch_stop, request_sync | registry, spots, scheduler |
| Autoplay (`services/scheduler_service.py`) | the `scheduler_config` row, one date job, the tick lock | update, start, stop, reset, tick, initialize | dispatch, spots |
| Node status (`services/node_service.py`) | liveness columns of `nodes` | message handlers, mark_disconnected, sweep, reset | endpoint (event loop), sweep (thread) |
| Enrollment (`services/enrollment_service.py`) | `node_enrollments`, the token hash in `nodes` | request, poll, list, approve, reject, HELLO | worker threads, event loop |
| Spots, retention (`spot_service.py`, `retention_service.py`) | `spots`, files | upload, update, signed download, sweep | autoplay, dispatch |
| Node routes (`api/routes/nodes.py`) | none of their own | enabled, autoplay, sync, provision, enrollment | registry, node rows |
| Login limiter (`auth_service.py`) | deques of failures and lockouts per address and user name | ensure_allowed, register_failure, register_success | login threads |
| Admin sessions (`auth_service.py`, `core/security.py`) | none: signed cookies | login, logout | every admin route |
| Message protocol (`websocket/protocol.py`, `schemas/`) | none | parse, build | endpoint, dispatch |
| Event log, settings, migrations | append-only log, constants | | |

What is concurrent: `async` routes, websocket handlers, dispatches and the tick
share one event loop, so a coroutine is atomic between two awaits that really
suspend. Plain `def` routes (all of enrollment, provisioning, spots) run in worker
threads, and so does the liveness sweep, a plain function that APScheduler gives to
an executor. Login is a plain `def` route too, so its limiter is shared by threads.
Apart from that, threads and loop meet in the database only: every transaction reads
rows, and its commit writes the columns it changed (`db/session.py`: no version
column, no row locks). What is hard: futures that are settled, cancelled and timed
out around the same await; a reconnect that overlaps the end of the old connection;
a chain of one-shot jobs each of which must arm the next; lost updates between
threads; crashes between two commits; frames that overtake each other because one
was read before an await.

The correctness of each part, in a sentence. *Command path:* every target of a
request gets one verdict, which is what the node first said or why it could not;
nothing is awaited that cannot be answered; every request ends. *Autoplay:* stop
stops; the armed job is what the dashboard shows; the chain of ticks breaks only
where the code lets an exception or a misfire out; the sequence is played in
order. *Status:* online means recently seen; silence ends in offline and life in
online. *Enrollment:* an approved request holds a token, an enrolled one does
not, and the token of a node is not lost. *Spots:* a spot that is played or has a
link that has not expired has its file; an inactive spot is removed, file and row.
*Node control:* a node goes by the flags of its row and by a list of spots that is
recent enough. *Logins:* failures in a window are limited, and only failures lock
anybody out.

## 2. The modules

| Module | What it is |
|---|---|
| `CommandDispatch` | registry, acknowledgement table, socket handlers, dispatches |
| `CommandPromise` | the abstract specification `CommandDispatch` implements |
| `AutoplayScheduler` | configuration row, job, tick, restart |
| `NodeStatus` | liveness columns under handlers, sweep and restart |
| `Enrollment` | enrollment rows and token under threads and HELLO |
| `SpotCatalog` | spot rows, files and links under uploads, updates and the retention sweep |
| `NodeControl` | the flags and lists a node is told, over reconnects, changes and crashes |
| `LoginLimiter` | the deques and lockouts of the login limiter under threads |
| `MC…` | instances for TLC |
| `CommandDispatchProofs`, `CommandPromiseProofs`, `AutoplaySchedulerProofs`, `NodeStatusProofs`, `EnrollmentProofs`, `SpotCatalogProofs`, `NodeControlProofs`, `LoginLimiterProofs` | theorems and their proofs |

The operators named `Mut…` are mutated forms of the definition they precede, for
checking that each property can fail; no specification uses them.

### CommandDispatch

A socket's handler (`pc`) goes idle → hello → (replacing) → greeting → serving,
and to rejecting and closing on an error; each value is one await. `conn` is
`_connections`; `pending` holds the keys of `_pending`; `future` follows each
future from `create_ack_future` to the moment the dispatch drops it. A dispatch
(`phase`) is in its loop, suspended in a send, collecting, or suspended on one
future. While one is in "loop" or "collect" it holds the event loop, which
`LoopFree` denies to everybody else; only a peer that vanishes (`PeerGone`) and
`provision_node`, in its thread, need not wait. `via` is the websocket object a
suspended `send_json` captured, so a send over a socket that is no longer
registered fails as it would in the code. `dispatch_play` and `dispatch_stop` are
the same actions with another `kind`: they differ in the enabled check and in how
an answer is read.

Assumptions that stand for code outside the repository: Starlette raises on
`send_json` and `close` after its own close frame was sent; `asyncio.Lock` is
never contended, since no holder awaits inside it; `wait_for` may see its timer
fire after the future was set but before it ran again. The database commits on
the event loop may fail (`CommitFails`).

Abstracted: audio, payloads, event log, the REGISTER_ACK and SYNC_REQUIRED
contents, and the error text of an answer. Targets are a set (the code drops
duplicates) processed in any order, which includes the list's.

### CommandPromise

What a request owes its caller, with no sockets, futures or timers: each target
is judged once, as unreachable, silent, or by the meaning of the first thing the
node said about this command; a response leaves nobody out. `CommandDispatch`
implements it under the mapping `Promise` (`Stage`, `Verdict`, `first`), which
both TLC and TLAPS check.

### AutoplayScheduler

`cfg` is the row, with `due` for next_run_at relative to now; `job` is the date
job; `tick` is "chosen" between picking a spot and the first suspension of
`dispatch_play`, and "sent" until its acknowledgements are in. `Misfire`, `DropJob`
and `Due` are APScheduler's rules for a one-shot job (grace time 30 s,
`max_instances` 1); `DropJob` also covers `_tick_lock.locked()`. `form` is a
revision of a configuration an admin has opened; an update sent without one is
accepted whatever the revision. The interval is a column of the row like the
sequence, so a tick arms the next by the interval of the moment it ends.
`SetActive` is any change of a spot's active flag, in any thread, hence also
between the tick's choice and `dispatch_play`'s own check (`TickRaises`). `pos`,
`last` and `broken` are history. Wherever a transaction may raise there is an
action for it: the commit of a skip or a read of the tick (`TickFails`), the
commits after the dispatch (`CommitFails`), the reset after a manual play
(`ResetFails`), and the `db.refresh` between the commit of a start, stop or edit
and the change of the job (`RefreshFails`), after which row and job disagree until
the next of them. A job that such a stop leaves behind runs into `TickDisabled`.
What raises before a commit changes nothing, and is no action.

### NodeStatus

A handler on the loop and the sweep in its thread each read rows (`read`), decide
(`new`) and commit what they changed (`Merge`). Ages count from the last sighting
and the last heartbeat, up to `Cap`, beyond which the sweep no longer tells them
apart. `sessions` counts the handlers of a node that have said HELLO and whose
finally block is still to come: two of them are a reconnect whose old connection
lingers. `raced` marks a row written by overlapping transactions; it is what
`OfflineIsIdle` excepts, and no action reads it. `AwareTimes` says whether the
database returns times with their zone (PostgreSQL does, SQLite does not).

### Enrollment

`enr` are the rows of one node (two nodes share none), `token` the token its `nodes`
row holds the hash of, `device` what the node knows, `work` the transaction in each
thread. An approval is three steps: read and generate, provision (first commit),
approve (second commit), and the process may die between any two. A row's expiry is
a flag set by `Lapse`. Names, platforms and reasons are left out. The node may miss
any answer (`CommitRequest`, `CommitPoll`), and any open transaction may raise and
be rolled back (`Fails`). The node polls one request, by its id and the pairing code
it was given last; another code gets no token. Two history variables, read by no
action, say what the properties except: `contested`, the requests two decisions
about which were open at once, and `stray`, that the node's token was entered by
hand, or is of an approval that broke off between its commits, or of one that found
the node without that request in its hands (`InHand`): polling another one, asking
again, or having missed the answer. The next approval of the request it does poll
ends it.

### SpotCatalog

`row` and `file` are a spot's row and its file; `offer` is what is left of the
last link a node got to it. An upload writes the file, then commits the row; an
update reads, then commits the columns that changed, `updated_at` with them; the
sweep reads the outdated rows, unlinks their files one by one and commits their
deletion. Each of those steps is an action, and the sweep may stop after any of
them (`SweepFails`, `Crash`). `torn` is history, read by no action: the spots an
update touched while a sweep held them, and those a sweep unlinked without
getting to its commit. The two properties about files except them, for there the
code gives no guarantee. A link is as long as its ttl, which the code compares
with nothing; `SpotCatalogAssumption` takes it to be no longer than the
retention (10 minutes against 14 days by default, `core/constants.py`).

### NodeControl

What one node is told in frames nobody acknowledges. `row` holds its flags,
`catalog` a version of the set of active spots, `wire` the frames sent over each
socket and not yet read, in the order of the `send_json` calls. A handler
(`pc`) is suspended in two places: "replacing", where `connect` awaits the close of
the old socket with the flags already read (`read`), and "greeting", where it
awaits REGISTER_ACK before it builds the list. `since` is the catalogue HELLO saw.
`belief` and `held` are what the node goes by on each connection; they begin empty
with every connection, so the properties do not lean on what an earlier session
said. `missed` is history: changes made while a connection was not the registered
one, or had an older REGISTER_ACK still to come, changes whose `db.refresh` raised after
the commit so that no frame follows, and changes by provisioning.
`Leave` is the finally block with the registry's habit of removing whatever is
registered. Of a catalogue the model keeps the version and whether it has an
active spot (`EmptyVersions`).

### LoginLimiter

`at` is the dictionary entry of a key, `deque` the contents of the deques, which
outlive their entry while a thread holds them. A thread's `task` is its place in
`register_failure`, statement by statement, where the statements touch what another
thread may touch: look up, the two reads in the test of `_prune` (whether there is
an attempt, and how old the first is), its popleft, append, count. Assignments that
concern one dictionary only and that no interleaving can tell apart are one step
(lockout with clear, the four pops of `register_success`). Time stands still inside
`register_failure`, which takes `now` once. `log` and `unpaid` are the reference:
the true failures within the window, and those among them that no lockout was for
yet. The assumption that a lockout is longer than the window is that of the defaults
(10 and 5 minutes, `core/constants.py:29-30`); with the two equal the bound fails by
one at the boundary. `raced` marks keys of which a race has lost or misplaced an
attempt, until their window is over. A thread that finds no entry takes the name of
a deque that nobody refers to, of which one more than there are threads is enough.
When time passes, `Recent` drops from a log the failures that leave the window.

## 3. The runs

Every run is exhaustive within its bounds. A `TypeOK` is checked in the first run
of each module; `Inv` is the inductive invariant of the module (section 4). Those
of `NodeStatus` and `NodeControl` are not named in a run, for most of what they say
is the named invariants; to check them too, add `Inv` to `status.cfg` and
`node_control.cfg`.

| Run | Bounds | What it shows |
|---|---|---|
| `dispatch_one_node` | 1 node, 2 sockets, 1 command, 5 answers | `TypeOK`, `TruthfulResult`, implements `CommandPromise` (`KeepsPromise`), `CommandEnds`, `GoneIsForgotten` |
| `dispatch_two_nodes` | 2 nodes, 2 sockets, 1 command, 1 answer, enabled rows | `RegistryLive`, `PendingConnected`, `PendingExact`, `Inv` |
| `reconnect_loses_registration` | 1 node, 2 sockets | violates `ReconnectKeepsRegistration` |
| `autoplay` | 2 spots, sequences ⟨a,b,a⟩ ⟨b⟩ ⟨⟩, intervals 1 and 2, grace 1, 6 operations, failures and crashes | the safety of autoplay, `PlaysSuccessor`, `KeepsPlaying` |
| `autoplay_lost_on_restart` | same, 3 operations | violates `ReloadsAfterRestart` |
| `status` | 1 node, 2 sessions, 2 reports, stale 2, offline 3, sweep period 1, 5 HELLOs and crashes | `OnlineIsRecent`, `OfflineIsIdle`, `QuietGoesOffline`, `AliveGoesOnline` |
| `sqlite_never_offline` | same, 1 report, 2 HELLOs and crashes, times without zone | violates `QuietGoesOffline` |
| `enrollment` | 2 admin threads, 2 rows, 4 codes and tokens, failures and crashes | `KeyMatchesStatus`, `KeyNotLost`, `Inv`, `DecidedOnce` |
| `double_approval` | 2 admin threads, 1 row, 3 codes and tokens | violates `ApprovalDelivers` |
| `spots` | 2 spots, 2 threads, retention 2, link 2, 6 uploads, updates, failures and crashes | `ActiveHasFile`, `OfferHonoured`, `DeletedLeavesNoFile`, `Inv`, `InactiveIsCleaned` |
| `node_control` | 2 sockets, 1 flag, 4 catalogue versions of which one is empty, 1 frame unread before an admin's | `KnowsFlags`, `SyncHonoured`, `SyncsInOrder` |
| `login_limiter` | 2 threads, 1 address, 2 user names, 2 attempts, window 2, lockout 3 | `FailuresLimited`, `Inv`, `LockedForCause` |

Why the bounds suffice. Two sockets are what a reconnect needs: the old connection
and the new, and slots are reused, so a run contains any number of reconnects. One
command shows everything a future can go through, because the table is keyed by node
*and* command; the proofs cover overlapping commands. Two nodes let one fail while
the other is awaited. Intervals of 1 and 2 and a grace of 1 separate "not yet due",
"due", "late" and "too late". Thresholds 2 and 3 with period 1 separate the sweep's
three bands with a sweep in each. Two rows let one request expire or be refused and
another follow; two threads and six operations let two updates of a spot overlap a
sweep that is then cut short; four secrets are two pairing codes and two tokens, or
one and three, so an approval can be lost in a crash and repaired, meet another or a
token entered by hand, or concern one of two requests (five, which take four times
as long, show nothing else). The flags of a node go in separate frames and are
compared one by one, so one flag shows what two would; the frames of a greeting
never wait for `MaxWire`, which only makes admins wait: with the two of a greeting
up to three frames are unread at once, and a frame that is read later changes
nothing on the server's side. Three changes of the catalogue give versions 0, 2 and
3 with a spot and 1 without, so a list can be too old without being empty, and a
catalogue be emptied between HELLO and the list. Six operations on autoplay are a
start, two that race a tick, and failures or a crash after them; they also bound the
manual plays, which `KeepsPlaying` needs to be finite. Two threads are what it takes
to meet in a deque; three would only add one to the bound of `FailuresLimited`,
which is stated for any number. The bounds named in guards are `MaxOps`,
`MaxSessions`, `MaxRows`, `MaxSecrets`, `MaxChanges` and `MaxWire`;
`CommandDispatch`, `LoginLimiter` and autoplay's time need none. `CHECK_DEADLOCK
FALSE` appears only where `MaxSecrets` and `MaxRows` really end the run: a node that
is enrolled has nothing left to do. `AllEnabled` restricts the two-node run to
enabled rows; what the other rows do is in the one-node run.

Fairness. `CommandDispatch`: the event loop starves no ready coroutine, each
`wait_for` has a timer, and a send ends because uvicorn's keepalive breaks a
connection that does not drain; nothing is assumed of nodes, admins or peers.
`AutoplayScheduler`: time passes, due jobs run, a tick and a manual play end, which
is `CommandEnds` of the first module; restarts and admins are not fair, and failures
are as many as `MaxOps` lets through: `KeepsPlaying` holds where none broke the
chain. `NodeStatus`: transactions end, the sweep runs when due, a supervisor
restarts the process (`deploy/systemd`), time passes; nodes are not fair.
`SpotCatalog`: time passes and the scheduler starts the sweep again and again;
admins are not fair. The same bound `MaxOps` makes failures finite there: a sweep
that failed for ever would clean nothing. `Enrollment`, `NodeControl` and
`LoginLimiter` have safety properties only, and no fairness.

### Where the code and its documents part

Four runs end in a counterexample; `PROJECT.json` quotes the documents. A replaced
handler unregisters its successor (`manager.py:31`). A restart past the grace time
leaves autoplay enabled and unarmed (`scheduler_service.py:70`). On SQLite no
node ever goes offline by silence (`node_service.py:348`). Two approvals of one
request lock the node out (`enrollment_service.py:164`).

The same models admit further behaviours that have no run of their own: an edit
opened before a stop and saved after it, which is accepted because start and stop do
not move the revision, and starts autoplay again (`scheduler_service.py:122`); a
spot activated under a sweep, which loses its file and then its row
(`retention_service.py:33`), or after a sweep that was cut short, which is then
active without a file (`retention_service.py:44`); a file left by an upload whose
commit failed, which nothing removes (`spot_service.py:78`); a PLAY sent to a node
disabled during the dispatch (`playback_service.py:107`); a tick that replaces a
manual play while a slow node is awaited (`playback_service.py:172`); a tick whose
dispatch or commit raises, also the commit of a skip, and arms nothing, which
`ArmedOrBroken` excepts by `broken = "raised"` (`scheduler_service.py:266, 274,
305`); a start, stop or edit whose refresh raises, which leaves the job of before
(`scheduler_service.py:140`); a sequence that skips when a spot is deactivated, for
`PlaysSuccessor` starts afresh then (`scheduler_service.py:290`); a row shown
offline and playing after a race, which `OfflineIsIdle` excepts by `raced`
(`node_service.py:350`); an approval that overwrites a rejection committed
meanwhile, which `DecidedOnce` excepts by `contested` (`enrollment_service.py:160`);
two pending rows of one node, whose device polls one of them only: if the other is
approved the token stays in a row nobody polls, and since the node is known by then
a new request is refused, which `KeyNotLost` excepts by `stray`
(`enrollment_service.py:70`); the same after a lost answer to a request that renewed
the code; a node that a quick restart shows online before it has reconnected, by the
heartbeat of the previous process, where
`Distributed_Spot_Controller_Implementation_QA_Answers.md:90` has it reconnect first
(`node_service.py:375`); a SET_ENABLED that reaches a reconnecting node before a
REGISTER_ACK with the flags from before it, so that the node goes by the old flag
until the next change (`endpoint.py:40`), and provisioning that changes flags
without a frame (`nodes.py:49`), which `KnowsFlags` excepts by `missed`; a failed
login that a race in `_prune` loses or that ends in an IndexError
(`auth_service.py:42`), which `FailuresLimited` excepts by `raced`.

## 4. The proofs

All theorems hold for every value of the constants that satisfies the module's
named assumption (`DispatchAssumption`, `SchedulerAssumption`,
`NodeStatusAssumption`, `EnrollmentAssumption`, `SpotCatalogAssumption`,
`NodeControlAssumption`, `LoginLimiterAssumption`), which TLC evaluates in every
run of the module. They ask for types and for the relations of thresholds that
section 2 names. `NoSweepAssumption`, `NoTransactionAssumption`,
`NoSettingsAssumption` and `NoLoginAssumption` say only that `None` is not a record.

Every module's argument has the same shape: the type invariant, then an inductive
`Inv` with a lemma per action or group of actions, from which the named
properties follow. Where a property is about a step, it follows from `Inv` and the
same lemmas.

* `CommandDispatchProofs`: `TypeCorrect`, `Consistent` (`Inv`).
  `RegistryLive`, `PendingConnected`, `PendingExact` and
  `TruthfulResult` are not inductive alone: that a cancelled or settled future
  belongs to a command still under way needs `FutureHistory`; that the command
  awaited is the one recorded needs `SuspendedOn`; that a finally block removes
  its own node needs `AnonymousBeforeHello`. `Inv` is their conjunction, and the
  named properties follow from it.
* `CommandPromiseProofs`: `DispatchKeepsPromise`. The initial states map to
  initial states and every step maps to a step of `CommandPromise` or a stutter,
  with `Inv` and `TypeOK` as the strengthening.
* `AutoplaySchedulerProofs`: `TypeCorrect`, `SchedulerConsistent` (`Inv`) and
  from it `StoppedStaysStopped`, `JobIsStored`, `ChainUnbroken` and
  `SuccessorIsPlayed`. The
  strengthening is that the row has a next_run_at exactly while it is enabled, and
  never further ahead than its interval (so that `Restart` arms something, in time),
  that row and job disagree only after a refresh that raised, that a tick that has
  just chosen has seen `enabled`, and that a process that is down has no job.
  `TypeCorrect` needs what `Kept` returns for a sequence of any
  length; without an induction over data this is shown from the shortest
  counterexample, which well-foundedness of the numbers gives. `SuccessorIsPlayed`
  needs that one position after another in a sequence is what the index modulo the
  length counts.
* `NodeStatusProofs`: `TypeCorrect`, `Consistent`, `OfflineWasCleared`, and
  `OnlineWasSeen`, which is `OnlineIsRecent` if the database returns times with their
  zone (it fails if not; `sqlite_never_offline` shows the effect). The strengthening
  is about the copies that open transactions hold: what a handler has read of the two
  times is still in the row (`HandlerHonest`), a sweep writes what `Swept` made of
  what it read, and whatever came online since was seen (`SweepHonest`), so a
  commit that overwrites another's columns brings no old row online; and the age
  of an online row is bounded by the time since the last sweep (`RecentSinceSweep`).
* `EnrollmentProofs`: `TypeCorrect`, `Consistent`, `KeysMatch`, `TokenCanBeHad`
  and `DecisionsStand`. A commit writes some columns over a row that has changed
  since it was read, so the invariant says what an open transaction can be
  (`Shapes`), that no row goes back to a status it has left (`RowsAdvance`), and that
  a generated token is known nowhere before it is the node's (`KeysFresh`). A request
  no two open decisions met over has one decision and one key (`OneDecision`), and
  the token is with the node, in the row it polls under its code, or on its way there,
  and the node has no reason to ask for another (`TokenHeld`).
* `SpotCatalogProofs`: `TypeCorrect`, `CatalogConsistent` (`Inv`) and from it
  `PlayedSpotsHaveFiles`, `LinksAreHonoured` and `DeletedMeansGone`. The strengthening
  is that a missing file is the work of a sweep (`MissingFileIsKnown`), that what a
  sweep holds is inactive and has no link unless it is torn (`SweepHolds`), and that
  age and link of an inactive spot add up to no more than the lifetime of a link
  (`LinksExpireFirst`), which is where a retention longer than that is needed.
* `NodeControlProofs`: `TypeCorrect`, `Consistent`, `FlagsAreTold`,
  `SyncIsHonoured` and `ListsComeInOrder`. `KnowsFlags` speaks of a
  wire of any length: the lemmas say what an appended frame and a frame that is read
  do to `Tells`, `Lists` and `Ordered`. The strengthening is that a handler that waits
  for the close of an old socket holds the row's flags or has missed a change
  (`Waiting`), that there is room for its two frames (`WireHasRoom`), and that
  the versions on a wire ascend from the one held to the current one (`Ordered`).
* `LoginLimiterProofs`: `TypeCorrect`, `Consistent`, `FailuresAreLimited` and
  `LockedOutForCause`, for any number of threads. Without a race a key has one deque
  (`OneDeque`), times in it are oldest first, and it ends in the failures no lockout
  was for yet, after outdated times only (`NothingLost`, `Pruned`); so a thread that
  counts to the limit counts these. The failures that were paid for are over when
  the lockout is (`PaidFirst`), which is where a lockout longer than the window is
  needed. Only threads that have appended and not counted, or were let in before the
  lockout, can take a deque or a log over the limit (`Limits`), and there are no
  more of them than threads: an argument on the cardinality of their set.

Model-checked only: what needs fairness (`CommandEnds`, `GoneIsForgotten`,
`KeepsPlaying`, `QuietGoesOffline`, `AliveGoesOnline`, `InactiveIsCleaned`), since
TLAPS handles neither liveness under fairness nor ENABLED; and the four
counterexamples. What the exceptions of the properties (`raced`, `contested`,
`torn`, `missed`, `stray`, `broken`) leave out is proved of none of them, nor would a
run see it get worse: section 3 lists what the code does there, and a hazard that
lies wholly in an exception names no property in `PROJECT.json`.

## 5. Not modelled

The choice of autoplay targets (a query over the flags, made once per tick);
display data; the event log (append-only, read only for display); settings,
schemas, migrations and scripts (declarations); the validation of uploads, the
signatures of links and of session and CSRF tokens, of which the server keeps
nothing; the deletion of old events; which messages the protocol's schemas refuse.
Times without a zone are modelled for the sweep only: on SQLite a next_run_at that
was refreshed from the database (`scheduler_service.py:160`) is read as local time
by the scheduler, which the autoplay model does not have.

## 6. Plan

Done: the command path with its abstract promise; autoplay; node status;
enrollment, with two admins and crashes; spots and retention; node control; the
login limiter; and the proofs of all of them.

Next: times without a zone in `AutoplayScheduler`, and the choice of autoplay
targets as a composition with the flags of `NodeControl`; of the long proofs
(`EnrollmentProofs`, `LoginLimiterProofs`), one lemma for the steps that a thread
takes alone instead of one for each conjunct.
