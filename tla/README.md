# Verification of ha-samsungtv-frame

TLA+ modules, TLC configurations and TLAPS proofs for the Home Assistant
integration in `src/custom_components/samsung_tv_frame` (Samsung Frame TVs). All
paths below are relative to that directory unless they start with `src/`.

## 1. Inventory

The integration is a single-threaded asyncio program. Its concurrency is that of
tasks interleaving at `await`s: coordinator polls, which may overlap, user service calls,
push events delivered by the Art receiver task, a connect task, a close task, a
stop task, and remote-control operations. The TV, the network and the owner of the
tasks (Home Assistant, which may cancel them) are the environment.

| Component | State it keeps | Operations | Hard behaviour |
|---|---|---|---|
| `ArtSession` (`art_session.py`) | lifecycle state, failure counters, retry deadline, generation, connect / close / stop tasks | start, observe_power, ensure_ready, connection_failed, stop | single-flight tasks joined by many callers, cancellation of callers and of owners, stop racing a connect, a close queued behind a handshake |
| `FrameArt` (`frame_art.py`) | connection, receiver task, lifecycle lock, operation lock, pending responses, transfers | open, start_listening, request, upload, get_thumbnail, close, receive loop | response correlation (by id, or uuid-less), timeouts that close the socket, a receiver that ends at any time |
| Coordinator (`coordinator.py`) | cached Art fields with revisions, fail streak, OFF debounce, reconcile window, seen generation | poll, push event, session-state callback, wake probe | pushes that arrive while a reconcile awaits an older answer; windows reserved before I/O |
| Device facade (`device.py`) | dialect choices, stopped / quiescing flags, active remote operation | art reads and mutations, dialect discovery, remote commands, UPnP, stop | dialects valid for one generation only; retry once on a stale remote socket; drain on unload |
| Remote (`frame_remote.py`) | remote websocket, token | open, send, close, stop | close racing an open |
| Entry lifecycle (`__init__.py`) | runtime data, platforms | setup, unload, resume | partial failure of setup and of unload |
| Pairing (`config_flow.py`) | flow step, two temporary websockets | user, pair, reauth, reconfigure | cancellation at any await, also during the cleanup |
| TV mode, settings parsing (`models.py`, `art_settings.py`) | none | pure functions | precedence of REST power over Art evidence |
| Picture (`image.py`) | cached picture and its artwork, timestamp | coordinator update, async_image | downloads that overlap and end in any order |
| Other entities, `rest.py`, `websocket_privacy.py`, diagnostics | last value | thin | stale values hidden |

What makes each correct is listed with the module that models it, below, and at
the source lines in PROJECT.json under "hazards".

## 2. Modules

| Module | Models |
|---|---|
| `ArtSession` | the session, the lifecycle lock with open and close of the transport, and the device operations that use the socket |
| `ArtLifecycle` | the abstract promise: one websocket, drained with its transfers before the next, none after the stop |
| `MCArtSession` | a small instance of `ArtSession`, and the schedules without slack |
| `ArtSessionProofs` | TLAPS theorems about `ArtSession` |
| `FrameCoordinator` | the poll, the reconciliation, the pushes, what is published, and the TV they describe |
| `MCFrameCoordinator` | small instances of `FrameCoordinator` |
| `FrameCoordinatorProofs` | TLAPS theorems about `FrameCoordinator` |
| `DialectDiscovery` | what a silent or refusing TV is concluded to speak, when silence costs the session, and the slideshow writes that go by it |
| `MCDialectDiscovery` | small instances of `DialectDiscovery` |
| `DialectDiscoveryProofs` | TLAPS theorems about `DialectDiscovery` |
| `RemoteControl` | the serialised remote operations, their websocket, and the entry's unload and stop |
| `RemoteService` | the abstract promise: one operation at a time, its commands in order and each at most twice, success only when the last round went out to its end, none once admission is closed |
| `MCRemoteControl` | small instances of `RemoteControl` |
| `RemoteControlProofs` | TLAPS theorems about `RemoteControl` |
| `ArtRequests` | requests, uploads and thumbnails on one websocket, the dispatch of answers, and `close` with its drains |
| `MCArtRequests` | the pairs of operations `ArtRequests` is checked with |
| `ArtRequestsProofs` | TLAPS theorems about `ArtRequests` |
| `Pairing` | `validate_and_pair`: two temporary websockets and their cleanup |
| `FrameEntry` | a config entry through its pairings, set-ups and unloads, with the stop of each device it builds |
| `MCFrameEntry` | a small instance of `FrameEntry` |
| `FrameEntryProofs` | TLAPS theorems about `FrameEntry` and `Pairing` |
| `ArtSettings` | the parsers of `art_settings.py`, and what an answer denotes |
| `ArtSettingsProofs` | TLAPS theorems about the parsers |
| `FrameEntities` | the controls of the Art settings and the picture, over the data that overlapping polls publish |
| `MCFrameEntities` | small instances of `FrameEntities`, and the values and answers the parsers are checked on |
| `FrameEntitiesProofs` | TLAPS theorems about `FrameEntities` |

A definition whose comment or place says it is a faulty variant (`MayStoreAlways` before
`MayStore`) is what the code would be with a plausible bug; it is there to show that
a property notices, and no action uses it.

### ArtSession

Each action is the code between two awaits. `retry` groups `_failure_count`,
`_host_failure_count` and `_next_retry_at`; time is abstracted to `retry.armed`, the
nominal delay still to elapse (jitter only moves that moment, so it is left out).
Counters saturate where the code stops telling values apart (the length of the
delay table; three hostless failures). `closeTask` is `_close_task` with the way it
finished, and `join[w]` is caller `w` inside `_close_transport`: waiting, or with a
result it has still to see. The lifecycle lock is a holder and a FIFO queue, as
`asyncio.Lock` is. `conn` and `receiver` are the transport; `conn = "lost"` is a
socket the peer closed whose receiver has not noticed yet.

A task Home Assistant starts eagerly takes a free lock at once. The model takes the
lock in a step of its own, so it has more interleavings than the code: sound for
what is shown to hold. For the run that refutes a claim it is not, so that one uses
`PromptSpec`, which takes a free lock (and fails a request whose receiver ended)
before anything else: all of its behaviours are real schedules.

Fairness (`FairSpec`): tasks take their steps, deadlines fire, the receiver of a
closed socket ends (all of them guaranteed by the event loop and by the timeouts
around every await), and the coordinator keeps polling a TV that answers and
reports `on` or `standby` (an assumption about the TV; without it no recovery is
attempted by design). Nothing is assumed of operations in flight.

### FrameCoordinator

A poll is a chain of awaits and `poll[p].at` names the one it is at, with the locals it
has taken so far; each action is the code that runs when that await ends. `AsyncDeviceInfo`
is the part up to the reconciliation (edges, latest power, the confirmation withdrawn when
the TV leaves `on`, the window reserved before any read), `AsyncGetArtmode` ...
`AsyncGetSlideshowState` are the four reads with their revision and generation guards, and
`PollReturns` publishes. `ArtModePushed`, `ImagePushed` and `GoToStandby` are
`handle_art_event`, which runs without an await; `PollExpires` is the deadline around the
whole poll. `Pollers` are the heartbeat and any number of polls that
`async_request_art_reconcile` starts: Home Assistant puts the first behind a debouncer lock
that the others do not take, so all of them overlap (external: how Home Assistant schedules refreshes).

Every cached or published value carries the number of pushes handled when it was sampled
(`at`), so that "older" is a comparison. Left out: the running app, the volume (both only
an await between computing the mode and publishing it), what the optional snapshots hold,
and `observe_art_power`, whose effect on the session is left to `SessionReady` and
`SessionLost`. `forced` and `begun` are history variables.

Fairness (`FairSpec`): Home Assistant keeps polling, an await ends (each has a deadline),
the clock reaches the end of the window, and an event that was sent on a live session
arrives.

### DialectDiscovery

The environment is a TV that answers every command in one fixed way: a value, a value that
does not parse, an error, or nothing. `Init` picks any such TV. A pass is one poll's run of
`async_get_art_settings` or `async_get_slideshow_state`; its record holds the locals
(generation, `liveness_proven`) and two history fields, the generation of the last answer it heard and
whether the session has been alive since it began. `queued` is the wait for `FrameArt`'s
operation lock: the session may be replaced during it. The user's slideshow writes wait for the
same lock: `AsyncSetSlideshow` picks the command for the generation of that moment, `SendWrite`
has the lock and may find a later session, and a modern command that is refused is `queued` again as
the legacy one. What the TV answers to a write is free. A request that was sent fails when
its session is lost, before another session can open (the receiver fails all waiters, and
`ArtSession` opens nothing until the receiver has ended). `alive` is the half-open case: the
session is ready and nothing answers. `basis`, `verdict` and two fields of `write` are history:
`RoutedByProof` says that the session the write was routed for had proved the dialect and that the
TV speaks it; that this is still the session at hand when the write is sent is not so in the code, and
does no harm while a TV keeps its dialect.

Only the session links the settings and the slideshow, so each TV varies one of them and
answers the other with values.

### RemoteControl

`at[o]` is the await operation `o` is at: queued for `_remote_operation_lock`, in
`FrameRemote.open` (waiting for its lifecycle lock, connecting, handshaking, discarding a
socket that was not published), sending, or resetting before the second attempt. The queue
is first come, first served; the lock is taken in a step of its own, so there are more
interleavings than in the code. `entry` is the task of the config entry: set-up, the quiesce
with its bounded wait for the active operation, the platforms, the stop.

The entry always holds a token (`async_setup_entry` refuses one without); the entry's
token and the adopted `_token` change together and are one variable; tokens are numbered in
the order the TV issues them. A send may swallow one cancellation (`CancelSwallowed`,
as `tests/test_init.py:785` has it), and has no deadline. The heartbeat's two effects are
`AsyncCaptureToken` and `PowerBoundary`.

`RemoteService` is what callers and the TV see of it: calls, the commands the TV has got, and a gate
(open, closing, silent while the platforms unload, stopped). `sent` counts each command of each
operation, at most two of each, and `last` is the command that came last, so that a success after
the middle of a round, or a round that skips a command, is no behaviour of it. The mapping is `Calls`
(the place of an operation), `delivered` (how often the TV has got each command), `heard` (which it
got last) and `Gate` (admission and the phase of the entry).

Fairness (`FairSpec`): the steps of operations and of the entry's task, each of which has a
deadline. A send is only assumed to fail once its socket is gone.

### ArtRequests

`at[o]` is the await operation `o` is at: queued for `_operation_lock`, waiting for an
answer, in the D2D stream, or in the close that its own timeout calls. `leg` is the answer
it awaits: an upload asks for the version, then for a stream (`ready_to_use`), then waits for
`image_added` under the same id; on API 0.97 it sends the image on the websocket and
waits once. `pending` and `uuidless` are the two tables, `waiter[o]` the future. `Addressee` is
`_dispatch_frame`: by id when the frame has one, else by event, errors always. The TV
answers late, refuses, or never answers; an old firmware may leave the id out of an answer
the code expects by event, and of errors (external). `close` is three steps, with the
cancelled transfers and the receiver in between; `Open` is one, since `ArtSession` has its
awaits. `heard`, `on` and `abandoned` are history variables.

Left out: events without an id caused by other clients of the TV (the protocol gives no way
to tell them from an answer), and the time a cancelled task takes beyond its step.

Fairness (`FairSpec`): operations take their steps (each await has a deadline), the close
in progress and the receiver's end are bounded, and the lifecycle lock, an `asyncio.Lock`,
is first come, first served, hence the strong fairness of `CloseBegins`. Nothing is assumed
of the TV, of the session or of callers.

### Pairing and FrameEntry

`flow` is the await of `validate_and_pair`; `temp[c]` says how far the temporary websocket of
client `c` has come, `cleanup[c]` the task that closes it. A deadline is a step that is
enabled whenever the await it bounds is. `Cancelled` delivers a cancellation at every await;
in the cleanup the loop around the shield remembers it. `FrameArt` finishes the close of a
socket it discards, `FrameRemote` aborts it at once: `CancelledDiscarding` has both.

`FrameEntry` extends `Pairing` with the entry: `phase` is the await of set-up or unload,
`current` the device built last; per device `accepting` (`~_stopped`), `callbacks`, the stop of
its Art session (`art`), the admission and stop of its remote (`remote`) and `stopTask`. The callbacks
are four: that of Art events is set first and never cleared, so that a device still stopping may call
its own, discarded coordinator; those of the session state, the token and reauthorisation are withdrawn by
an unload, set again when the platforms refuse it, and withdrawn for good by a failed set-up. A failed
set-up withdraws these three, begins the stop and waits for it at most 13 s
(`CleanupExpires`); the next set-up then builds a device beside one that is still stopping. The two may
both hold a websocket for a moment; what holds is that only the newest opens any.
`StopsRequested` in the guard of `DeviceBuilt`: Home Assistant starts the stop task eagerly, and
a device is built only after an executor job, so a stop that was requested has begun.
Cancellations of the flow, of the unload and of the stop task share one bound. A reload is an
unload and a set-up; a token update (`EntryUpdated`) may come at any phase.
`ArtSession` and `RemoteControl` show that the two halves of the stop end; here they are
`ArtStopEnds` and `RemoteStopEnds`. That a stop once begun completes whoever cancels is what
`docs/superpowers/specs/2026-07-13-art-session-recovery-design.md:125` promises.

Fairness (`FairSpec`): set-up, unload, stop and pairing take their steps (each await has a
deadline). Nothing obliges the user, Home Assistant or the TV.

### ArtSettings and FrameEntities

`ArtSettings` has the parsers as pure operators. A JSON value is a record of what the parsers
look at: its type, `str(value)`, that in lower case, and what `int(value)` reads. The
reference (`Denoted`, `SettingsOf`, `SlideshowOf`) says which setting an answer denotes without
saying how to read it: the one that is written like the value, for a key that occurs once. `IsValue` says what Python grants of such
a record, `IsAnswer` of a list of items.

`FrameEntities` has what Home Assistant shows. An entity computes its state when the coordinator
calls its listeners: when what a poll publishes differs from the data or the success the poll began
with (`always_update` is False), and at each push. `poll[p]` is what poll `p` remembers of its beginning;
polls overlap, since a forced one takes no lock, and pushes come between, so this need not be what is
published when it ends. `control` is the state of one control; `moved` that `image_last_updated` has
moved since the frontend last looked; `request[r]` a call of `async_image`, of which
several may overlap, since the streams of thumbnails are not under the operation lock;
`displayed` the picture of the newest call. A poll reads, caches and publishes as it ends: the
races of the reads inside it are `FrameCoordinator`'s. External: the frontend, which downloads when the timestamp moves and
ignores the answer to an older download. `Answers` are what this TV says; `Lists` and
`Slideshows` are further inputs the parsers are compared on (`ParsersFaithful`). `Denotations`
is what the answers denote, the only values `Parsed` lets the cache, the data and the control have.
`ControlCatchesUp` is what is left to a control when polls overlap: it follows the TV if they never did,
or, once they have ceased to, when the data go on changing; `ControlShowsReadback` is finding 4.

Fairness (`FairSpec`): `PollFairness`, that polls go on, each ends at its deadline (`[]<>` not in flight), and
a poll that could read does so in the end (strong fairness: it does not miss its deadline for ever); and
`PictureFairness`, that the frontend looks and a download ends.

## 3. Runs
| Run | Shows | Bounds |
|---|---|---|
| `session` | every wait has a task that ends it, and none is circular (`TasksOwned`), `OneSocket`, `StoppedIsFinal`, `BackgroundPaced`, and that the session implements `ArtLifecycle` | two operations, one of them a transfer; two generations, one cancellation by the owner |
| `session_live` | `StopTerminates`, `RecoveryResumes`, `LossNoticed` and `OpsReleased` | one operation |
| `coordinator` | no reconciliation goes back behind a push (`NewerPushStands`), optional snapshots belong to the ready generation (`OptionalCurrent`), no request is swallowed (`RequestKept`), reconciliations are paced though polls expire (`ReconcilePaced`), a learned standby wins (`StandbyWins`), one lost answer is no OFF (`OneLossIsNotOff`), the published mode converges, and a dead art channel surfaces | one change of the TV, two sessions, and either the heartbeat alone with two faults, or with it one forced poll and a TV that stays up (`FaultsOrRequests`) |
| `dialect` | a dialect is true of the TV; silence retires only the session that was silent; a TV that answers keeps its session; a write that skips the fallback goes by proof (`RoutedByProof`) | two passes and a write, two sessions, every TV |
| `remote` | it implements `RemoteService`; no socket after the stop, no command once the unload has drained, a token saved before a command; an unload settles and a stop frees every operation | two operations of two commands, two tokens, two unloads |
| `requests` | an answer ends its own operation, unless another was given up or was itself answered wrongly (`AnswerIsOwn`), no waiter is left over, nobody waits on a dead connection, no connection is opened over an operation of the last, a successful close leaves nothing, and every operation ends | two operations (an upload beside each other kind, or two favourite changes), two connections, callers cancelled at will |
| `entry` | one active device (`OneActiveDevice`), remote operations admitted within the callbacks (`AdmissionHasCallbacks`), a pairing leaves no websocket (`PairingLeavesNothing`), a stop completes whoever cancels it (`StopCompletes`), and set-up, unload and pairing end (`LifecycleEnds`) | two TVs, two devices, one cancellation; an entry to be created, without a token, or complete |
| `entities` | the parsers read what an answer denotes (`Parsed`), the cached picture is its artwork's (`CachedPictureBelongs`), a control follows the TV's setting across sessions and overlapping polls (`ControlCatchesUp`) | 80 values for every key, every list of up to three of six items; two polls, artworks, answers, downloads and sessions, but not all of these at once (`Small`) |

The violation runs are the findings of section 5.

Why the bounds are enough. Two generations of the session, or two connections, let anything
be stale once; a third repeats it. Two operations let one wait or be drained while the other
is in flight; what a third would add is one more behind the same first-come-first-served lock. Two
polls let one end with what it knew before the other ended; the proofs have any number of them. `FaultsOrRequests`
leaves out a forced poll beside a fault, and `Small` two overlapping polls beside two artworks: the safety
properties are proved without either restriction, the liveness properties (`Converges`, `DeadArtSurfaces`,
`ControlCatchesUp`) hold for the schedules within it, which a bound on faults or requests never blocks. Two
faults reach the debounce limit of two. Counters are compared with a limit and kept at it
beyond. The stale-state properties of the coordinator, of the session's sockets and of its
stop are proved without the bounds (section 4).

`CHECK_DEADLOCK FALSE` is in every configuration: once the entry has been unloaded, the
session has stopped or the operations have ended, and the environment's bounds are used up,
the system really stops.

## 4. Proofs
All theorems hold for every value of the constants under the modules' named assumptions
(the operations are any set, the delay tables any sequences, the bounds any numbers).

`ArtSessionProofs`: `TypeCorrect`; `OneSocketAlways`, a handshake is never made while a
connection or a receiver of an earlier generation exists; `StopIsFinal`; `LockAlwaysOwned`;
`CloseAlwaysOwned`; `TasksAlwaysOwned`; `RecoveryPaced`; and `ImplementsLifecycle`, that each step is a step of
`ArtLifecycle` or a stutter.
`StoppedIsFinal` is not inductive: that a connect task which outlives the stop cannot move
the session follows from the lemma `StopInvariant`: the flags `_stopping` and `_started` follow the stop
task, and only a stop that has begun waits for the close. `OneSocket` is inductive by itself:
only a handshake publishes a connection, and it gives the lock up in the same step. `OwnedInv`
ties each seat (the lock, or a place in its queue) to the phase of the task that has it, and
each awaited result to the caller that awaits it; without the seats a close could be cancelled that nobody waits for.
`TasksAlwaysOwned` is the safety half of the liveness properties: `WaitsOwned`, each await has
the task it waits for, and with `LockOwned` it follows (lemma `NobodyIsStuck`) that the waits
are never circular: each chain of waits ends at the holder of the lock, whose await has a deadline,
at the head of its queue, or at a result. `ImplementsLifecycle` rests on `OneSocket` and `StopInv`: that a
transfer begins on a live connection only is why none begins during a handshake.

`FrameCoordinatorProofs`: `TypeCorrect`, `PushesStand`, `OptionalsCurrent`, `RequestsKept`,
`ReconcilesPaced`, `OneLossNeverOff` (for a debounce of two or more) and `StandbyAlwaysWins` (until a
poll is forced), all for any set of polls that overlap (`PollersAssumption` only says that the heartbeat is one). Four inductive invariants carry them. `Ages` orders the stamps: a cached value is not younger
than the last push of its field, the published picture not younger than the cached one, the
optional snapshots not younger than the session. `Paced`: an open window has seen no
reconciliation, a closed one at most one, of the generation reserved. `StandbyInv`: whatever a
poll carries over an await rests on the power it has stored, and it carries art mode only
if that is "on"; `AloneInv` claims it while no poll has been forced, when only the heartbeat is not idle. `UpInv`: of a working TV nothing but its one answer, or a loss that the
counter of failures has seen, is stored or carried.

`FrameEntryProofs`: `TypeCorrect`, `OneDeviceActs`, `AdmittedWithCallbacks` and
`PairingsLeaveNothing`. `PairingInv` says which websockets may exist at each await of a pairing: a websocket
that the cleanup has not marked done is still its business. `DeviceInv` ties the phase of the entry to
how far the current device has come, and its stop task to how far its stop has: that a device is
past `requested` when the next is built is what keeps an older one from opening a connection. Of the
callbacks it says which are withdrawn; the one of Art events never is.

`DialectDiscoveryProofs`: `TypeCorrect`, `ConclusionsRest`, `DialectsStayTrue`, `SilenceIsItsOwn`,
`AnswersKeepSession` and `RoutesAreProved`. A pass concludes at its end from what it saw at several
earlier requests, so the invariant `PassInv` says what a pass may go by at each command: that
the command before was refused or unanswered, and whether anything was heard. All of it is claimed
only while the session the pass began on is the present one, or alive all along (`well`);
a reconnection makes the claim empty, and `_optional_generation_is_current` keeps the
pass from concluding anything. `WriteInv` says of a write, queued or sent, that it goes by nothing or by
what the session it was routed for had proved; no later session can undo that, since the TV speaks one dialect.

`RemoteControlProofs`: `TypeCorrect`, `OneSocketOnly`, `StopLeavesNoSocket`, `AtMostTwice`, `TokenFirst`,
`UnloadingIsSilent` and `ImplementsRemoteService`. `RemoteInv` has a part for each: `OneWorks`, one operation is past the lock, since it is
only taken when none is; `SocketsCounted`, the open sockets are the published one and the
one a handshake has half open; `GateClosed`, admission is closed in
every phase of the entry that relies on it, and nobody is past the lock while the platforms unload;
`TokenSaved`, an operation that sends has its token in the entry; `Counted`, how often each command has
been sent is bounded by the attempt and, in the round that is under way, by the command's place in it; an
operation that succeeded was last heard with its last command. The refinement rests on the same parts: nobody else works when
an operation begins (`OneWorks`), one that sends may send (`GateClosed`), and what it sends next is the first command or the one after
the last, not yet sent twice (`Counted`), and each step of the entry moves the gate as it may be moved (lemma `EntryGate`).

`ArtRequestsProofs`: `TypeCorrect`, `NobodyWaitsInVain`, `OneConnectionAtATime`, `CloseIsComplete` and
`AnswersAreOwn`. Every step of an operation has one of six shapes (it leaves, asks, streams, has
streamed, closes, or closes again; lemma `OpShapes`), so that most invariants look at six cases
and not at every handler. `LinkInv` says what a close in each phase has left of the
connection; `TableInv`, that the table of waiters has one entry at most, the lock holder's; `AskedInv`, that each
request the TV may still answer is awaited, closes the socket, or was given up.

`ArtSettingsProofs`: `NormalizeReadsWhatIsDenoted`, `SlideshowReadsWhatIsSaid` and
`ParseReadsWhatIsDenoted`, the last for answers of any length. The parser folds over the items,
and a fold is a recursive function chosen for its equation (Folds): the proof gives a witness of that
equation, so that the choice satisfies it, and shows for the least number of items on which
fold and denotation could differ that they agree (the order of the naturals is well founded). The
hypotheses are `IsValue` and `IsAnswer`, and that `None` is none of the values (`NoneAssumption`).

`FrameEntitiesProofs`: `TypeCorrect`, `SettingsAreDenoted` and `PictureBelongs`. The parsers'
theorems make every poll store a denotation of an answer. `IInv` is the types, `ControlIsDenoted` and
`CachedPictureBelongs`: a control is computed from published data (lemma `ListenersShow`) or stays as it was,
whatever the polls remember. The cached picture belongs
to its artwork because a download carries the artwork it was started for.

Only model-checked: all liveness properties (fairness and ENABLED are out of the prover's
reach). Proved and in no run, because a run has a better use for its
time: the types of all components, `ConclusionsRestOnAnswers`, and `OneSocket` and `SentAtMostTwice`
of `RemoteControl`.

## 5. Findings
Each is a violation run whose counterexample is a schedule of the code; the quoted claim
is in PROJECT.json.

1. `StopClosesTransport` (code bug): a close requested while a connect task holds the
   lifecycle lock expires and stays as a finished, successful `_close_task` of the session
   the handshake then makes READY. `async_stop` joins that task, closes nothing, and
   returns with the receiver and its socket alive.
2. `NeverLearnedOn2025` (divergence): a 2025 model that enters art mode between two polls
   teaches the coordinator the trait of the 2022-24 models.
3. `PictureCatchesUp` (code bug): two downloads of the picture overlap, the older ends last
   and is cached under its own artwork. When that artwork is selected again its id equals the
   cached one, so `image_last_updated` does not move, and the frontend shows the other artwork
   for as long as the selection stays.
4. `ControlShowsReadback` (code bug): two forced polls overlap. The data say 7; the user sets 5 and then 7;
   both polls begin before either publishes and remember 7. The first publishes 5 and the control
   follows; the second publishes 7, which is the data it began with, so no entity is told: the control
   stays at 5 until another field of the data changes.

Also seen in the models, without a run of their own:

- A slideshow write is routed before it waits for the operation lock, so "this generation's" dialect
  may be an earlier generation's when it is sent (`RoutedByProof` says what holds).
- A learned standby wins over the dying socket as long as nothing forces a poll: one forced
  beside the heartbeat may publish art mode with the power that it asked for before (`StandbyWins`).
- After a failed set-up the device that is still stopping keeps its Art event callback, into a
  coordinator nobody uses any more (`OneActiveDevice`).
- The mode is computed before the app and volume awaits and published after them, over a push
  handled meanwhile; the recovery design (lines 211-212) says a push wins such races. The next
  poll repairs it (`Converges`).
- With LEGACY cached, the aggregate request, whose error was the proof of life, is skipped, and
  two silent getters retire a healthy session at every later pass, against the hotfix design
  (lines 157-159); `AnsweringTvKeepsSession` allows for it. A TV silent to both slideshow
  commands has its session retired at every pass too.
- The operation lock does not keep answers without an id apart when an operation is cancelled by
  its caller: the socket stays open, and the late answer ends the next operation that expects
  the same event (`AnswerIsOwn` allows for it by `GivenUp`, which also has the probes, and for the chain of wrong
  answers that may follow).
- The queued close of 1, when the handshake ends first, tears down the new connection; the next
  failed operation after 1 closes nothing, and the connect task after that counts a generation
  without a handshake. A request that times out closes the transport itself, which the recovery
  design reserves to the session. A push during a learned standby publishes OFF with
  `art_mode` on.
- A picture the TV refuses is never cached, so `image_last_updated` moves at every update of the
  coordinator while it is selected, and the frontend downloads it again each time.

## 6. Not modelled, and the plan
Not modelled, with the reasons, is in PROJECT.json "components": volume and REST queries (single
requests without state), the wake probe (it only brings polls forward), redaction, and of the
entities those that only show fields of the data.

The plan, in order:

1. A composition of `ArtSession` with the callers that report failures, for the loss that is
   counted once per caller.
