--------------------------- MODULE RemoteControl ---------------------------
(***************************************************************************)
(* The remote control channel: the serialised user operations of           *)
(* FrameDevice (device.py), the websocket they share (frame_remote.py),    *)
(* and the set-up, unload and stop of the config entry (__init__.py) that  *)
(* close admission to it.                                                  *)
(*                                                                         *)
(* An operation is one task.  A step is what runs between two awaits; the  *)
(* entry's own task waits for the operation with asyncio.wait, bounded by  *)
(* a deadline, and a deadline is a step that may be taken as long as the   *)
(* awaited thing has not happened.                                         *)
(*                                                                         *)
(* The entry always holds a token, so that the remote exists.  A command   *)
(* is known by its index, a token by the order of issue.  The entry's      *)
(* token and the adopted one (_token) change together and are one          *)
(* variable.  The send of the library may swallow one cancellation; the    *)
(* rest of an operation is cancelled at the await it is at.                *)
(*                                                                         *)
(* A definition named after a defect (AcquireUnchecked, ...) is the faulty *)
(* variant of the one after it; no action uses it.                         *)
(***************************************************************************)
EXTENDS Integers, Sequences

CONSTANTS
  Ops,          \* the tasks of the user's remote operations
  PowerOffs,    \* those that are async_turn_off
  Commands,     \* commands of one operation (a hold is press, pause, release)
  MaxTokens,    \* bound: tokens the TV issues
  MaxUnloads    \* bound: unloads of the entry

ASSUME OpsAssumption == PowerOffs \subseteq Ops
ASSUME CommandsAssumption == Commands \in Nat \ {0}
ASSUME RemoteBoundsAssumption == MaxTokens \in Nat /\ MaxUnloads \in Nat

VARIABLES
  at,            \* the await an operation is at, or how it ended
  attempt,       \* its attempt, 1 or 2
  next,          \* commands sent in this attempt
  why,           \* why the handshake socket is being discarded
  queue,         \* waiters of _remote_operation_lock, first come first served
  conn,          \* FrameRemote.connection is a socket
  remoteToken,   \* FrameRemote.token
  remoteStopped, \* FrameRemote._stopped
  stored,        \* the token in the config entry, adopted as _token
  confirmed,     \* remote_confirmed
  quiescing,     \* _remote_quiescing
  stopped,       \* FrameDevice._stopped
  callbacks,     \* the token and reauthorization callbacks are set
  entry,         \* what the entry's own task is doing
  joins,         \* the operation it waits for (none or one)
  unloads,       \* the bound used up
  sockets,       \* history: sockets open to the remote channel
  delivered,     \* history: how often each command of an operation was sent
  heard          \* history: the one sent last; 0 before the first

opVars == <<at, attempt, next, why, queue>>
remoteVars == <<conn, remoteToken, remoteStopped, sockets>>
gateVars == <<quiescing, stopped, callbacks>>
entryVars == <<gateVars, entry, joins, unloads>>
sentVars == <<delivered, heard>>
vars == <<opVars, remoteVars, stored, confirmed, entryVars, sentVars>>

-----------------------------------------------------------------------------
(* Definitions on the state.                                               *)

\* _active_remote_operation and the holder of _remote_operation_lock.
Working == {"opening", "connecting", "handshaking", "discarding",
            "sending", "resetting", "closing"}
Ended == {"ok", "failed"}
Active == {o \in Ops : at[o] \in Working}

\* FrameRemote._lifecycle_lock.
HoldsLifecycle == {"connecting", "handshaking", "discarding", "closing"}
LifecycleFree ==
  entry # "stopClosing" /\ \A o \in Ops : at[o] \notin HoldsLifecycle

Unavailable == stopped \/ quiescing

-----------------------------------------------------------------------------
(* What an operation's task does between two awaits.                       *)

Moves(o, where) == at' = [at EXCEPT ![o] = where]

\* The operation ends; async_turn_off withdraws the confirmation at its end.
Ends(o, how, confirms) ==
  /\ Moves(o, how)
  /\ confirmed' = (confirms /\ o \notin PowerOffs)

\* _request_remote_reauth, and the operation fails.
Reauthorizes(o) == Ends(o, "failed", FALSE)

\* An ordinary transport failure: a second one fails the operation.
RetriesAgain(o) == Moves(o, "resetting") /\ confirmed' = FALSE
Retries(o) ==
  IF attempt[o] = 2 THEN Ends(o, "failed", FALSE)
  ELSE Moves(o, "resetting") /\ confirmed' = FALSE

\* After open: a changed token is persisted, then admission is checked again.
PersistsLate(o, token) ==
  /\ stored' = stored
  /\ IF Unavailable THEN Ends(o, "failed", confirmed)
     ELSE Moves(o, "sending") /\ confirmed' = confirmed
Persists(o, token) ==
  /\ stored' = IF callbacks THEN token ELSE stored
  /\ IF Unavailable THEN Ends(o, "failed", confirmed)
     ELSE Moves(o, "sending") /\ confirmed' = confirmed
PersistRaises(o, token) ==
  /\ callbacks /\ token # stored
  /\ stored' = stored
  /\ Ends(o, "failed", confirmed)
Opened(o, token) ==
  /\ Persists(o, token) \/ PersistRaises(o, token)
  /\ next' = [next EXCEPT ![o] = 0]

-----------------------------------------------------------------------------
(* Admission.                                                              *)

Call(o) ==
  /\ at[o] = "idle"
  /\ IF Unavailable
     THEN Ends(o, "failed", confirmed) /\ queue' = queue
     ELSE /\ Moves(o, "queued")
          /\ queue' = Append(queue, o)
          /\ confirmed' = confirmed
  /\ UNCHANGED <<attempt, next, why, remoteVars, stored, entryVars, sentVars>>

TakesLock(o) ==
  /\ at[o] = "queued"
  /\ queue # <<>> /\ Head(queue) = o
  /\ Active = {}
  /\ queue' = Tail(queue)
  /\ UNCHANGED <<next, why, remoteVars, stored, entryVars, sentVars>>
AcquireUnchecked(o) ==
  /\ TakesLock(o)
  /\ Moves(o, "opening") /\ confirmed' = confirmed
  /\ attempt' = [attempt EXCEPT ![o] = 1]
\* Admission is checked again with the lock held.
Acquire(o) ==
  /\ TakesLock(o)
  /\ IF Unavailable
     THEN Ends(o, "failed", confirmed) /\ attempt' = attempt
     ELSE /\ Moves(o, "opening") /\ confirmed' = confirmed
          /\ attempt' = [attempt EXCEPT ![o] = 1]

-----------------------------------------------------------------------------
(* FrameRemote.open.                                                       *)

OpenRefused(o) ==
  /\ at[o] = "opening" /\ LifecycleFree /\ remoteStopped
  /\ Retries(o)
  /\ UNCHANGED <<attempt, next, why, queue, remoteVars, stored, entryVars,
                 sentVars>>

OpenReuses(o) ==
  /\ at[o] = "opening" /\ LifecycleFree /\ ~remoteStopped
  /\ conn
  /\ Opened(o, remoteToken)
  /\ UNCHANGED <<attempt, why, queue, remoteVars, entryVars, sentVars>>

OpenStarts(o) ==
  /\ at[o] = "opening" /\ LifecycleFree /\ ~remoteStopped
  /\ ~conn
  /\ Moves(o, "connecting")
  /\ UNCHANGED <<attempt, next, why, queue, remoteVars, stored, confirmed,
                 entryVars, sentVars>>

Connect(o) ==
  /\ at[o] = "connecting"
  /\ Moves(o, "handshaking")
  /\ sockets' = sockets + 1
  /\ UNCHANGED <<attempt, next, why, queue, conn, remoteToken, remoteStopped,
                 stored, confirmed, entryVars, sentVars>>

ConnectFails(o) ==
  /\ at[o] = "connecting"
  /\ Retries(o)
  /\ UNCHANGED <<attempt, next, why, queue, remoteVars, stored, entryVars,
                 sentVars>>

\* The TV accepts, and may issue a new token with its answer.
Issues == {remoteToken} \cup {t \in {remoteToken + 1} : t <= MaxTokens}
HandshakeAcceptsStopped(o) ==
  /\ at[o] = "handshaking"
  /\ \E token \in Issues : remoteToken' = token /\ Opened(o, token)
  /\ conn' = TRUE
  /\ UNCHANGED <<attempt, why, queue, remoteStopped, sockets, entryVars,
                 sentVars>>
HandshakeAccepts(o) ==
  /\ at[o] = "handshaking" /\ ~remoteStopped
  /\ \E token \in Issues : remoteToken' = token /\ Opened(o, token)
  /\ conn' = TRUE
  /\ UNCHANGED <<attempt, why, queue, remoteStopped, sockets, entryVars,
                 sentVars>>

\* The TV refuses (timeOut, unauthorized), or the handshake fails or is late.
HandshakeFails(o) ==
  /\ at[o] = "handshaking"
  /\ \E reason \in {"pairing", "failure"} : why' = [why EXCEPT ![o] = reason]
  /\ Moves(o, "discarding")
  /\ UNCHANGED <<attempt, next, queue, remoteVars, stored, confirmed, entryVars,
                 sentVars>>

\* The unpublished socket is closed, or aborted when it cannot be.
Discarded(o) ==
  /\ at[o] = "discarding"
  /\ sockets' = sockets - 1
  /\ CASE why[o] = "pairing"   -> Reauthorizes(o)
       [] why[o] = "failure"   -> Retries(o)
       [] why[o] = "cancelled" -> Ends(o, "failed", confirmed)
  /\ UNCHANGED <<attempt, next, why, queue, conn, remoteToken, remoteStopped,
                 stored, entryVars, sentVars>>

-----------------------------------------------------------------------------
(* The commands, and the one retry.                                        *)

SendCommand(o) ==
  /\ at[o] = "sending" /\ next[o] < Commands
  /\ conn
  /\ next' = [next EXCEPT ![o] = @ + 1]
  /\ delivered' = [delivered EXCEPT ![o][next'[o]] = @ + 1]
  /\ heard' = [heard EXCEPT ![o] = next'[o]]
  /\ UNCHANGED <<at, attempt, why, queue, remoteVars, stored, confirmed,
                 entryVars>>

SendFails(o) ==
  /\ at[o] = "sending" /\ next[o] < Commands
  /\ Retries(o) \/ Reauthorizes(o)
  /\ UNCHANGED <<attempt, next, why, queue, remoteVars, stored, entryVars,
                 sentVars>>

SendCompletes(o) ==
  /\ at[o] = "sending" /\ next[o] = Commands
  /\ IF Unavailable THEN Ends(o, "failed", confirmed) ELSE Ends(o, "ok", TRUE)
  /\ UNCHANGED <<attempt, next, why, queue, remoteVars, stored, entryVars,
                 sentVars>>

OpensAgain(o) ==
  /\ Moves(o, "opening")
  /\ attempt' = [attempt EXCEPT ![o] = 2]
  /\ confirmed' = confirmed

\* _async_reset_remote and FrameRemote.close.
Reset(o) ==
  /\ at[o] = "resetting" /\ LifecycleFree
  /\ IF conn THEN Moves(o, "closing") /\ UNCHANGED <<attempt, confirmed>>
     ELSE OpensAgain(o)
  /\ UNCHANGED <<next, why, queue, remoteVars, stored, entryVars, sentVars>>

Closed(o) ==
  /\ at[o] = "closing"
  /\ OpensAgain(o)
  /\ conn' = FALSE
  /\ sockets' = IF conn THEN sockets - 1 ELSE sockets
  /\ UNCHANGED <<next, why, queue, remoteToken, remoteStopped, stored,
                 entryVars, sentVars>>

\* A close that fails keeps the socket and fails the operation.
CloseFails(o) ==
  /\ at[o] = "closing"
  /\ Ends(o, "failed", confirmed)
  /\ UNCHANGED <<attempt, next, why, queue, remoteVars, stored, entryVars,
                 sentVars>>

-----------------------------------------------------------------------------
(* Cancellation of the awaited operation, delivered where it stands.       *)

CancelDiscards(o) ==
  /\ at[o] = "handshaking"
  /\ Moves(o, "discarding")
  /\ why' = [why EXCEPT ![o] = "cancelled"]
  /\ UNCHANGED <<confirmed, sockets>>
CancelEnds(o) ==
  /\ at[o] \in Working \ {"handshaking"}
  /\ Ends(o, "failed", confirmed)
  /\ sockets' = IF at[o] = "discarding" THEN sockets - 1 ELSE sockets
  /\ why' = why
CancelSwallowed(o) ==
  /\ at[o] = "sending"
  /\ UNCHANGED <<at, why, confirmed, sockets>>
Cancel(o) == CancelDiscards(o) \/ CancelEnds(o) \/ CancelSwallowed(o)

-----------------------------------------------------------------------------
(* Set-up, unload and stop of the entry.                                   *)

EntryStays == UNCHANGED <<stored, sentVars, attempt, next, queue, conn,
                          remoteToken>>
OperationsStay == EntryStays /\ UNCHANGED <<at, why, sockets>>

SetupDone ==
  /\ entry = "setup"
  /\ entry' = "loaded"
  /\ OperationsStay
  /\ UNCHANGED <<remoteStopped, confirmed, gateVars, joins, unloads>>

\* The synchronous part of async_stop.
StopBegins ==
  /\ entry' = "stopping"
  /\ stopped' = TRUE /\ quiescing' = TRUE /\ confirmed' = FALSE
  /\ OperationsStay
  /\ UNCHANGED <<remoteStopped, joins, unloads>>

SetupFails ==
  /\ entry = "setup"
  /\ callbacks' = FALSE
  /\ StopBegins

\* async_unload_entry and async_quiesce_remote up to its first await.
QuiesceAndJoin ==
  /\ joins' = Active
  /\ IF Active = {}
     THEN entry' = "platforms" /\ callbacks' = FALSE
     ELSE entry' = "quiescing" /\ callbacks' = callbacks
AsyncUnloadEntry ==
  /\ entry = "loaded" /\ unloads < MaxUnloads
  /\ unloads' = unloads + 1
  /\ quiescing' = TRUE /\ confirmed' = FALSE
  /\ QuiesceAndJoin
  /\ OperationsStay
  /\ UNCHANGED <<remoteStopped, stopped>>

Joined == \A o \in joins : at[o] \in Ended

QuiesceJoined ==
  /\ entry \in {"quiescing", "cancelling"} /\ Joined
  /\ entry' = "platforms" /\ callbacks' = FALSE /\ joins' = {}
  /\ OperationsStay
  /\ UNCHANGED <<remoteStopped, confirmed, quiescing, stopped, unloads>>

\* REMOTE_DRAIN_DEADLINE, of the unload and of the stop.
DrainExpiresNever == FALSE
DrainExpires ==
  /\ entry \in {"quiescing", "stopDraining"} /\ ~Joined
  /\ \E o \in joins : Cancel(o)
  /\ entry' = IF entry = "quiescing" THEN "cancelling" ELSE "stopCancelling"
  /\ EntryStays
  /\ UNCHANGED <<remoteStopped, gateVars, joins, unloads>>

\* _restore_callbacks and resume_remote.
RestoreAndResume ==
  /\ entry' = "loaded" /\ joins' = {}
  /\ callbacks' = TRUE
  /\ quiescing' = (quiescing /\ stopped)
  /\ OperationsStay
  /\ UNCHANGED <<remoteStopped, confirmed, stopped, unloads>>

\* REMOTE_CANCEL_DEADLINE of the unload ("Remote operation did not stop"), or
\* the unloading task is itself cancelled.
QuiesceFails ==
  /\ entry \in {"quiescing", "cancelling"} /\ ~Joined
  /\ RestoreAndResume

PlatformsRefuse ==
  /\ entry = "platforms"
  /\ RestoreAndResume

PlatformsUnloaded ==
  /\ entry = "platforms"
  /\ callbacks' = callbacks
  /\ StopBegins

\* _async_stop_remote: the drain, then FrameRemote.async_stop.
AsyncStopRemote ==
  /\ entry = "stopping"
  /\ joins' = Active
  /\ IF Active = {}
     THEN entry' = "stopLock" /\ remoteStopped' = TRUE
     ELSE entry' = "stopDraining" /\ remoteStopped' = remoteStopped
  /\ OperationsStay
  /\ UNCHANGED <<confirmed, gateVars, unloads>>

\* The operation ended, or REMOTE_CANCEL_DEADLINE expired.
StopDrained ==
  /\ \/ entry = "stopDraining" /\ Joined
     \/ entry = "stopCancelling"
  /\ entry' = "stopLock" /\ joins' = {}
  /\ remoteStopped' = TRUE
  /\ OperationsStay
  /\ UNCHANGED <<confirmed, gateVars, unloads>>

StopTakesLock ==
  /\ entry = "stopLock" /\ LifecycleFree
  /\ entry' = IF conn THEN "stopClosing" ELSE "stopped"
  /\ OperationsStay
  /\ UNCHANGED <<remoteStopped, confirmed, gateVars, joins, unloads>>

\* The socket is closed, or aborted after a failure or REMOTE_CLOSE_DEADLINE,
\* which also ends the wait for the lock.
StopReleasesKeeps ==
  /\ \/ entry = "stopClosing"
     \/ entry = "stopLock" /\ ~LifecycleFree
  /\ entry' = "stopped"
  /\ OperationsStay
  /\ UNCHANGED <<remoteStopped, confirmed, gateVars, joins, unloads>>
StopReleases ==
  /\ \/ entry = "stopClosing"
     \/ entry = "stopLock" /\ ~LifecycleFree
  /\ entry' = "stopped"
  /\ conn' = FALSE
  /\ sockets' = IF conn THEN sockets - 1 ELSE sockets
  /\ UNCHANGED <<opVars, remoteToken, remoteStopped, stored, confirmed,
                 gateVars, joins, unloads, sentVars>>

\* The heartbeat of the coordinator: _async_capture_token.
AsyncCaptureToken ==
  /\ entry # "stopped"
  /\ remoteToken # stored
  /\ stored' = remoteToken
  /\ UNCHANGED <<opVars, remoteVars, confirmed, entryVars, sentVars>>

\* The coordinator sees a power boundary and withdraws the confirmation.
PowerBoundary ==
  /\ confirmed /\ confirmed' = FALSE
  /\ UNCHANGED <<opVars, remoteVars, stored, entryVars, sentVars>>

-----------------------------------------------------------------------------

Init ==
  /\ at = [o \in Ops |-> "idle"]
  /\ attempt = [o \in Ops |-> 1]
  /\ next = [o \in Ops |-> 0]
  /\ why = [o \in Ops |-> "failure"]
  /\ queue = <<>>
  /\ conn = FALSE /\ sockets = 0
  /\ remoteToken = 0 /\ stored = 0
  /\ remoteStopped = FALSE /\ stopped = FALSE /\ quiescing = FALSE
  /\ confirmed = FALSE /\ callbacks = TRUE
  /\ entry = "setup" /\ joins = {} /\ unloads = 0
  /\ delivered = [o \in Ops |-> [c \in 1..Commands |-> 0]]
  /\ heard = [o \in Ops |-> 0]

\* The steps of an operation that a deadline or the loop itself bounds.
BoundedStep(o) ==
  \/ Acquire(o) \/ OpenRefused(o) \/ OpenReuses(o) \/ OpenStarts(o)
  \/ Connect(o) \/ ConnectFails(o) \/ HandshakeAccepts(o) \/ HandshakeFails(o)
  \/ Discarded(o) \/ SendCompletes(o) \/ Reset(o) \/ Closed(o) \/ CloseFails(o)

EntryStep ==
  \/ QuiesceJoined \/ DrainExpires \/ QuiesceFails
  \/ PlatformsRefuse \/ PlatformsUnloaded
  \/ AsyncStopRemote \/ StopDrained \/ StopTakesLock \/ StopReleases

Next ==
  \/ \E o \in Ops : Call(o) \/ BoundedStep(o) \/ SendCommand(o) \/ SendFails(o)
  \/ SetupDone \/ SetupFails \/ AsyncUnloadEntry \/ EntryStep
  \/ AsyncCaptureToken \/ PowerBoundary

Spec == Init /\ [][Next]_vars

\* A send has no deadline of its own: it must end only when its socket is gone.
FairSpec ==
  /\ Spec
  /\ WF_vars(EntryStep)
  /\ \A o \in Ops : WF_vars(BoundedStep(o)) /\ WF_vars(~conn /\ SendFails(o))

-----------------------------------------------------------------------------
(* Properties.                                                             *)

Places == {"idle", "queued"} \cup Working \cup Ended
EntryPlaces == {"setup", "loaded", "quiescing", "cancelling", "platforms",
                "stopping", "stopDraining", "stopCancelling", "stopLock",
                "stopClosing", "stopped"}
\* The variables stay in the sets the code keeps them in.
TypeOK ==
  /\ at \in [Ops -> Places]
  /\ attempt \in [Ops -> {1, 2}]
  /\ next \in [Ops -> 0..Commands]
  /\ why \in [Ops -> {"pairing", "failure", "cancelled"}]
  /\ queue \in Seq(Ops)
  /\ conn \in BOOLEAN /\ remoteStopped \in BOOLEAN
  /\ remoteToken \in Nat /\ stored \in Nat
  /\ confirmed \in BOOLEAN /\ quiescing \in BOOLEAN
  /\ stopped \in BOOLEAN /\ callbacks \in BOOLEAN
  /\ entry \in EntryPlaces /\ joins \subseteq Ops
  /\ unloads \in Nat /\ sockets \in Int
  /\ delivered \in [Ops -> [1..Commands -> Nat]]
  /\ heard \in [Ops -> 0..Commands]

\* While the platforms of the entry are being unloaded nothing is sent to the TV
\* and no socket is opened to it, and nothing is sent once the device has
\* stopped: operations that waited for the lock are refused and the one that was
\* running has been joined (async_quiesce_remote, _ensure_remote_available).
SilentWhileUnloading ==
  [][/\ delivered' # delivered => entry \notin {"platforms", "stopped"}
     /\ sockets' > sockets => entry # "platforms"]_vars

\* A command is only sent once the token of the connection is in the entry: a
\* power-off cannot make the TV unreachable with its token unsaved, not even
\* after an earlier save failed (_capture_remote_token, "Opening is explicit").
TokenSavedBeforeSend ==
  [][delivered' # delivered => stored = remoteToken]_vars

\* There is never a second socket to the remote channel, whatever failed in
\* between: a socket whose close failed is still owned (FrameRemote.close).
OneSocket == sockets = (IF conn THEN 1 ELSE 0)
                     + (IF \E o \in Ops : at[o] \in {"handshaking", "discarding"}
                        THEN 1 ELSE 0)
             /\ sockets <= 1

\* Once the device has stopped and its last operation has ended, no socket is
\* left open, even if a close failed or the operation held the lock longer than
\* the stop waited (FrameRemote.async_stop and the stop check of open).
NoSocketOutlivesStop == entry = "stopped" /\ Active = {} => sockets = 0

\* No command goes out more than twice: once, and once more on a fresh connection
\* (design, "at most one reconnect attempt"); success means that the last round
\* ended with the last command, and that no command was left out.
SentAtMostTwice ==
  \A o \in Ops :
    /\ \A c \in 1..Commands : delivered[o][c] <= 2
    /\ at[o] = "ok" =>
         heard[o] = Commands /\ \A c \in 1..Commands : delivered[o][c] >= 1

(* The remote control as its callers and the TV see it.                    *)
CallOf(place) ==
  CASE place = "idle"     -> "none"
    [] place = "queued"   -> "waiting"
    [] place \in Working  -> "working"
    [] place \in Ended    -> place
Gate ==
  CASE ~Unavailable                          -> "open"
    [] Unavailable /\ entry = "platforms"    -> "silent"
    [] Unavailable /\ entry = "stopped"      -> "stopped"
    [] OTHER                                  -> "closing"

Calls == [o \in Ops |-> CallOf(at[o])]

Service == INSTANCE RemoteService
             WITH call <- Calls, sent <- delivered, last <- heard, gate <- Gate

\* The locks, retries, deadlines and cancellations carry out operations one at a
\* time and none once admission is closed; an operation sends its commands in
\* order and each of them at most twice, success means that the last round went
\* out whole, and an unload or a stop is silent (_remote_operation).
ImplementsService == Service!Spec

\* An unload comes to an end, done or undone, though the TV never answers and
\* the running operation swallows its cancellation (the drain deadlines).
UnloadSettles ==
  entry \notin {"setup", "loaded"} ~> entry \in {"loaded", "stopped"}

\* Once the device stops, every operation that was called ends, also one that
\* hangs in a send, and those that wait behind it.
StopFreesOperations ==
  \A o \in Ops : stopped /\ at[o] # "idle" ~> at[o] \in Ended
=============================================================================
