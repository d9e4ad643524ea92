----------------------------- MODULE ArtSession -----------------------------
(***************************************************************************)
(* The supervisor of the Frame Art websocket (art_session.py), composed    *)
(* with the part of the transport it supervises (open, start_listening and *)
(* close of frame_art.py, which share one lifecycle lock) and with the     *)
(* device operations that use the socket (device.py: background reads,     *)
(* user mutations, transfers).                                             *)
(*                                                                         *)
(* Every step of this module is one uninterrupted run of the event loop    *)
(* between two awaits.  Time is abstracted: retry.armed is the nominal     *)
(* delay that has still to elapse (0 when the deadline has passed), and a  *)
(* timeout is a step that is enabled whenever the wait it bounds is.       *)
(*                                                                         *)
(* A definition named after a defect (LiveChildrenForgetsReceiver, ...) is *)
(* the faulty variant of the one after it; no action uses it, and the      *)
(* properties are checked to tell the two apart.                           *)
(***************************************************************************)
EXTENDS Integers, Sequences, SequencesExt

CONSTANTS
  Ops,              \* concurrent device operations: reads, mutations, transfers
  Transfers,        \* those of Ops that are uploads or thumbnail downloads
  RetryDelays,      \* ART_RETRY_DELAYS
  HostRetryDelays,  \* ART_HOST_RETRY_DELAYS
  DormantSeconds,   \* ART_DORMANT_SECONDS
  CleanupRecheck,   \* ART_CLEANUP_RECHECK
  Generations,      \* bound: the generation is counted modulo Generations
  MaxCancels        \* bound: cancellations by the owner of the tasks

DormantThreshold == 3
Delays == {RetryDelays[i] : i \in DOMAIN RetryDelays}
            \cup {HostRetryDelays[i] : i \in DOMAIN HostRetryDelays}
            \cup {DormantSeconds, CleanupRecheck}
Joiners == Ops \cup {"connect", "stop"}   \* callers of _close_transport
LockUsers == Ops \cup {"connect", "close"}

ASSUME OpsAssumption ==
  /\ Ops \cap {"connect", "stop", "close", "free"} = {}
  /\ Transfers \subseteq Ops
ASSUME DelaysAssumption ==
  /\ RetryDelays \in Seq(Nat \ {0}) /\ RetryDelays # << >>
  /\ HostRetryDelays \in Seq(Nat \ {0}) /\ HostRetryDelays # << >>
  /\ DormantSeconds \in Nat \ {0} /\ CleanupRecheck \in Nat \ {0}
ASSUME BoundsAssumption == Generations \in Nat \ {0, 1} /\ MaxCancels \in Nat

VARIABLES
  started, terminal,  \* _started, _terminal (FrameArt._stopped is set with it)
  state,              \* _state
  retry,              \* _failure_count, _host_failure_count, _next_retry_at
  generation,         \* _generation
  connect,            \* _connect_task: none, inside open(), or closing after a failure
  connCancel,         \* the connect task has a cancellation to deliver
  closeTask,          \* _close_task and how it finished
  join,               \* who awaits the close task, and the result it has yet to see
  stop,               \* _async_stop_once
  op,                 \* the device operations
  conn,               \* FrameArt.connection; "lost": the peer closed it
  receiver,           \* FrameArt._recv_loop; "finishing": in _receiver_finished
  holder, waiters,    \* FrameArt._lifecycle_lock: its holder and its FIFO queue
  wasReachable,       \* the coordinator's _was_reachable
  cancels             \* cancellations by the owner so far

policyVars == <<started, terminal, state, retry, generation>>
taskVars == <<connect, connCancel, closeTask, join, stop, op>>
artVars == <<conn, receiver, holder, waiters>>
envVars == <<wasReachable, cancels>>
vars == <<policyVars, taskVars, artVars, envVars>>

-----------------------------------------------------------------------------
(* Definitions on the state.                                               *)

Alive == conn = "open" /\ receiver = "running"                 \* is_alive
Ready == state = "ready" /\ Alive
LostNever == FALSE
Lost == state = "ready" /\ ~Alive              \* what a heartbeat looks for
Accepting == started /\ ~terminal
LiveChildrenForgetsReceiver == \E o \in Transfers : op[o] \in {"using", "selfclose"}
LiveChildren == receiver # "none" \/ \E o \in Transfers : op[o] \in {"using", "selfclose"}
CloseReusableNever == closeTask = "none"
CloseReusable == closeTask \in {"none", "ok"}

DueAnyTime(r) == /\ Accepting /\ state \in {"backoff", "dormant"}
                 /\ connect = "idle" /\ CloseReusable
(* _background_attempt_due, for the retry record r.                        *)
Due(r) == /\ Accepting
          /\ state \in {"backoff", "dormant"}
          /\ connect = "idle"
          /\ CloseReusable
          /\ r.armed = 0

LateCloseRequired == terminal /\ closeTask \in {"ok", "cancelled"}

MayPublishLate == TRUE
(* A handshake whose result may still be used: the checks of _stopped in   *)
(* open and of started, terminal and cancelling in _connect_once.          *)
MayPublish == ~connCancel /\ ~terminal

NextInLine(u) == holder = "free" /\ waiters # << >> /\ Head(waiters) = u
Waiting(u) == \E i \in DOMAIN waiters : waiters[i] = u

(* The recovery policy: counters saturate where the code stops reading them.*)
Capped(n, limit) == IF n <= limit THEN n ELSE limit

Retries == [failures : 0..Len(RetryDelays),
            hostFailures : 0..DormantThreshold,
            armed : Delays \cup {0}]

NoFailures == [failures |-> 0, hostFailures |-> 0, armed |-> 0]

AfterFailure(r, host) ==
  LET f == Capped(r.failures + 1, Len(RetryDelays))
      h == IF host THEN Capped(r.hostFailures + 1, DormantThreshold) ELSE 0
  IN [failures |-> f,
      hostFailures |-> h,
      armed |-> IF ~host THEN RetryDelays[f]
                ELSE IF h = DormantThreshold THEN DormantSeconds
                ELSE HostRetryDelays[Capped(h, Len(HostRetryDelays))]]

StateAfterFailure(r, host) ==
  IF host /\ r.hostFailures + 1 >= DormantThreshold THEN "dormant" ELSE "backoff"

RecordFailure(host) ==
  /\ retry' = AfterFailure(retry, host)
  /\ state' = StateAfterFailure(retry, host)

RecordAlways(host) == RecordFailure(host)
RecordIfAccepting(host) ==
  IF Accepting THEN RecordFailure(host) ELSE UNCHANGED <<retry, state>>

-----------------------------------------------------------------------------
(* Scheduling the connect task and the close task.                         *)

CanConnect == Accepting /\ ~Ready /\ connect = "idle" /\ CloseReusable

(* The new task enters CONNECTING and queues on the lifecycle lock.        *)
ScheduleConnect ==
  /\ CanConnect
  /\ closeTask' = "none"
  /\ connect' = "opening"
  /\ connCancel' = FALSE
  /\ state' = "connecting"
  /\ waiters' = Append(waiters, "connect")

(* _close_transport up to its await: w joins the close task, a new one if  *)
(* there is none or if force says that a finished one will not do.  queue  *)
(* is the lock's queue as the rest of the step leaves it.                  *)
EnterClose(w, force, queue) ==
  LET fresh == closeTask = "none" \/ (force /\ closeTask # "running")
  IN /\ closeTask' = IF fresh THEN "running" ELSE closeTask
     /\ waiters' = IF fresh THEN Append(queue, "close") ELSE queue
     /\ join' = [join EXCEPT ![w] = IF fresh \/ closeTask = "running"
                                    THEN "wait" ELSE closeTask]

CloseFinishedSilently(result) == closeTask' = result /\ UNCHANGED join
CloseFinished(result) ==
  /\ closeTask' = result
  /\ join' = [w \in Joiners |-> IF join[w] = "wait" THEN result ELSE join[w]]

(* Those whose close task was cancelled under them replace it, in one batch *)
(* of wakeups: the first makes a new task and the others join it.          *)
Rejoin ==
  /\ \E w \in Joiners : join[w] = "cancelled"
  /\ closeTask' = "running"
  /\ waiters' = IF closeTask = "running" THEN waiters
                ELSE Append(waiters, "close")
  /\ join' = [w \in Joiners |-> IF join[w] = "cancelled" THEN "wait" ELSE join[w]]
  /\ UNCHANGED <<policyVars, connect, connCancel, stop, op, conn, receiver,
                 holder, envVars>>

-----------------------------------------------------------------------------
(* The session's inputs: start, the coordinator's heartbeat, stop.         *)

AsyncStart ==
  /\ ~started /\ ~terminal
  /\ started' = TRUE
  /\ retry' = NoFailures
  /\ state' = "backoff"
  /\ UNCHANGED <<terminal, generation, taskVars, artVars, envVars>>

(* observe_power: a heartbeat of the coordinator.  eligible: REST reports  *)
(* the power state on or standby.                                          *)
ObservePower(reachable, eligible) ==
  LET edge == reachable /\ ~wasReachable
      before == IF edge THEN NoFailures ELSE retry
  IN /\ started
     /\ wasReachable' = reachable
     /\ \/ /\ ~(reachable /\ eligible)
           /\ retry' = before
           /\ UNCHANGED <<state, taskVars, waiters>>
        \/ /\ reachable /\ eligible /\ Lost
           /\ retry' = AfterFailure(before, FALSE)
           /\ IF edge /\ CanConnect
              THEN ScheduleConnect /\ UNCHANGED <<join, stop, op>>
              ELSE /\ state' = "backoff"
                   /\ UNCHANGED <<taskVars, waiters>>
        \/ /\ reachable /\ eligible /\ ~Lost
           /\ retry' = before
           /\ IF Due(before)
              THEN ScheduleConnect /\ UNCHANGED <<join, stop, op>>
              ELSE UNCHANGED <<state, taskVars, waiters>>
     /\ UNCHANGED <<started, terminal, generation, conn, receiver, holder,
                    cancels>>

(* _async_stop_once up to its first await.                                 *)
Stop ==
  /\ stop = "none"
  /\ terminal' = TRUE /\ started' = FALSE
  /\ IF connect # "idle"
     THEN /\ connCancel' = TRUE
          /\ stop' = "waitConnect"
          /\ UNCHANGED <<closeTask, join, waiters>>
     ELSE /\ stop' = "joining"
          /\ EnterClose("stop", FALSE, waiters)
          /\ UNCHANGED connCancel
  /\ UNCHANGED <<state, retry, generation, connect, op, conn, receiver, holder,
                 envVars>>

(* The cancelled connect task has ended, or its deadline has passed.       *)
StopCloses ==
  /\ stop = "waitConnect"
  /\ stop' = "joining"
  /\ EnterClose("stop", FALSE, waiters)
  /\ UNCHANGED <<policyVars, connect, connCancel, op, conn, receiver, holder,
                 envVars>>

StopFinish ==
  /\ join["stop"] = "ok"
  /\ join' = [join EXCEPT !["stop"] = "no"]
  /\ stop' = "done"
  /\ state' = "stopped"
  /\ UNCHANGED <<started, terminal, retry, generation, connect, connCancel,
                 closeTask, op, artVars, envVars>>

-----------------------------------------------------------------------------
(* The connect task (_connect_once), from its turn on the lifecycle lock.  *)

ResumeNobody(next) == UNCHANGED op
(* Operations awaiting the connect task resume with its result.            *)
ResumeAwaiting(next) ==
  op' = [o \in Ops |-> IF op[o] = "await" THEN next ELSE op[o]]

ConnectSucceeds ==
  /\ generation' = (generation + 1) % Generations
  /\ retry' = NoFailures
  /\ state' = "ready"
  /\ connect' = "idle"
  /\ ResumeAwaiting("using")
  /\ UNCHANGED <<connCancel, closeTask, join>>

(* An except clause of _connect_once other than ArtCleanupPending.         *)
ConnectFails(host, queue) ==
  /\ RecordIfAccepting(host)
  /\ connect' = "closing"
  /\ EnterClose("connect", LateCloseRequired, queue)
  /\ UNCHANGED <<generation, connCancel, op>>

(* open gets the lock; up to the websocket handshake, if there is to be    *)
(* one, and otherwise up to the task's end or its close.                   *)
ConnectAcquire ==
  /\ NextInLine("connect") /\ ~connCancel
  /\ \/ /\ ~terminal /\ conn = "none" /\ ~LiveChildren
        /\ holder' = "connect"
        /\ waiters' = Tail(waiters)
        /\ UNCHANGED <<policyVars, taskVars>>
     \/ /\ ~terminal /\ conn = "none" /\ LiveChildren       \* ArtCleanupPending
        /\ retry' = [retry EXCEPT !.armed = CleanupRecheck]
        /\ state' = "backoff"
        /\ connect' = "idle"
        /\ ResumeAwaiting("idle")
        /\ waiters' = Tail(waiters)
        /\ UNCHANGED <<started, terminal, generation, connCancel, closeTask,
                       join, stop, holder>>
     \/ /\ terminal \/ conn # "none"             \* the connection at hand
        /\ IF Alive /\ MayPublish
           THEN ConnectSucceeds /\ waiters' = Tail(waiters)
           ELSE ConnectFails(FALSE, Tail(waiters))
        /\ UNCHANGED <<started, terminal, stop, holder>>
  /\ UNCHANGED <<conn, receiver, envVars>>

(* ms.channel.ready arrives: the connection is published and its receiver  *)
(* starts; it may have died already.                                       *)
HandshakeDone ==
  /\ holder = "connect" /\ MayPublish
  /\ holder' = "free"
  /\ receiver' = "running"
  /\ \/ conn' = "open" /\ ConnectSucceeds /\ UNCHANGED waiters
     \/ conn' = "lost" /\ ConnectFails(FALSE, waiters)
  /\ UNCHANGED <<started, terminal, stop, envVars>>

(* The handshake is refused or times out; host: ArtHostUnavailable.        *)
HandshakeFails(host) ==
  /\ holder = "connect" /\ ~connCancel
  /\ holder' = "free"
  /\ ConnectFails(host, waiters)
  /\ UNCHANGED <<started, terminal, stop, conn, receiver, envVars>>

(* CancelledError, while the task queues on the lock or shakes hands.      *)
ConnectCancelled ==
  /\ connect = "opening" /\ connCancel
  /\ \/ /\ holder = "connect"
        /\ holder' = "free"
        /\ ConnectFails(FALSE, waiters)
     \/ \E i \in DOMAIN waiters :
          /\ waiters[i] = "connect"
          /\ ConnectFails(FALSE, RemoveAt(waiters, i))
          /\ UNCHANGED holder
  /\ UNCHANGED <<started, terminal, stop, conn, receiver, envVars>>

(* The failed connect task has seen its transport closed, and ends.        *)
ConnectEnds ==
  /\ join["connect"] = "ok"
  /\ join' = [join EXCEPT !["connect"] = "no"]
  /\ connect' = "idle"
  /\ ResumeAwaiting("idle")
  /\ UNCHANGED <<policyVars, connCancel, closeTask, stop, artVars, envVars>>

-----------------------------------------------------------------------------
(* The close task (_close_once), one bounded FrameArt.close.               *)

(* close tears the transport down: it takes the connection, cancels the    *)
(* receiver, and drains for a bounded time.                                *)
TearDown ==
  /\ conn' = "none"
  /\ receiver' = IF receiver = "running" THEN "finishing" ELSE receiver

CloseAcquire ==
  /\ NextInLine("close")
  /\ holder' = "close"
  /\ waiters' = Tail(waiters)
  /\ TearDown
  /\ UNCHANGED <<policyVars, taskVars, envVars>>

CloseEnds ==
  /\ holder = "close"
  /\ holder' = "free"
  /\ CloseFinished("ok")
  /\ UNCHANGED <<policyVars, connect, connCancel, stop, op, conn, receiver,
                 waiters, envVars>>

(* ART_CLOSE_DEADLINE passes while the task still queues on the lock; the  *)
(* timeout is swallowed, so the task ends as if it had closed.             *)
CloseExpires ==
  /\ holder # "free"
  /\ \E i \in DOMAIN waiters :
       waiters[i] = "close" /\ waiters' = RemoveAt(waiters, i)
  /\ CloseFinished("ok")
  /\ UNCHANGED <<policyVars, connect, connCancel, stop, op, conn, receiver,
                 holder, envVars>>

-----------------------------------------------------------------------------
(* The device operations.                                                  *)

(* _async_art_read, which never opens the session.                         *)
StartRead(o) ==
  /\ op[o] = "idle" /\ stop = "none"
  /\ Ready
  /\ op' = [op EXCEPT ![o] = "using"]
  /\ UNCHANGED <<policyVars, connect, connCancel, closeTask, join, stop,
                 artVars, envVars>>

(* _async_art_mutation and async_ensure_ready(USER): backoff is bypassed.  *)
StartMutation(o) ==
  /\ op[o] = "idle" /\ stop = "none" /\ Accepting
  /\ \/ /\ Ready
        /\ op' = [op EXCEPT ![o] = "using"]
        /\ UNCHANGED <<state, connect, connCancel, closeTask, waiters>>
     \/ /\ ~Ready /\ connect # "idle"
        /\ op' = [op EXCEPT ![o] = "await"]
        /\ UNCHANGED <<state, connect, connCancel, closeTask, waiters>>
     \/ /\ ScheduleConnect
        /\ op' = [op EXCEPT ![o] = "await"]
  /\ UNCHANGED <<started, terminal, retry, generation, join, stop, conn,
                 receiver, holder, envVars>>

(* The operation returns, fails with a ResponseError, or is cancelled.     *)
OpLeaves(o) ==
  /\ op[o] \in {"await", "using"}
  /\ op' = [op EXCEPT ![o] = "idle"]
  /\ UNCHANGED <<policyVars, connect, connCancel, closeTask, join, stop,
                 artVars, envVars>>

(* async_connection_failed, called by operation o.                         *)
AsyncConnectionFailed(o) ==
  IF ~Accepting
  THEN /\ op' = [op EXCEPT ![o] = "idle"]
       /\ UNCHANGED <<retry, state, closeTask, join, waiters>>
  ELSE /\ op' = [op EXCEPT ![o] = "closing"]
       /\ RecordFailure(FALSE)
       /\ EnterClose(o, FALSE, waiters)

OpFails(o) ==
  /\ op[o] = "using"
  /\ AsyncConnectionFailed(o)
  /\ UNCHANGED <<started, terminal, generation, connect, connCancel, stop,
                 conn, receiver, holder, envVars>>

(* A request gets no answer: FrameArt closes its transport itself, under   *)
(* the operation lock, before the device reports the failure.              *)
OpTimesOut(o) ==
  /\ op[o] = "using"
  /\ \A p \in Ops : op[p] # "selfclose"
  /\ op' = [op EXCEPT ![o] = "selfclose"]
  /\ waiters' = Append(waiters, o)
  /\ UNCHANGED <<policyVars, connect, connCancel, closeTask, join, stop, conn,
                 receiver, holder, envVars>>

OpCloseAcquire(o) ==
  /\ NextInLine(o)
  /\ holder' = o
  /\ waiters' = Tail(waiters)
  /\ TearDown
  /\ UNCHANGED <<policyVars, taskVars, envVars>>

OpCloseEnds(o) ==
  /\ holder = o
  /\ holder' = "free"
  /\ AsyncConnectionFailed(o)
  /\ UNCHANGED <<started, terminal, generation, connect, connCancel, stop,
                 conn, receiver, envVars>>

(* The caller (a poll past its deadline) is cancelled in its own close.    *)
OpCloseAbandoned(o) ==
  /\ op[o] = "selfclose"
  /\ op' = [op EXCEPT ![o] = "idle"]
  /\ \/ /\ holder = o
        /\ holder' = "free"
        /\ UNCHANGED waiters
     \/ /\ \E i \in DOMAIN waiters :
             waiters[i] = o /\ waiters' = RemoveAt(waiters, i)
        /\ UNCHANGED holder
  /\ UNCHANGED <<policyVars, connect, connCancel, closeTask, join, stop, conn,
                 receiver, envVars>>

(* The operation has seen its transport closed, and raises.                *)
OpEnds(o) ==
  /\ join[o] = "ok"
  /\ join' = [join EXCEPT ![o] = "no"]
  /\ op' = [op EXCEPT ![o] = "idle"]
  /\ UNCHANGED <<policyVars, connect, connCancel, closeTask, stop, artVars,
                 envVars>>

-----------------------------------------------------------------------------
(* The environment: the TV, the clock, and the owner of the tasks.         *)

PeerCloses ==
  /\ conn = "open"
  /\ conn' = "lost"
  /\ UNCHANGED <<policyVars, taskVars, receiver, holder, waiters, envVars>>

(* _receive_loop leaves its loop, and _receiver_finished drops and closes  *)
(* the connection it was reading.                                          *)
ReceiverExits ==
  /\ receiver = "running"
  /\ receiver' = "finishing"
  /\ conn' = "none"
  /\ UNCHANGED <<policyVars, taskVars, holder, waiters, envVars>>

ReceiverDone ==
  /\ receiver = "finishing"
  /\ receiver' = "none"
  /\ UNCHANGED <<policyVars, taskVars, conn, holder, waiters, envVars>>

RetryElapses ==
  /\ retry.armed # 0
  /\ retry' = [retry EXCEPT !.armed = 0]
  /\ UNCHANGED <<started, terminal, state, generation, taskVars, artVars, envVars>>

(* Home Assistant cancels the background tasks it owns: the connect task,  *)
(* or the close task in its queue or in its drain (which it completes).    *)
OwnerCancelsConnect ==
  /\ cancels < MaxCancels /\ cancels' = cancels + 1
  /\ connect = "opening" /\ ~connCancel
  /\ connCancel' = TRUE
  /\ UNCHANGED <<policyVars, connect, closeTask, join, stop, op, artVars,
                 wasReachable>>

OwnerCancelsClose ==
  /\ cancels < MaxCancels /\ cancels' = cancels + 1
  /\ \/ /\ holder = "close"
        /\ holder' = "free"
        /\ UNCHANGED waiters
     \/ /\ \E i \in DOMAIN waiters :
             waiters[i] = "close" /\ waiters' = RemoveAt(waiters, i)
        /\ UNCHANGED holder
  /\ CloseFinished("cancelled")
  /\ UNCHANGED <<policyVars, connect, connCancel, stop, op, conn, receiver,
                 wasReachable>>

-----------------------------------------------------------------------------
Init ==
  /\ started = FALSE /\ terminal = FALSE
  /\ state = "stopped"
  /\ retry = NoFailures
  /\ generation = 0
  /\ connect = "idle" /\ connCancel = FALSE
  /\ closeTask = "none"
  /\ join = [w \in Joiners |-> "no"]
  /\ stop = "none"
  /\ op = [o \in Ops |-> "idle"]
  /\ conn = "none" /\ receiver = "none"
  /\ holder = "free" /\ waiters = << >>
  /\ wasReachable = TRUE
  /\ cancels = 0

ConnectStep ==
  \/ ConnectAcquire \/ HandshakeDone \/ ConnectCancelled \/ ConnectEnds
  \/ \E host \in BOOLEAN : HandshakeFails(host)
CloseStep == CloseAcquire \/ CloseEnds \/ CloseExpires
StopStep == StopCloses \/ StopFinish
OpStep(o) ==
  \/ OpLeaves(o) \/ OpFails(o) \/ OpTimesOut(o)
  \/ OpCloseAcquire(o) \/ OpCloseEnds(o) \/ OpCloseAbandoned(o) \/ OpEnds(o)

Next ==
  \/ AsyncStart \/ Stop \/ StopStep
  \/ \E reachable, eligible \in BOOLEAN : ObservePower(reachable, eligible)
  \/ ConnectStep \/ CloseStep \/ Rejoin
  \/ \E o \in Ops : StartRead(o) \/ StartMutation(o) \/ OpStep(o)
  \/ PeerCloses \/ ReceiverExits \/ ReceiverDone \/ RetryElapses
  \/ OwnerCancelsConnect \/ OwnerCancelsClose

Spec == Init /\ [][Next]_vars

(* Every task the event loop holds takes its steps, every deadline fires,  *)
(* and the coordinator keeps polling a TV that answers.                    *)
Fairness ==
  /\ WF_vars(ConnectStep) /\ WF_vars(CloseStep) /\ WF_vars(StopStep)
  /\ WF_vars(Rejoin)
  /\ \A o \in Ops : WF_vars(OpCloseAcquire(o) \/ OpCloseEnds(o) \/ OpEnds(o))
  /\ WF_vars(ReceiverExits /\ conn = "lost") /\ WF_vars(ReceiverDone)
  /\ WF_vars(RetryElapses)
  /\ WF_vars(ObservePower(TRUE, TRUE))

FairSpec == Spec /\ Fairness

-----------------------------------------------------------------------------
(* Properties.                                                             *)

(* Every variable has its type, and the lock its queue of live tasks.      *)
TypeOK ==
  /\ started \in BOOLEAN /\ terminal \in BOOLEAN
  /\ state \in {"stopped", "connecting", "ready", "backoff", "dormant"}
  /\ retry \in Retries
  /\ generation \in 0..Generations - 1
  /\ connect \in {"idle", "opening", "closing"} /\ connCancel \in BOOLEAN
  /\ closeTask \in {"none", "running", "ok", "cancelled"}
  /\ join \in [Joiners -> {"no", "wait", "ok", "cancelled"}]
  /\ stop \in {"none", "waitConnect", "joining", "done"}
  /\ op \in [Ops -> {"idle", "await", "using", "selfclose", "closing"}]
  /\ conn \in {"none", "open", "lost"}
  /\ receiver \in {"none", "running", "finishing"}
  /\ holder \in LockUsers \cup {"free"} /\ waiters \in Seq(LockUsers)
  /\ wasReachable \in BOOLEAN /\ cancels \in 0..MaxCancels

(* At most one runtime websocket: a handshake is only ever in progress     *)
(* while no connection is published and no receiver of an earlier          *)
(* generation is still alive (open, start_listening, close).               *)
OneSocket ==
  holder = "connect" => conn = "none" /\ receiver = "none"

(* The lifecycle lock belongs to live tasks only, so it is always released.*)
LockOwned ==
  /\ \A i, j \in DOMAIN waiters : waiters[i] = waiters[j] => i = j
  /\ ~Waiting(holder)
  /\ holder = "connect" \/ Waiting("connect") <=> connect = "opening"
  /\ holder = "close" \/ Waiting("close") <=> closeTask = "running"
  /\ \A o \in Ops : holder = o \/ Waiting(o) <=> op[o] = "selfclose"

(* A close task is never orphaned: while it runs a caller waits for it, so *)
(* that a cancelled one, which bars every connection, is always replaced.  *)
CloseOwned ==
  /\ closeTask = "running" => \E w \in Joiners : join[w] = "wait"
  /\ closeTask = "cancelled" => \E w \in Joiners : join[w] = "cancelled"

(* Every await of a task has a task that will end it: whoever awaits the   *)
(* close task awaits one that runs, a mutation awaits a connect task that  *)
(* is there, and a caller is at its close as long as a result is due to it.*)
WaitsOwned ==
  /\ \A w \in Joiners : join[w] = "wait" => closeTask = "running"
  /\ \A o \in Ops : op[o] = "await" => connect # "idle"
  /\ connect = "closing" <=> join["connect"] # "no"
  /\ stop = "joining" <=> join["stop"] # "no"
  /\ \A o \in Ops : op[o] = "closing" <=> join[o] # "no"

(* Nobody waits in a circle: while the connect task, the close task, the   *)
(* stop or an operation waits, the lock has a holder, whose await is       *)
(* bounded, or is free for the head of its queue, or a result is there for *)
(* its caller to take.                                                     *)
NobodyStuck ==
  \/ connect # "idle" \/ closeTask = "running" \/ stop = "joining"
  \/ \E o \in Ops : op[o] \in {"await", "selfclose", "closing"}
  => \/ holder # "free" \/ waiters # << >>
     \/ \E w \in Joiners : join[w] \in {"ok", "cancelled"}

TasksOwned == LockOwned /\ CloseOwned /\ WaitsOwned /\ NobodyStuck

(* async_stop is final: whatever connect task outlives it, the session     *)
(* stays stopped and never starts again.                                   *)
StoppedIsFinal ==
  stop = "done" => state = "stopped" /\ ~started

(* Background recovery obeys the one retry deadline: without a power edge  *)
(* or a user operation no connection starts before the deadline, whatever  *)
(* path of observe_power the heartbeat takes.                              *)
BackgroundPaced ==
  [][connect = "idle" /\ connect' = "opening" /\ wasReachable /\ op' = op
       => retry.armed = 0]_vars

(* The session and its transport implement ArtLifecycle: no connection is  *)
(* opened over a transfer or a receiver of the last one, and a transfer    *)
(* begins on a live connection only.                                       *)
link == IF holder = "connect" THEN "opening"
        ELSE CASE receiver = "none" -> "down"
               [] receiver = "running" -> "up"
               [] receiver = "finishing" -> "retiring"
Transferring == {o \in Transfers : op[o] \in {"using", "selfclose"}}
Lifecycle == INSTANCE ArtLifecycle WITH
  Users <- Transfers, transfers <- Transferring, stopped <- terminal
Implements == Lifecycle!Spec

(* Unload always completes, whatever the connect and close tasks do.       *)
StopTerminates == stop # "none" ~> stop = "done"

(* The session never wedges in BACKOFF or DORMANT while the TV answers.    *)
RecoveryResumes == state \in {"backoff", "dormant"} ~> state \notin {"backoff", "dormant"}

(* A connection that died under a READY session is noticed.                *)
LossNoticed == state = "ready" /\ ~Alive ~> state # "ready" \/ Alive

(* No operation hangs on a connect or close task of the session.           *)
OpsReleased == \A o \in Ops : op[o] \in {"await", "closing", "selfclose"}
                               ~> op[o] \in {"idle", "using"}

(* What async_stop says of itself and does not do (see README).            *)

(* Once async_stop is done and no connect task is left, no receiver is.    *)
StopClosesTransport ==
  stop = "done" /\ connect = "idle" => receiver # "running"
=============================================================================
