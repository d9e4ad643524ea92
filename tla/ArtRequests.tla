---------------------------- MODULE ArtRequests -----------------------------
(***************************************************************************)
(* The requests and transfers of FrameArt (frame_art.py) on one websocket: *)
(* the operation lock, the table of response waiters, the receiver that    *)
(* resolves or fails them, and close, which the session and the operations *)
(* themselves call (when to open and to close is ArtSession).              *)
(*                                                                         *)
(* An operation sends one request, or, for an upload, up to three and the  *)
(* image; "leg" is the answer it awaits.  The version request has an id of *)
(* its own, the two answers to send_image share one.  The TV answers when  *)
(* it likes, or never; an old firmware leaves the id out of an answer that *)
(* the operation expects by its event, and out of errors.                  *)
(*                                                                         *)
(* A deadline may expire as long as the operation is at the await it       *)
(* bounds: also when the answer has arrived but the task has not run yet   *)
(* (asyncio.timeout then cancels it all the same).                         *)
(*                                                                         *)
(* A definition named after a defect (OpenUnfenced, ...) is the faulty     *)
(* variant of the one after it; no action uses it.                         *)
(***************************************************************************)
EXTENDS Integers, FiniteSets

CONSTANTS
  Ops,            \* the tasks
  Works,          \* what they may be about: a set of functions to Kinds
  IdLess,         \* the firmware may leave ids out
  MaxConnections, \* bound: connections opened
  MaxCancels      \* bound: abandoned operations beyond which no caller cancels

Kinds ==
  {"read",        \* any request that no other kind stands for
   "probe",       \* its timeout leaves the socket open
   "favourite",   \* its answer is known by its event
   "upload", "thumbnail"}
ASSUME OpsAssumption ==
  /\ "session" \notin Ops /\ "none" \notin Ops
  /\ Works \subseteq [Ops -> Kinds]
ASSUME BoundsAssumption ==
  IdLess \in BOOLEAN /\ MaxConnections \in Nat /\ MaxCancels \in Nat

VARIABLES
  kind,       \* what each operation is about
  at,         \* the await each operation is at
  leg,        \* the answer it awaits
  waiter,     \* its future: none, pending, value, error, lost
  heard,      \* history: whose answers resolved its futures
  closes,     \* calls of close it has still to make
  cancelled,  \* it has a CancelledError to take
  on,         \* history: the connection it began on
  pending,    \* _pending: operation and leg (the id is that of both)
  uuidless,   \* _uuidless_pending
  lock,       \* the holder of _operation_lock
  conn,       \* the number of the open connection, 0 when there is none
  opened,     \* connections opened so far
  receiver,   \* _recv_loop
  asked,      \* what the TV has been asked on this connection and not answered
  binary,     \* the TV speaks API 0.97
  closer,     \* the holder of _lifecycle_lock in close, and where it is
  session,    \* the session waits for its close, or not
  abandoned   \* history: cancelled, or failed in the stream

opVars == <<at, leg, waiter, heard, closes, on>>
tableVars == <<pending, uuidless, lock>>
linkVars == <<conn, opened, receiver, asked, binary>>
closeVars == <<closer, session>>
vars == <<kind, opVars, cancelled, tableVars, linkVars, closeVars, abandoned>>

-----------------------------------------------------------------------------
(* Definitions on the state.                                               *)

Transfers == {o \in Ops : kind[o] \in {"upload", "thumbnail"}}
None == <<"none", "none">>
NoCloser == [by |-> "none", phase |-> "none", alive |-> FALSE]

IdOf(l) == IF l = "version" THEN "version" ELSE "main"
EventOf(o, l) ==
  CASE l = "ready" -> "ready_to_use"
    [] l = "added" -> "image_added"
    [] kind[o] = "favourite" -> "favorite_changed"
    [] OTHER -> "reply"
Expected(o, l) == EventOf(o, l) # "reply"

IsAlive == conn # 0 /\ receiver \in {"running", "cancelled"}
Live == {o \in Transfers : at[o] \notin {"idle", "ended"}}   \* _transfer_tasks
Closing == closer.by # "none"                               \* _closing
\* A task whose future is resolved has been scheduled: it runs before the end
\* of a socket close, or a handshake, that is still to be awaited.
WakeUpsServed ==
  \A o \in Ops : at[o] = "waiting" => waiter[o] = "pending"

\* The finally blocks: the waiter and the operation lock are given up.
ForgetsKeepsIdLess(o) == pending' = {e \in pending : e[1] # o} /\ uuidless' = uuidless
Forgets(o) ==
  /\ pending' = {e \in pending : e[1] # o}
  /\ uuidless' = IF uuidless[1] = o THEN None ELSE uuidless
UnlocksNever(o) == lock' = lock
Unlocks(o) == lock' = IF lock = o THEN "none" ELSE lock

Goes(o, where) == at' = [at EXCEPT ![o] = where]
Ends(o) ==
  /\ Goes(o, "ended") /\ Forgets(o) /\ Unlocks(o)
  /\ waiter' = [waiter EXCEPT ![o] = "none"]
  /\ closes' = [closes EXCEPT ![o] = 0]
  /\ cancelled' = [cancelled EXCEPT ![o] = FALSE]
  /\ UNCHANGED <<leg, heard, on>>

\* A request is registered, then sent: connection.send may hang.
Registers(o, l, byEvent) ==
  /\ leg' = [leg EXCEPT ![o] = l]
  /\ waiter' = [waiter EXCEPT ![o] = "pending"]
  /\ pending' = {e \in pending : e[1] # o} \cup {<<o, l>>}
  /\ uuidless' = IF byEvent THEN <<o, l>>
                 ELSE IF uuidless[1] = o THEN None ELSE uuidless
Asks(o, l) ==
  /\ Goes(o, "waiting")
  /\ Registers(o, l, Expected(o, l) /\ ~(l = "added" /\ binary))
  /\ asked' \in {asked, asked \cup {<<o, l>>}}
  /\ UNCHANGED <<heard, closes, cancelled>>

-----------------------------------------------------------------------------
(* An operation.                                                           *)

Unlinked == UNCHANGED <<conn, opened, receiver, binary, closeVars, abandoned>>

\* _track_transfer: a transfer registers itself, unless a close is running.
MayStartAlways(o) == TRUE
MayStart(o) == o \notin Transfers \/ ~Closing
Start(o) ==
  /\ at[o] = "idle"
  /\ Goes(o, IF MayStart(o) THEN "queued" ELSE "ended")
  /\ on' = [on EXCEPT ![o] = opened]
  /\ UNCHANGED <<leg, waiter, heard, closes, cancelled, tableVars, asked>> /\ Unlinked

\* The operation lock is acquired, and readiness is looked at again.
First(o) == IF kind[o] = "upload" THEN "version" ELSE "request"
Acquire(o) ==
  /\ at[o] = "queued" /\ ~cancelled[o] /\ lock = "none"
  /\ IF IsAlive
     THEN /\ lock' = o
          /\ Asks(o, First(o))
          /\ on' = [on EXCEPT ![o] = IF o \in Transfers THEN @ ELSE opened]
     ELSE Ends(o) /\ asked' = asked
  /\ Unlinked

\* A later request of an upload: without a connection it fails.
AsksNext(o, l) ==
  IF conn = 0 THEN Ends(o) /\ asked' = asked
  ELSE Asks(o, l) /\ UNCHANGED <<lock, on>>

\* The D2D stream is opened with the completion registered before it.
\* The TV may have the image before the stream is closed.
Streams(o) == Goes(o, "streaming") /\ UNCHANGED <<heard, closes, cancelled, on>>
StreamsUp(o) ==
  /\ Streams(o) /\ lock' = lock
  /\ Registers(o, "added", TRUE)
  /\ asked' \in {asked, asked \cup {<<o, "added">>}}
StreamsDown(o) ==
  /\ Streams(o) /\ Forgets(o) /\ Unlocks(o) /\ asked' = asked
  /\ waiter' = [waiter EXCEPT ![o] = "none"] /\ leg' = leg

\* The answer is taken.  A refused version counts as not binary.
Woken(o) ==
  /\ at[o] = "waiting" /\ ~cancelled[o] /\ waiter[o] \in {"value", "error", "lost"}
  /\ IF waiter[o] = "lost" THEN Ends(o) /\ asked' = asked
     ELSE IF leg[o] = "version"
     THEN AsksNext(o, IF waiter[o] = "value" /\ binary THEN "added" ELSE "ready")
     ELSE IF waiter[o] = "value" /\ leg[o] = "ready" THEN StreamsUp(o)
     ELSE IF waiter[o] = "value" /\ kind[o] = "thumbnail" THEN StreamsDown(o)
     ELSE Ends(o) /\ asked' = asked
  /\ Unlinked

\* The transfer is through: an upload awaits its second answer.
StreamEnds(o) ==
  /\ at[o] = "streaming" /\ ~cancelled[o]
  /\ IF kind[o] = "upload"
     THEN Goes(o, "waiting") /\ UNCHANGED <<leg, waiter, heard, closes, cancelled, tableVars, on>>
     ELSE Ends(o)
  /\ asked' = asked /\ Unlinked
StreamFails(o) ==
  /\ at[o] = "streaming" /\ ~cancelled[o]
  /\ Ends(o)
  /\ abandoned' = abandoned \cup {o}
  /\ UNCHANGED <<linkVars, closeVars>>

\* asyncio.timeout expires.  A request closes the socket with its waiter
\* still registered; the upload around it closes once more.
ClosesIn(o, n) ==
  /\ Goes(o, "closing") /\ closes' = [closes EXCEPT ![o] = n]
  /\ waiter' = [waiter EXCEPT ![o] = "none"]
  /\ UNCHANGED <<leg, heard, cancelled, lock, on>>
DeadlineKeepsSocket(o) ==
  /\ at[o] \in {"waiting", "streaming"} /\ ~cancelled[o]
  /\ Ends(o) /\ asked' = asked /\ Unlinked
Deadline(o) ==
  /\ at[o] \in {"waiting", "streaming"} /\ ~cancelled[o]
  /\ IF kind[o] = "probe" \/ (at[o] = "streaming" /\ kind[o] = "thumbnail")
     THEN Ends(o)
     ELSE \/ leg[o] = "added" /\ ClosesIn(o, 1) /\ Forgets(o)
          \/ leg[o] = "request" /\ ClosesIn(o, 1) /\ UNCHANGED <<pending, uuidless>>
          \/ leg[o] \in {"version", "ready"} /\ ClosesIn(o, 2)
             /\ UNCHANGED <<pending, uuidless>>
  /\ asked' = asked /\ Unlinked

\* connection.send fails, without a close.
SendFails(o) ==
  /\ at[o] = "waiting" /\ ~cancelled[o] /\ waiter[o] = "pending" /\ conn = 0
  /\ Ends(o) /\ asked' = asked /\ Unlinked

\* CancelledError at the await: a transfer in its stream first closes it.
TakesCancellation(o) ==
  /\ cancelled[o] /\ at[o] \notin {"idle", "ended"}
  /\ closer.by # o
  /\ Ends(o) /\ asked' = asked /\ Unlinked
CancelledByCaller(o) ==
  /\ at[o] \notin {"idle", "ended"} /\ ~cancelled[o]
  /\ Cardinality(abandoned) < MaxCancels
  /\ cancelled' = [cancelled EXCEPT ![o] = TRUE]
  /\ abandoned' = abandoned \cup {o}
  /\ UNCHANGED <<opVars, tableVars, linkVars, closeVars>>

-----------------------------------------------------------------------------
(* The receiver and the TV (external).                                     *)

\* _dispatch_frame: the waiter that an answer resolves (none or one).
Addressee(q, bad, withId) ==
  IF withId
  THEN {e \in pending : /\ e[1] = q[1] /\ IdOf(e[2]) = IdOf(q[2])
                        /\ bad \/ ~Expected(e[1], e[2]) \/ e[2] = q[2]}
  ELSE {e \in {uuidless} \ {None} : bad \/ EventOf(e[1], e[2]) = EventOf(q[1], q[2])}

TvAnswers(q, bad, withId) ==
  /\ receiver = "running"
  /\ withId \/ (IdLess /\ (bad \/ Expected(q[1], q[2])))
  /\ asked' = asked \ {q}
  /\ LET who == {e[1] : e \in {a \in Addressee(q, bad, withId) : waiter[a[1]] = "pending"}}
     IN /\ waiter' = [o \in Ops |-> IF o \notin who THEN waiter[o]
                                   ELSE IF bad THEN "error" ELSE "value"]
        /\ heard' = [o \in Ops |-> IF o \in who THEN heard[o] \cup {q[1]} ELSE heard[o]]
  /\ UNCHANGED <<at, leg, closes, on, cancelled, tableVars>>
  /\ UNCHANGED <<conn, opened, receiver, binary, closeVars, abandoned>>

\* _fail_pending.
FailPending ==
  /\ pending' = {} /\ uuidless' = None
  /\ waiter' = [o \in Ops |-> IF waiter[o] = "pending" /\ \E e \in pending : e[1] = o
                             THEN "lost" ELSE waiter[o]]

\* recv raises: the peer has closed, or the receiver is cancelled.
ReceiverEnds ==
  /\ receiver \in {"running", "cancelled"}
  /\ receiver' = "finishing" /\ conn' = 0 /\ asked' = {}
  /\ UNCHANGED <<opVars, cancelled, tableVars, opened, binary, closeVars, abandoned>>
ReceiverFinished ==
  /\ receiver = "finishing" /\ WakeUpsServed
  /\ receiver' = "none"
  /\ FailPending
  /\ UNCHANGED <<at, leg, heard, closes, on, cancelled, lock>>
  /\ UNCHANGED <<conn, opened, asked, binary, closeVars, abandoned>>

-----------------------------------------------------------------------------
(* close, by the session or by an operation that timed out.                *)

\* Other transfers are cancelled.
CloseBegins(c) ==
  /\ closer = NoCloser
  /\ IF c = "session" THEN session = "closing" ELSE at[c] = "closing" /\ ~cancelled[c]
  /\ closer' = [by |-> c, phase |-> "transfers", alive |-> FALSE]
  /\ cancelled' = [o \in Ops |-> cancelled[o] \/ (o \in Live /\ o # c)]
  /\ abandoned' = abandoned \cup (Live \ {c})
  /\ UNCHANGED <<opVars, tableVars, linkVars, session>>

\* Drained or out of time, close goes on to the receiver, then to the socket.
TransfersDrained ==
  /\ closer.phase = "transfers"
  /\ closer' = [closer EXCEPT !.phase = "receiver", !.alive = Live \ {closer.by} # {}]
  /\ receiver' = IF receiver = "running" THEN "cancelled" ELSE receiver
  /\ UNCHANGED <<opVars, cancelled, tableVars, conn, opened, asked, binary, session, abandoned>>
ReceiverDrained ==
  /\ closer.phase = "receiver" /\ receiver # "cancelled"
  /\ closer' = [closer EXCEPT !.phase = "socket", !.alive = @ \/ receiver # "none"]
  /\ conn' = 0 /\ asked' = {}
  /\ UNCHANGED <<opVars, cancelled, tableVars, opened, receiver, binary, session, abandoned>>

\* The waiters are failed and the lock is released.  An upload closes again,
\* unless it was cancelled or the close failed for a task left alive.
SessionClosed ==
  /\ closer.phase = "socket" /\ closer.by = "session" /\ WakeUpsServed
  /\ FailPending
  /\ session' = "idle" /\ closer' = NoCloser
  /\ UNCHANGED <<at, leg, heard, closes, on, cancelled, lock, linkVars, abandoned>>
OpClosed(o) ==
  /\ closer.phase = "socket" /\ closer.by = o /\ WakeUpsServed
  /\ IF closes[o] = 2 /\ ~cancelled[o] /\ ~closer.alive
     THEN /\ FailPending
          /\ closes' = [closes EXCEPT ![o] = 1]
          /\ UNCHANGED <<at, leg, heard, on, cancelled, lock>>
     ELSE Ends(o)
  /\ closer' = NoCloser
  /\ UNCHANGED <<linkVars, session, abandoned>>

-----------------------------------------------------------------------------
(* The session (ArtSession).                                               *)

SessionCloses ==
  /\ session = "idle" /\ (conn # 0 \/ receiver # "none" \/ Live # {})
  /\ session' = "closing"
  /\ UNCHANGED <<opVars, cancelled, tableVars, linkVars, closer, abandoned>>
\* The close deadline expires while the session waits for the lifecycle lock.
SessionCloseExpires ==
  /\ session = "closing" /\ closer.by # "session"
  /\ session' = "idle"
  /\ UNCHANGED <<opVars, cancelled, tableVars, linkVars, closer, abandoned>>

\* open, up to the end of the handshake, and start_listening.  A close that
\* waits has asked for the lock first.
HasLiveChildrenForgetsTransfers == receiver # "none"
HasLiveChildren == receiver # "none" \/ Live # {}
Open ==
  /\ conn = 0 /\ ~HasLiveChildren /\ closer = NoCloser
  /\ opened < MaxConnections /\ WakeUpsServed
  /\ session = "idle" /\ \A o \in Ops : at[o] # "closing"
  /\ conn' = opened + 1 /\ opened' = opened + 1
  /\ receiver' = "running" /\ asked' = {}
  /\ UNCHANGED <<opVars, cancelled, tableVars, binary, closeVars, abandoned>>

-----------------------------------------------------------------------------

Init ==
  /\ kind \in Works
  /\ at = [o \in Ops |-> "idle"] /\ leg = [o \in Ops |-> "request"]
  /\ waiter = [o \in Ops |-> "none"] /\ heard = [o \in Ops |-> {}]
  /\ closes = [o \in Ops |-> 0] /\ on = [o \in Ops |-> 0]
  /\ cancelled = [o \in Ops |-> FALSE]
  /\ pending = {} /\ uuidless = None /\ lock = "none"
  /\ conn = 0 /\ opened = 0 /\ receiver = "none" /\ asked = {}
  /\ binary \in BOOLEAN
  /\ closer = NoCloser /\ session = "idle" /\ abandoned = {}

OpStep(o) ==
  \/ Acquire(o) \/ Woken(o) \/ StreamEnds(o) \/ StreamFails(o) \/ Deadline(o)
  \/ SendFails(o) \/ TakesCancellation(o) \/ OpClosed(o)
Tv == \E q \in asked, bad, withId \in BOOLEAN : TvAnswers(q, bad, withId)
CloseStep == TransfersDrained \/ ReceiverDrained \/ SessionClosed

Next ==
  /\ UNCHANGED kind
  /\ \/ \E o \in Ops : Start(o) \/ CancelledByCaller(o) \/ OpStep(o) \/ CloseBegins(o)
     \/ Tv \/ ReceiverEnds \/ ReceiverFinished
     \/ CloseBegins("session") \/ CloseStep \/ SessionCloses \/ SessionCloseExpires
     \/ Open

Spec == Init /\ [][Next]_vars

\* The lifecycle lock is first come, first served; every await has a deadline.
FairSpec ==
  /\ Spec
  /\ \A o \in Ops : WF_vars(kind' = kind /\ OpStep(o)) /\ SF_vars(kind' = kind /\ CloseBegins(o))
  /\ WF_vars(kind' = kind /\ CloseStep) /\ WF_vars(kind' = kind /\ ReceiverFinished)
  /\ WF_vars(kind' = kind /\ receiver = "cancelled" /\ ReceiverEnds)

-----------------------------------------------------------------------------
(* Properties.                                                             *)

Phases == {"none", "transfers", "receiver", "socket"}
Entries == Ops \X {"request", "version", "ready", "added"}
TypeOK ==
  /\ kind \in Works
  /\ at \in [Ops -> {"idle", "queued", "waiting", "streaming", "closing", "ended"}]
  /\ leg \in [Ops -> {"request", "version", "ready", "added"}]
  /\ waiter \in [Ops -> {"none", "pending", "value", "error", "lost"}]
  /\ heard \in [Ops -> SUBSET Ops]
  /\ closes \in [Ops -> 0 .. 2] /\ on \in [Ops -> 0 .. MaxConnections]
  /\ cancelled \in [Ops -> BOOLEAN]
  /\ pending \subseteq Entries /\ asked \subseteq Entries /\ uuidless \in Entries \cup {None}
  /\ lock \in {"none"} \cup {o \in Ops : at[o] \in {"waiting", "streaming", "closing"}}
  /\ opened \in 0 .. MaxConnections /\ conn \in {0, opened}
  /\ receiver \in {"none", "running", "cancelled", "finishing"}
  /\ binary \in BOOLEAN
  /\ closer \in [by : Ops \cup {"session", "none"}, phase : Phases, alive : BOOLEAN]
  /\ session \in {"idle", "closing"}
  /\ abandoned \subseteq Ops

\* Those that may leave the TV an answer to send on a socket that stays open.
GivenUp == abandoned \cup {o \in Ops : kind[o] = "probe"}

(* An answer, with or without an id, is taken by the operation that asked  *)
(* for it.  It is taken by another one, which expects the same event or is *)
(* refused without an id, only when its own operation was given up or was  *)
(* itself ended by somebody else's answer: no timeout leaves one behind.   *)
AnswerIsOwn ==
  \A o \in Ops : \A p \in heard[o] \ {o} :
    p \in GivenUp \/ ~(heard[p] \subseteq {p})

(* A waiter belongs to the operation that holds the lock: none outlives    *)
(* its operation.  Whoever waits for an answer has one in the table, and a *)
(* receiver or a close that will resolve or fail it: nobody waits out its  *)
(* deadline on a connection that is gone.                                  *)
WaitersServed ==
  /\ \A e \in pending \cup ({uuidless} \ {None}) : e[1] = lock
  /\ \A o \in Ops : at[o] = "waiting" /\ waiter[o] = "pending" =>
       /\ <<o, leg[o]>> \in pending
       /\ receiver # "none" \/ closer # NoCloser

(* No connection is opened while an operation of an earlier one is under   *)
(* way: not while a transfer streams, nor before its last close, which     *)
(* would then hit the new connection.                                      *)
OneConnectionEach ==
  \A o \in Ops : /\ at[o] \in {"waiting", "closing"} => on[o] = opened
                 /\ o \in Live => on[o] = opened

(* A close that reports success has left no transfer, receiver, socket or  *)
(* waiter behind.                                                          *)
CloseLeavesNothing ==
  [][session = "closing" /\ closer.by = "session" /\ session' = "idle" /\ ~closer.alive =>
       Live' = {} /\ receiver' = "none" /\ conn' = 0 /\ pending' = {}]_vars

(* Every operation that began ends, whatever the TV does not answer and    *)
(* whoever closes or waits for which lock.                                 *)
OperationsEnd == \A o \in Ops : at[o] = "queued" ~> at[o] = "ended"
=============================================================================
