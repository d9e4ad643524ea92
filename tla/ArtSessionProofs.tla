-------------------------- MODULE ArtSessionProofs --------------------------
(***************************************************************************)
(* Theorems about ArtSession for every set of operations, every table of   *)
(* delays and every bound: its types, the single socket, the finality of   *)
(* stop, that it implements ArtLifecycle, the owners of the lock and of    *)
(* the close task, and the pacing of its recovery.                         *)
(***************************************************************************)
EXTENDS ArtSession, SequenceTheorems, TLAPS

(* Dropping one element of a queue leaves a queue.                         *)
LEMMA RemoveAtType ==
  ASSUME NEW S, NEW s \in Seq(S), NEW i \in DOMAIN s
  PROVE  RemoveAt(s, i) \in Seq(S)
<1>1. Len(s) \in Nat /\ i \in 1..Len(s)
  BY LenProperties
<1>2. SubSeq(s, 1, i-1) \in Seq(S) /\ SubSeq(s, i+1, Len(s)) \in Seq(S)
  BY <1>1, SubSeqProperties
<1>3. QED  BY <1>2, ConcatProperties DEF RemoveAt

(* A recorded failure keeps the counters in range and arms a known delay.  *)
LEMMA AfterFailureType ==
  ASSUME NEW r \in Retries,
         NEW host \in BOOLEAN
  PROVE  AfterFailure(r, host) \in Retries
<1> DEFINE f == Capped(r.failures + 1, Len(RetryDelays))
           h == IF host THEN Capped(r.hostFailures + 1, DormantThreshold) ELSE 0
           g == Capped(h, Len(HostRetryDelays))
<1>1. /\ Len(RetryDelays) \in Nat \ {0} /\ DOMAIN RetryDelays = 1..Len(RetryDelays)
      /\ Len(HostRetryDelays) \in Nat \ {0}
      /\ DOMAIN HostRetryDelays = 1..Len(HostRetryDelays)
  BY DelaysAssumption, EmptySeq, LenProperties
<1>2. r.failures \in Nat /\ r.hostFailures \in Nat
  BY <1>1 DEF DormantThreshold, Retries
<1>3. f \in 1..Len(RetryDelays)
  BY <1>1, <1>2 DEF Capped
<1>4. h \in 0..DormantThreshold /\ (host => h >= 1)
  BY <1>2 DEF Capped, DormantThreshold
<1>5. host => g \in 1..Len(HostRetryDelays)
  <2> HIDE DEF h
  <2> QED  BY <1>1, <1>4 DEF Capped, DormantThreshold
<1>6. RetryDelays[f] \in Delays /\ (host => HostRetryDelays[g] \in Delays)
  <2> HIDE DEF f, g
  <2> QED  BY <1>1, <1>3, <1>5 DEF Delays
<1>7. DormantSeconds \in Delays
  BY DEF Delays
<1> HIDE DEF f, h, g
<1>8. AfterFailure(r, host) =
        [failures |-> f, hostFailures |-> h,
         armed |-> IF ~host THEN RetryDelays[f]
                   ELSE IF h = DormantThreshold THEN DormantSeconds
                   ELSE HostRetryDelays[g]]
  BY DEF AfterFailure, f, h, g
<1>9. QED  BY <1>3, <1>4, <1>6, <1>7, <1>8 DEF Retries

-----------------------------------------------------------------------------
(* Types.                                                                  *)

(* Joining a close task preserves the types of what it touches.            *)
LEMMA EnterCloseType ==
  ASSUME TypeOK, NEW w \in Joiners, NEW force \in BOOLEAN,
         NEW queue \in Seq(LockUsers), EnterClose(w, force, queue)
  PROVE  /\ closeTask' \in {"none", "running", "ok", "cancelled"}
         /\ waiters' \in Seq(LockUsers)
         /\ join' \in [Joiners -> {"no", "wait", "ok", "cancelled"}]
<1>1. Append(queue, "close") \in Seq(LockUsers)
  BY AppendProperties DEF LockUsers
<1>2. QED  BY <1>1 DEF TypeOK, EnterClose

(* A recorded failure preserves the types of the policy.                   *)
LEMMA RecordType ==
  ASSUME TypeOK, NEW host \in BOOLEAN, RecordIfAccepting(host)
  PROVE  /\ state' \in {"stopped", "connecting", "ready", "backoff", "dormant"}
         /\ retry' \in Retries
BY AfterFailureType DEF TypeOK, RecordIfAccepting, RecordFailure, StateAfterFailure

LEMMA NoFailuresType ==
  NoFailures \in Retries
<1>1. Len(RetryDelays) \in Nat
  BY DelaysAssumption, LenProperties
<1>2. QED  BY <1>1 DEF NoFailures, DormantThreshold, Retries

(* A failing connect task preserves the types.                             *)
LEMMA ConnectFailsType ==
  ASSUME TypeOK, NEW host \in BOOLEAN, NEW queue \in Seq(LockUsers),
         ConnectFails(host, queue),
         UNCHANGED <<started, terminal, stop, envVars>>,
         holder' \in LockUsers \cup {"free"},
         conn' \in {"none", "open", "lost"},
         receiver' \in {"none", "running", "finishing"}
  PROVE  TypeOK'
<1>1. "connect" \in Joiners /\ LateCloseRequired \in BOOLEAN
  BY DEF Joiners, LateCloseRequired, TypeOK
<1>2. EnterClose("connect", LateCloseRequired, queue) /\ RecordIfAccepting(host)
  BY DEF ConnectFails
<1>3. /\ closeTask' \in {"none", "running", "ok", "cancelled"}
      /\ waiters' \in Seq(LockUsers)
      /\ join' \in [Joiners -> {"no", "wait", "ok", "cancelled"}]
  BY <1>1, <1>2, EnterCloseType
<1>4. QED  BY <1>2, <1>3, RecordType DEF TypeOK, ConnectFails, envVars

(* A successful connect task preserves the types.                          *)
LEMMA ConnectSucceedsType ==
  ASSUME TypeOK, ConnectSucceeds,
         UNCHANGED <<started, terminal, stop, envVars>>,
         waiters' \in Seq(LockUsers),
         holder' \in LockUsers \cup {"free"},
         conn' \in {"none", "open", "lost"},
         receiver' \in {"none", "running", "finishing"}
  PROVE  TypeOK'
<1>1. (generation + 1) % Generations \in 0..Generations - 1
  BY BoundsAssumption DEF TypeOK
<1>2. QED  BY <1>1, NoFailuresType
           DEF TypeOK, ConnectSucceeds, ResumeAwaiting, envVars

LEMMA TypeInit == Init => TypeOK
<1> SUFFICES ASSUME Init PROVE TypeOK
  OBVIOUS
<1>1. 0 \in 0..Generations - 1 /\ 0 \in 0..MaxCancels
  BY BoundsAssumption
<1>2. << >> \in Seq(LockUsers)
  BY EmptySeq
<1>3. QED  BY <1>1, <1>2, NoFailuresType DEF Init, TypeOK

LEMMA TypeStep == TypeOK /\ [Next]_vars => TypeOK'
<1> SUFFICES ASSUME TypeOK, [Next]_vars PROVE TypeOK'
  OBVIOUS
<1> USE DEF policyVars, taskVars, artVars, envVars
<1>a. Tail(waiters) \in Seq(LockUsers) \/ waiters = << >>
  BY HeadTailProperties DEF TypeOK
<1>b. \A i \in DOMAIN waiters : RemoveAt(waiters, i) \in Seq(LockUsers)
  BY RemoveAtType DEF TypeOK
<1>c. \A u \in LockUsers : Append(waiters, u) \in Seq(LockUsers)
  BY AppendProperties DEF TypeOK
<1>d. "connect" \in LockUsers /\ "close" \in LockUsers /\ Ops \subseteq LockUsers
  BY DEF LockUsers
<1>e. /\ "connect" \in Joiners /\ "stop" \in Joiners /\ Ops \subseteq Joiners
  BY DEF Joiners
<1>1. CASE AsyncStart
  BY <1>1, NoFailuresType DEF TypeOK, AsyncStart
<1>2. CASE Stop
  <2>1. CASE connect # "idle"
    BY <1>2, <2>1 DEF TypeOK, Stop
  <2>2. CASE connect = "idle"
    <3>1. EnterClose("stop", FALSE, waiters)
      BY <1>2, <2>2 DEF Stop
    <3>2. QED  BY <1>2, <1>e, <2>2, <3>1, EnterCloseType DEF TypeOK, Stop
  <2>3. QED  BY <2>1, <2>2
<1>3. CASE StopCloses
  <2>1. EnterClose("stop", FALSE, waiters) /\ waiters \in Seq(LockUsers)
    BY <1>3 DEF StopCloses, TypeOK
  <2>2. /\ closeTask' \in {"none", "running", "ok", "cancelled"}
        /\ waiters' \in Seq(LockUsers)
        /\ join' \in [Joiners -> {"no", "wait", "ok", "cancelled"}]
    BY <1>e, <2>1, EnterCloseType
  <2>3. QED  BY <1>3, <2>2 DEF TypeOK, StopCloses
<1>4. CASE StopFinish
  <2>1. join' \in [Joiners -> {"no", "wait", "ok", "cancelled"}]
    BY <1>4 DEF TypeOK, StopFinish
  <2>2. QED  BY <1>4, <2>1 DEF TypeOK, StopFinish
<1>5. CASE \E reachable, eligible \in BOOLEAN : ObservePower(reachable, eligible)
  <2>1. PICK reachable \in BOOLEAN, eligible \in BOOLEAN :
               ObservePower(reachable, eligible)
    BY <1>5
  <2> DEFINE before == IF reachable /\ ~wasReachable THEN NoFailures ELSE retry
  <2>2. before \in Retries
    BY NoFailuresType DEF TypeOK
  <2> HIDE DEF before
  <2>3. AfterFailure(before, FALSE) \in Retries
    BY <2>2, AfterFailureType
  <2>4. retry' = before \/ retry' = AfterFailure(before, FALSE)
    BY <2>1 DEF ObservePower, before
  <2>5. \/ ScheduleConnect /\ UNCHANGED <<join, stop, op>>
        \/ state' \in {state, "backoff"} /\ UNCHANGED <<taskVars, waiters>>
    BY <2>1 DEF ObservePower
  <2>6. wasReachable' \in BOOLEAN
    BY <2>1 DEF ObservePower
  <2>7. UNCHANGED <<started, terminal, generation, conn, receiver, holder, cancels>>
    BY <2>1 DEF ObservePower
  <2>8. CASE ScheduleConnect /\ UNCHANGED <<join, stop, op>>
    <3>1. waiters' \in Seq(LockUsers)
      BY <1>c, <1>d, <2>8 DEF ScheduleConnect
    <3>2. retry' \in Retries
      BY <2>2, <2>3, <2>4
    <3>3. QED  BY <2>6, <2>7, <2>8, <3>1, <3>2 DEF TypeOK, ScheduleConnect
  <2>9. CASE state' \in {state, "backoff"} /\ UNCHANGED <<taskVars, waiters>>
    <3>1. retry' \in Retries
      BY <2>2, <2>3, <2>4
    <3>2. QED  BY <2>6, <2>7, <2>9, <3>1 DEF TypeOK
  <2>10. QED  BY <2>5, <2>8, <2>9
<1>6. CASE ConnectAcquire
  <2>1. Tail(waiters) \in Seq(LockUsers)
    BY <1>6, <1>a DEF ConnectAcquire, NextInLine
  <2>2. CASE conn = "none" /\ ~terminal
    <3>1. CASE ~LiveChildren
      BY <1>6, <1>d, <2>1, <2>2, <3>1 DEF TypeOK, ConnectAcquire
    <3>2. CASE LiveChildren
      <4>1. CleanupRecheck \in Delays
        BY DEF Delays
      <4>2. retry' \in Retries
        BY <1>6, <2>2, <3>2, <4>1 DEF TypeOK, ConnectAcquire, Retries
      <4>3. op' \in [Ops -> {"idle", "await", "using", "selfclose", "closing"}]
        <5>1. ResumeAwaiting("idle")
          BY <1>6, <2>2, <3>2 DEF ConnectAcquire
        <5>2. QED  BY <5>1 DEF TypeOK, ResumeAwaiting
      <4>4. /\ state' = "backoff" /\ connect' = "idle"
            /\ waiters' = Tail(waiters)
            /\ UNCHANGED <<started, terminal, generation, connCancel, closeTask,
                           join, stop, holder, conn, receiver, envVars>>
        BY <1>6, <2>2, <3>2 DEF ConnectAcquire
      <4>5. QED  BY <2>1, <4>2, <4>3, <4>4 DEF TypeOK
    <3>3. QED  BY <3>1, <3>2
  <2>3. CASE conn # "none" \/ terminal
    <3>1. CASE Alive /\ MayPublish
      <4>1. ConnectSucceeds /\ waiters' = Tail(waiters)
        BY <1>6, <2>3, <3>1 DEF ConnectAcquire
      <4>2. UNCHANGED <<started, terminal, stop, holder, conn, receiver, envVars>>
        BY <1>6, <2>3 DEF ConnectAcquire
      <4>3. QED  BY <2>1, <4>1, <4>2, ConnectSucceedsType DEF TypeOK
    <3>2. CASE ~(Alive /\ MayPublish)
      <4>1. ConnectFails(FALSE, Tail(waiters))
        BY <1>6, <2>3, <3>2 DEF ConnectAcquire
      <4>2. UNCHANGED <<started, terminal, stop, holder, conn, receiver, envVars>>
        BY <1>6, <2>3 DEF ConnectAcquire
      <4>3. QED  BY <2>1, <4>1, <4>2, ConnectFailsType DEF TypeOK
    <3>3. QED  BY <3>1, <3>2
  <2>4. QED  BY <2>2, <2>3
<1>7. CASE HandshakeDone
  <2>1. /\ UNCHANGED <<started, terminal, stop, envVars>>
        /\ holder' = "free" /\ receiver' = "running"
    BY <1>7 DEF HandshakeDone
  <2>2. CASE conn' = "open" /\ ConnectSucceeds /\ UNCHANGED waiters
    BY <2>1, <2>2, ConnectSucceedsType DEF TypeOK
  <2>3. CASE conn' = "lost" /\ ConnectFails(FALSE, waiters)
    BY <2>1, <2>3, ConnectFailsType DEF TypeOK
  <2>4. QED  BY <1>7, <2>2, <2>3 DEF HandshakeDone
<1>8. CASE \E host \in BOOLEAN : HandshakeFails(host)
  <2>1. PICK host \in BOOLEAN : HandshakeFails(host)
    BY <1>8
  <2>2. /\ UNCHANGED <<started, terminal, stop, conn, receiver, envVars>>
        /\ holder' = "free" /\ ConnectFails(host, waiters)
    BY <2>1 DEF HandshakeFails
  <2>3. QED  BY <2>2, ConnectFailsType DEF TypeOK
<1>9. CASE ConnectCancelled
  <2>1. UNCHANGED <<started, terminal, stop, conn, receiver, envVars>>
    BY <1>9 DEF ConnectCancelled
  <2>2. CASE holder' = "free" /\ ConnectFails(FALSE, waiters)
    BY <2>1, <2>2, ConnectFailsType DEF TypeOK
  <2>3. ASSUME NEW i \in DOMAIN waiters,
               ConnectFails(FALSE, RemoveAt(waiters, i)), UNCHANGED holder
        PROVE  TypeOK'
    BY <1>b, <2>1, <2>3, ConnectFailsType DEF TypeOK
  <2>4. QED  BY <1>9, <2>2, <2>3 DEF ConnectCancelled
<1>10. CASE ConnectEnds
  <2>1. join' \in [Joiners -> {"no", "wait", "ok", "cancelled"}]
    BY <1>10 DEF TypeOK, ConnectEnds
  <2>2. QED  BY <1>10, <2>1 DEF TypeOK, ConnectEnds, ResumeAwaiting
<1>11. CASE CloseAcquire
  BY <1>11, <1>a, <1>d DEF TypeOK, CloseAcquire, NextInLine, TearDown
<1>12. CASE CloseEnds
  BY <1>12 DEF TypeOK, CloseEnds, CloseFinished
<1>13. CASE CloseExpires
  BY <1>13, <1>b DEF TypeOK, CloseExpires, CloseFinished
<1>14. CASE Rejoin
  BY <1>14, <1>c, <1>d DEF TypeOK, Rejoin
<1>15. ASSUME NEW o \in Ops, StartRead(o) \/ StartMutation(o) PROVE TypeOK'
  <2>1. CASE StartRead(o)
    BY <2>1 DEF TypeOK, StartRead
  <2>2. CASE StartMutation(o)
    <3>1. op' \in [Ops -> {"idle", "await", "using", "selfclose", "closing"}]
      BY <2>2 DEF TypeOK, StartMutation
    <3>2. UNCHANGED <<state, connect, connCancel, closeTask, waiters>>
            \/ ScheduleConnect
      BY <2>2 DEF StartMutation
    <3>3. UNCHANGED <<started, terminal, retry, generation, join, stop, conn,
                      receiver, holder, envVars>>
      BY <2>2 DEF StartMutation
    <3>4. CASE UNCHANGED <<state, connect, connCancel, closeTask, waiters>>
      BY <3>1, <3>3, <3>4 DEF TypeOK
    <3>5. CASE ScheduleConnect
      <4>1. waiters' \in Seq(LockUsers)
        BY <1>c, <1>d, <3>5 DEF ScheduleConnect
      <4>2. QED  BY <3>1, <3>3, <3>5, <4>1 DEF TypeOK, ScheduleConnect
    <3>6. QED  BY <3>2, <3>4, <3>5
  <2>3. QED  BY <1>15, <2>1, <2>2
<1>16. ASSUME NEW o \in Ops, OpStep(o) PROVE TypeOK'
  <2>1. CASE OpLeaves(o)
    BY <2>1 DEF TypeOK, OpLeaves
  <2>2. ASSUME AsyncConnectionFailed(o),
               UNCHANGED <<started, terminal, generation, connect, connCancel,
                           stop, conn, receiver, envVars>>,
               holder' \in LockUsers \cup {"free"}
        PROVE  TypeOK'
    <3>1. CASE ~Accepting
      BY <2>2, <3>1 DEF TypeOK, AsyncConnectionFailed
    <3>2. CASE Accepting
      <4>1. /\ RecordIfAccepting(FALSE) /\ EnterClose(o, FALSE, waiters)
            /\ op' = [op EXCEPT ![o] = "closing"]
        BY <2>2, <3>2 DEF AsyncConnectionFailed, RecordIfAccepting
      <4>2. /\ closeTask' \in {"none", "running", "ok", "cancelled"}
            /\ waiters' \in Seq(LockUsers)
            /\ join' \in [Joiners -> {"no", "wait", "ok", "cancelled"}]
        BY <1>e, <4>1, EnterCloseType DEF TypeOK
      <4>3. op' \in [Ops -> {"idle", "await", "using", "selfclose", "closing"}]
        BY <4>1 DEF TypeOK
      <4>4. state' \in {"stopped", "connecting", "ready", "backoff", "dormant"}
              /\ retry' \in Retries
        BY <4>1, RecordType
      <4>5. QED  BY <2>2, <4>2, <4>3, <4>4 DEF TypeOK
    <3>3. QED  BY <3>1, <3>2
  <2>3. CASE OpFails(o)
    BY <2>2, <2>3 DEF OpFails, TypeOK
  <2>4. CASE OpTimesOut(o)
    BY <2>4, <1>c, <1>d DEF TypeOK, OpTimesOut
  <2>5. CASE OpCloseAcquire(o)
    BY <2>5, <1>a, <1>d DEF TypeOK, OpCloseAcquire, NextInLine, TearDown
  <2>6. CASE OpCloseEnds(o)
    BY <2>2, <2>6 DEF OpCloseEnds
  <2>7. CASE OpCloseAbandoned(o)
    BY <2>7, <1>b DEF TypeOK, OpCloseAbandoned
  <2>8. CASE OpEnds(o)
    <3>1. join' \in [Joiners -> {"no", "wait", "ok", "cancelled"}]
      BY <2>8 DEF TypeOK, OpEnds
    <3>2. QED  BY <2>8, <3>1 DEF TypeOK, OpEnds
  <2>9. QED  BY <1>16, <2>1, <2>3, <2>4, <2>5, <2>6, <2>7, <2>8 DEF OpStep
<1>17. CASE PeerCloses
  BY <1>17 DEF TypeOK, PeerCloses
<1>18. CASE ReceiverExits
  BY <1>18 DEF TypeOK, ReceiverExits
<1>19. CASE ReceiverDone
  BY <1>19 DEF TypeOK, ReceiverDone
<1>20. CASE RetryElapses
  BY <1>20 DEF TypeOK, RetryElapses, Retries
<1>21. CASE OwnerCancelsConnect
  BY <1>21, BoundsAssumption DEF TypeOK, OwnerCancelsConnect
<1>22. CASE OwnerCancelsClose
  BY <1>22, <1>b, BoundsAssumption DEF TypeOK, OwnerCancelsClose, CloseFinished
<1>23. CASE UNCHANGED vars
  BY <1>23 DEF TypeOK, vars
<1>24. QED
  BY <1>1, <1>2, <1>3, <1>4, <1>5, <1>6, <1>7, <1>8, <1>9, <1>10, <1>11, <1>12,
     <1>13, <1>14, <1>15, <1>16, <1>17, <1>18, <1>19, <1>20, <1>21, <1>22, <1>23
     DEF Next, ConnectStep, CloseStep, StopStep

(* Every reachable state is well typed.                                    *)
THEOREM TypeCorrect == Spec => []TypeOK
BY TypeInit, TypeStep, PTL DEF Spec

-----------------------------------------------------------------------------
(* At most one websocket, in every reachable state.  The lifecycle lock    *)
(* makes the invariant inductive: only a handshake that succeeds publishes *)
(* a connection, and it gives the lock up in the same step.                *)
THEOREM OneSocketAlways == Spec => []OneSocket
<1>1. Init => OneSocket
  BY DEF Init, OneSocket
<1>2. OneSocket /\ [Next]_vars => OneSocket'
  <2> SUFFICES ASSUME OneSocket, [Next]_vars, holder' = "connect"
               PROVE  conn' = "none" /\ receiver' = "none"
    BY DEF OneSocket
  <2> USE DEF policyVars, taskVars, artVars, envVars
  <2>0. "close" # "connect" /\ \A o \in Ops : o # "connect"
    BY OpsAssumption
  <2>1. CASE ConnectAcquire
    BY <2>1 DEF ConnectAcquire, LiveChildren, NextInLine
  <2>2. CASE UNCHANGED <<conn, receiver, holder>>
    BY <2>2 DEF OneSocket
  <2>3. CASE PeerCloses \/ ReceiverExits \/ ReceiverDone
    BY <2>3 DEF OneSocket, PeerCloses, ReceiverExits, ReceiverDone
  <2>4. CASE ConnectCancelled
    BY <2>2, <2>4 DEF ConnectCancelled
  <2>5. ASSUME NEW o \in Ops, OpStep(o) PROVE conn' = "none" /\ receiver' = "none"
    BY <2>0, <2>2, <2>5
       DEF OpStep, OpLeaves, OpFails, OpTimesOut, OpCloseAcquire, OpCloseEnds,
           OpCloseAbandoned, OpEnds
  <2>6. CASE CloseStep \/ OwnerCancelsClose
    BY <2>2, <2>6 DEF CloseStep, CloseAcquire, CloseEnds, CloseExpires,
                      OwnerCancelsClose
  <2>7. CASE HandshakeDone \/ \E host \in BOOLEAN : HandshakeFails(host)
    BY <2>7 DEF HandshakeDone, HandshakeFails
  <2>8. CASE \E reachable, eligible \in BOOLEAN : ObservePower(reachable, eligible)
    BY <2>2, <2>8 DEF ObservePower
  <2>9. QED
    BY <2>1, <2>2, <2>3, <2>4, <2>5, <2>6, <2>7, <2>8
       DEF Next, ConnectStep, StopStep, AsyncStart, Stop, StopCloses, StopFinish,
           ConnectEnds, Rejoin, StartRead, StartMutation, RetryElapses,
           OwnerCancelsConnect, vars
<1>3. QED  BY <1>1, <1>2, PTL DEF Spec

-----------------------------------------------------------------------------
(* Stop is final.  The strengthening ties the stop task, the flags and the *)
(* task's place in the queue for the close.                                *)
StopInv ==
  /\ terminal <=> stop # "none"
  /\ terminal => ~started
  /\ join["stop"] # "no" => stop # "none"
  /\ StoppedIsFinal

LEMMA StopInvariant == Spec => []StopInv
<1>1. Init => StopInv
  BY DEF Init, StopInv, StoppedIsFinal, Joiners
<1>2. TypeOK /\ StopInv /\ [Next]_vars => StopInv'
  <2> SUFFICES ASSUME TypeOK, StopInv, [Next]_vars PROVE StopInv'
    OBVIOUS
  <2> USE DEF policyVars, taskVars, artVars, envVars
  <2>0. /\ "stop" \in Joiners /\ "connect" \in Joiners
        /\ \A o \in Ops : o \in Joiners /\ o # "stop"
        /\ join \in [Joiners -> {"no", "wait", "ok", "cancelled"}]
    BY OpsAssumption DEF Joiners, TypeOK
  <2>1. CASE AsyncStart
    BY <2>1 DEF AsyncStart, StopInv, StoppedIsFinal
  <2>2. CASE Stop
    BY <2>2 DEF Stop, StopInv, StoppedIsFinal
  <2>3. CASE StopCloses
    BY <2>3 DEF StopCloses, StopInv, StoppedIsFinal
  <2>4. CASE StopFinish
    BY <2>0, <2>4 DEF StopFinish, StopInv, StoppedIsFinal
  <2>5. ASSUME UNCHANGED <<started, terminal, stop>>,
               state' = state \/ ~terminal,
               join'["stop"] = "no" \/ join["stop"] # "no"
        PROVE  StopInv'
    BY <2>5 DEF StopInv, StoppedIsFinal
  <2>6. ASSUME NEW host, NEW queue, ConnectFails(host, queue),
               UNCHANGED <<started, terminal, stop>>
        PROVE  StopInv'
    <3>1. state' = state \/ ~terminal
      BY <2>6 DEF ConnectFails, RecordIfAccepting, Accepting
    <3>2. join'["stop"] = join["stop"]
      BY <2>0, <2>6 DEF ConnectFails, EnterClose
    <3>3. QED  BY <2>5, <2>6, <3>1, <3>2
  <2>7. CASE ConnectAcquire
    <3>1. CASE ~terminal /\ conn = "none"
      BY <2>5, <2>7, <3>1 DEF ConnectAcquire
    <3>2. CASE (terminal \/ conn # "none") /\ Alive /\ MayPublish
      BY <2>5, <2>7, <3>2 DEF ConnectAcquire, ConnectSucceeds, MayPublish
    <3>3. CASE (terminal \/ conn # "none") /\ ~(Alive /\ MayPublish)
      BY <2>6, <2>7, <3>3 DEF ConnectAcquire
    <3>4. QED  BY <3>1, <3>2, <3>3
  <2>8. CASE HandshakeDone
    BY <2>5, <2>6, <2>8 DEF HandshakeDone, ConnectSucceeds, MayPublish
  <2>9. CASE \E host \in BOOLEAN : HandshakeFails(host)
    BY <2>6, <2>9 DEF HandshakeFails
  <2>10. CASE ConnectCancelled
    BY <2>6, <2>10 DEF ConnectCancelled
  <2>11. CASE CloseStep \/ OwnerCancelsClose
    BY <2>0, <2>5, <2>11 DEF CloseStep, CloseAcquire, CloseEnds, CloseExpires,
                      OwnerCancelsClose, CloseFinished
  <2>12. CASE \E reachable, eligible \in BOOLEAN : ObservePower(reachable, eligible)
    <3>1. started /\ UNCHANGED <<started, terminal, stop, join>>
      BY <2>12 DEF ObservePower, ScheduleConnect
    <3>2. QED  BY <2>5, <3>1 DEF StopInv
  <2>13. ASSUME NEW o \in Ops, StartRead(o) \/ StartMutation(o) \/ OpStep(o)
         PROVE  StopInv'
    <3>1. ASSUME AsyncConnectionFailed(o), UNCHANGED <<started, terminal, stop>>
          PROVE  StopInv'
      <4>1. state' = state \/ ~terminal
        BY <3>1 DEF AsyncConnectionFailed, Accepting
      <4>2. join'["stop"] = join["stop"]
        BY <2>0, <3>1 DEF AsyncConnectionFailed, EnterClose
      <4>3. QED  BY <2>5, <3>1, <4>1, <4>2
    <3>2. CASE StartRead(o) \/ StartMutation(o)
      BY <2>5, <3>2 DEF StartRead, StartMutation, ScheduleConnect, CanConnect,
                        Accepting
    <3>3. CASE OpFails(o) \/ OpCloseEnds(o)
      BY <3>1, <3>3 DEF OpFails, OpCloseEnds
    <3>4. CASE OpLeaves(o) \/ OpTimesOut(o) \/ OpCloseAcquire(o)
                 \/ OpCloseAbandoned(o)
      BY <2>5, <3>4 DEF OpLeaves, OpTimesOut, OpCloseAcquire, OpCloseAbandoned
    <3>5. CASE OpEnds(o)
      BY <2>0, <2>5, <3>5 DEF OpEnds
    <3>6. QED  BY <2>13, <3>2, <3>3, <3>4, <3>5 DEF OpStep
  <2>14. CASE ConnectEnds
    BY <2>0, <2>5, <2>14 DEF ConnectEnds
  <2>15. CASE Rejoin
    BY <2>0, <2>5, <2>15 DEF Rejoin
  <2>16. CASE PeerCloses \/ ReceiverExits \/ ReceiverDone \/ RetryElapses
                \/ OwnerCancelsConnect \/ UNCHANGED vars
    BY <2>5, <2>16 DEF PeerCloses, ReceiverExits, ReceiverDone, RetryElapses,
                       OwnerCancelsConnect, vars
  <2>17. QED
    BY <2>1, <2>2, <2>3, <2>4, <2>7, <2>8, <2>9, <2>10, <2>11, <2>12, <2>13,
       <2>14, <2>15, <2>16 DEF Next, ConnectStep, StopStep
<1>3. QED  BY <1>1, <1>2, TypeCorrect, PTL DEF Spec

(* Once async_stop has returned, the session is stopped for good.          *)
THEOREM StopIsFinal == Spec => []StoppedIsFinal
<1>1. StopInv => StoppedIsFinal
  BY DEF StopInv
<1>2. QED  BY <1>1, StopInvariant, PTL

-----------------------------------------------------------------------------
(* Transfers that do not begin, and those that do.                         *)

LEMMA TransfersLeave ==
  ASSUME \A o \in Ops : op'[o] \in {"using", "selfclose"} => op[o] \in {"using", "selfclose"}
  PROVE  Transferring' \subseteq Transferring
BY OpsAssumption DEF Transferring

LEMMA TransfersStay == ASSUME UNCHANGED op PROVE UNCHANGED Transferring
BY DEF Transferring

LEMMA TransfersBegin ==
  ASSUME \A o \in Ops : op[o] \in {"using", "selfclose"} => op'[o] \in {"using", "selfclose"}
  PROVE  Transferring \subseteq Transferring' /\ Transferring' \subseteq Transfers
BY OpsAssumption DEF Transferring

\* What a step of an operation does to the transfers.
LEMMA OpStepsLeave ==
  ASSUME TypeOK, NEW o \in Ops, OpStep(o)
  PROVE  Transferring' \subseteq Transferring
<1>1. \A p \in Ops : op'[p] \in {"using", "selfclose"} => op[p] \in {"using", "selfclose"}
  <2>1. CASE OpLeaves(o) \/ OpEnds(o) \/ OpCloseAbandoned(o)
    BY <2>1 DEF OpLeaves, OpEnds, OpCloseAbandoned, TypeOK
  <2>2. CASE OpFails(o) \/ OpCloseEnds(o)
    BY <2>2 DEF OpFails, OpCloseEnds, AsyncConnectionFailed, TypeOK
  <2>3. CASE OpTimesOut(o)
    BY <2>3 DEF OpTimesOut, TypeOK
  <2>4. CASE OpCloseAcquire(o)
    BY <2>4 DEF OpCloseAcquire, taskVars
  <2> QED
    BY <2>1, <2>2, <2>3, <2>4 DEF OpStep
<1> QED
  BY <1>1, TransfersLeave

(* The session implements ArtLifecycle: its transport never opens twice,   *)
(* nor over a transfer or a receiver of the last connection; transfers     *)
(* begin on a live connection only, and nothing opens after the stop.      *)
THEOREM ImplementsLifecycle == Spec => Implements
<1>1. Init => Lifecycle!Init
  BY OpsAssumption DEF Init, Lifecycle!Init, link, Transferring
<1>2. TypeOK /\ OneSocket /\ StopInv /\ [Next]_vars
        => [Lifecycle!Next]_(Lifecycle!lifecycleVars)
  <2> SUFFICES ASSUME TypeOK, OneSocket, StopInv, [Next]_vars
               PROVE  [Lifecycle!Next]_(Lifecycle!lifecycleVars)
    OBVIOUS
  <2> DEFINE Implemented == [Lifecycle!Next]_(Lifecycle!lifecycleVars)
             LinkStays == /\ UNCHANGED <<receiver, terminal>>
                          /\ holder = "connect" <=> holder' = "connect"
  <2>0. /\ "close" # "connect" /\ "free" # "connect" /\ \A o \in Ops : o # "connect"
        /\ receiver \in {"none", "running", "finishing"}
    BY OpsAssumption DEF TypeOK
  <2>a. LinkStays => UNCHANGED link
    <3> SUFFICES ASSUME LinkStays PROVE UNCHANGED link
      OBVIOUS
    <3>1. CASE holder = "connect"
      BY <3>1 DEF link
    <3>2. CASE holder # "connect"
      BY <2>0, <3>2 DEF link
    <3> QED
      BY <3>1, <3>2
  \* The link stays, and transfers may end.
  <2>1. ASSUME LinkStays, Transferring' \subseteq Transferring
        PROVE  Implemented
    BY <2>a, <2>1 DEF Lifecycle!Next, Lifecycle!End
  \* The link stays up, and transfers begin.
  <2>2. ASSUME LinkStays, Alive, ~terminal,
               \A o \in Ops : op[o] \in {"using", "selfclose"} => op'[o] \in {"using", "selfclose"}
        PROVE  Implemented
    <3>1. link = "up"
      BY <2>2 DEF Alive, OneSocket, link
    <3> QED
      BY <2>a, <2>2, <3>1, TransfersBegin DEF Lifecycle!Next, Lifecycle!Begin
  \* The connection is torn down.
  <2>3. ASSUME holder # "connect", holder' # "connect", UNCHANGED <<terminal, op>>,
               receiver' = (IF receiver = "running" THEN "finishing" ELSE receiver)
        PROVE  Implemented
    <3>1. UNCHANGED Transferring
      BY <2>3, TransfersStay
    <3>2. CASE receiver = "running"
      BY <2>3, <3>1, <3>2 DEF Lifecycle!Next, Lifecycle!Retire, link
    <3>3. CASE receiver # "running"
      BY <2>1, <2>3, <3>1, <3>3
    <3> QED
      BY <3>2, <3>3
  \* A handshake is given up.
  <2>4. ASSUME holder = "connect", holder' = "free", UNCHANGED <<receiver, terminal, op>>
        PROVE  Implemented
    <3>1. UNCHANGED Transferring
      BY <2>4, TransfersStay
    <3> QED
      BY <2>4, <3>1 DEF OneSocket, Lifecycle!Next, Lifecycle!Abandon, link
  <2>5. CASE Stop
    <3>1. ~terminal /\ terminal' = TRUE /\ UNCHANGED <<holder, receiver, op>>
      BY <2>5 DEF Stop, StopInv
    <3>2. UNCHANGED Transferring
      BY <3>1, TransfersStay
    <3> QED
      BY <3>1, <3>2 DEF Lifecycle!Next, Lifecycle!Shut, link
  <2>6. CASE ConnectAcquire
    <3>1. holder = "free" /\ UNCHANGED <<conn, receiver>>
      BY <2>6 DEF ConnectAcquire, NextInLine
    <3>2. CASE ~terminal /\ conn = "none" /\ ~LiveChildren
      <4>1. holder' = "connect" /\ UNCHANGED <<op, terminal>>
        BY <2>6, <3>2 DEF ConnectAcquire, policyVars, taskVars
      <4>2. link = "down" /\ link' = "opening"
        BY <2>0, <3>1, <3>2, <4>1 DEF LiveChildren, link
      <4>3. Transferring = {} /\ UNCHANGED Transferring
        BY <3>2, <4>1, TransfersStay DEF LiveChildren, Transferring
      <4> QED
        BY <3>2, <4>1, <4>2, <4>3 DEF Lifecycle!Next, Lifecycle!Open
    <3>3. CASE ~terminal /\ conn = "none" /\ LiveChildren
      <4>1. LinkStays /\ ResumeAwaiting("idle")
        BY <2>0, <2>6, <3>1, <3>3 DEF ConnectAcquire
      <4> QED
        BY <2>1, <4>1, TransfersLeave DEF ResumeAwaiting
    <3>4. CASE (terminal \/ conn # "none") /\ Alive /\ MayPublish
      <4>1. LinkStays /\ ResumeAwaiting("using")
        BY <2>0, <2>6, <3>1, <3>4 DEF ConnectAcquire, ConnectSucceeds
      <4>2. ~terminal
        BY <3>4 DEF MayPublish
      <4>3. \A o \in Ops : op[o] \in {"using", "selfclose"} => op'[o] \in {"using", "selfclose"}
        BY <4>1 DEF ResumeAwaiting
      <4> QED
        BY <2>2, <3>4, <4>1, <4>2, <4>3
    <3>5. CASE (terminal \/ conn # "none") /\ ~(Alive /\ MayPublish)
      <4>1. LinkStays /\ UNCHANGED op
        BY <2>0, <2>6, <3>1, <3>5 DEF ConnectAcquire, ConnectFails
      <4> QED
        BY <2>1, <4>1, TransfersStay
    <3> QED
      BY <3>2, <3>3, <3>4, <3>5
  <2>7. CASE HandshakeDone
    <3>1. ~terminal /\ UNCHANGED terminal
      BY <2>7 DEF HandshakeDone, MayPublish
    <3>2. link = "opening" /\ link' = "up"
      BY <2>7 DEF HandshakeDone, link
    <3>3. Transferring' \in SUBSET Transfers
      BY DEF Transferring
    <3> QED
      BY <3>1, <3>2, <3>3 DEF Lifecycle!Next, Lifecycle!Establish
  <2>8. CASE \E host \in BOOLEAN : HandshakeFails(host)
    BY <2>4, <2>8 DEF HandshakeFails, ConnectFails
  <2>9. CASE ConnectCancelled
    <3>1. UNCHANGED <<op, terminal, receiver>>
      BY <2>9 DEF ConnectCancelled, ConnectFails
    <3>2. CASE UNCHANGED holder
      BY <2>1, <3>1, <3>2, TransfersStay
    <3>3. CASE holder = "connect" /\ holder' = "free"
      BY <2>4, <3>1, <3>3
    <3> QED
      BY <2>9, <3>2, <3>3 DEF ConnectCancelled
  <2>10. CASE CloseStep \/ OwnerCancelsClose
    <3>1. UNCHANGED <<terminal, op>>
      BY <2>10 DEF CloseStep, CloseAcquire, CloseEnds, CloseExpires, OwnerCancelsClose,
                   policyVars, taskVars
    <3>2. CASE CloseAcquire
      BY <2>0, <2>3, <3>1, <3>2 DEF CloseAcquire, TearDown, NextInLine
    <3>3. CASE CloseEnds \/ CloseExpires \/ OwnerCancelsClose
      <4>1. LinkStays
        BY <2>0, <3>1, <3>3 DEF CloseEnds, CloseExpires, OwnerCancelsClose
      <4> QED
        BY <2>1, <3>1, <4>1, TransfersStay
    <3> QED
      BY <2>10, <3>2, <3>3 DEF CloseStep
  <2>11. ASSUME NEW o \in Ops, OpStep(o)
         PROVE  Implemented
    <3>1. CASE OpCloseAcquire(o)
      BY <2>0, <2>3, <3>1 DEF OpCloseAcquire, TearDown, NextInLine, policyVars, taskVars
    <3>2. CASE ~OpCloseAcquire(o)
      <4>1. LinkStays
        BY <2>0, <2>11, <3>2 DEF OpStep, OpLeaves, OpFails, OpTimesOut, OpCloseEnds,
                                 OpCloseAbandoned, OpEnds, policyVars, artVars
      <4> QED
        BY <2>1, <2>11, <4>1, OpStepsLeave
    <3> QED
      BY <3>1, <3>2
  <2>12. CASE ReceiverExits
    BY <2>3, <2>12 DEF ReceiverExits, OneSocket, policyVars, taskVars
  <2>13. CASE ReceiverDone
    <3>1. link = "retiring" /\ link' = "down" /\ UNCHANGED <<terminal, op>>
      BY <2>13 DEF ReceiverDone, OneSocket, link, policyVars, taskVars
    <3> QED
      BY <3>1, TransfersStay DEF Lifecycle!Next, Lifecycle!Drained
  <2>14. CASE \E reachable, eligible \in BOOLEAN : ObservePower(reachable, eligible)
    <3>1. LinkStays /\ UNCHANGED op
      BY <2>14 DEF ObservePower, taskVars
    <3> QED
      BY <2>1, <3>1, TransfersStay
  <2>15. ASSUME NEW o \in Ops, StartRead(o) \/ StartMutation(o)
         PROVE  Implemented
    <3>1. LinkStays
      BY <2>15 DEF StartRead, StartMutation, policyVars, artVars
    <3>2. op[o] = "idle" /\ op' \in {[op EXCEPT ![o] = "using"], [op EXCEPT ![o] = "await"]}
      BY <2>15 DEF StartRead, StartMutation
    <3>3. CASE op' = [op EXCEPT ![o] = "using"] /\ Ready
      <4>1. ~terminal
        BY <2>15 DEF StartRead, StartMutation, StopInv, Accepting
      <4>2. \A p \in Ops : op[p] \in {"using", "selfclose"} => op'[p] \in {"using", "selfclose"}
        BY <3>2, <3>3 DEF TypeOK
      <4> QED
        BY <2>2, <3>1, <3>3, <4>1, <4>2 DEF Ready
    <3>4. CASE op' = [op EXCEPT ![o] = "await"]
      <4>1. \A p \in Ops : op'[p] \in {"using", "selfclose"} => op[p] \in {"using", "selfclose"}
        BY <3>4 DEF TypeOK
      <4> QED
        BY <2>1, <3>1, <4>1, TransfersLeave
    <3> QED
      BY <2>15, <3>3, <3>4 DEF StartRead, StartMutation
  <2>16. CASE ConnectEnds
    <3>1. LinkStays /\ ResumeAwaiting("idle")
      BY <2>16 DEF ConnectEnds, policyVars, artVars
    <3> QED
      BY <2>1, <3>1, TransfersLeave DEF ResumeAwaiting
  <2>17. CASE \/ AsyncStart \/ StopStep \/ Rejoin \/ PeerCloses \/ RetryElapses
              \/ OwnerCancelsConnect \/ UNCHANGED vars
    <3>1. LinkStays /\ UNCHANGED op
      BY <2>17 DEF AsyncStart, StopStep, StopCloses, StopFinish, Rejoin, PeerCloses,
                   RetryElapses, OwnerCancelsConnect, vars, policyVars, taskVars, artVars
    <3> QED
      BY <2>1, <3>1, TransfersStay
  <2>18. CASE ConnectStep
    BY <2>6, <2>7, <2>8, <2>9, <2>16, <2>18 DEF ConnectStep
  <2>19. CASE \E o \in Ops : StartRead(o) \/ StartMutation(o) \/ OpStep(o)
    <3>1. PICK o \in Ops : StartRead(o) \/ StartMutation(o) \/ OpStep(o)
      BY <2>19
    <3> QED
      BY <2>11, <2>15, <3>1
  <2>20. \/ AsyncStart \/ Stop \/ StopStep \/ ConnectStep \/ CloseStep \/ Rejoin
         \/ \E reachable, eligible \in BOOLEAN : ObservePower(reachable, eligible)
         \/ \E o \in Ops : StartRead(o) \/ StartMutation(o) \/ OpStep(o)
         \/ PeerCloses \/ ReceiverExits \/ ReceiverDone \/ RetryElapses
         \/ OwnerCancelsConnect \/ OwnerCancelsClose \/ UNCHANGED vars
    BY DEF Next
  <2> QED
    BY <2>5, <2>10, <2>12, <2>13, <2>14, <2>17, <2>18, <2>19, <2>20
<1>3. QED
  BY <1>1, <1>2, TypeCorrect, OneSocketAlways, StopInvariant, PTL
     DEF Spec, Implements, Lifecycle!Spec

-----------------------------------------------------------------------------
(* The queue of the lifecycle lock.  A seat is a place in it, or the lock. *)

In(q, u) == \E i \in DOMAIN q : q[i] = u
Once(q) == \A i, j \in DOMAIN q : q[i] = q[j] => i = j
Seat(q, h, u) == h = u \/ In(q, u)
Orderly(q, h) == q \in Seq(LockUsers) /\ Once(q) /\ ~In(q, h)

LEMMA Appended ==
  ASSUME NEW q, NEW h, Orderly(q, h), NEW u \in LockUsers, ~Seat(q, h, u)
  PROVE  /\ Orderly(Append(q, u), h)
         /\ \A v : Seat(Append(q, u), h, v) <=> Seat(q, h, v) \/ v = u
<1> DEFINE r == Append(q, u)
<1>1. q \in Seq(LockUsers) /\ Len(q) \in Nat /\ DOMAIN q = 1 .. Len(q)
  BY LenProperties DEF Orderly
<1>2. /\ r \in Seq(LockUsers) /\ DOMAIN r = 1 .. Len(q) + 1
      /\ r[Len(q) + 1] = u /\ \A i \in 1 .. Len(q) : r[i] = q[i]
  BY <1>1, AppendProperties, LenProperties
<1> HIDE DEF r
<1>3. \A v : In(r, v) <=> In(q, v) \/ v = u
  BY <1>1, <1>2 DEF In
<1>4. Once(r)
  <2> SUFFICES ASSUME NEW i \in 1 .. Len(q) + 1, NEW j \in 1 .. Len(q) + 1, r[i] = r[j]
               PROVE  i = j
    BY <1>2 DEF Once
  <2>1. \A k \in 1 .. Len(q) : q[k] # u
    BY <1>1 DEF Seat, In
  <2>2. CASE i = Len(q) + 1 \/ j = Len(q) + 1
    BY <1>1, <1>2, <2>1, <2>2
  <2>3. CASE i \in 1 .. Len(q) /\ j \in 1 .. Len(q)
    BY <1>1, <1>2, <2>3 DEF Orderly, Once
  <2> QED
    BY <1>1, <2>2, <2>3
<1>5. ~In(r, h)
  BY <1>3 DEF Orderly, Seat
<1> QED
  BY <1>2, <1>3, <1>4, <1>5 DEF Orderly, Seat, r

LEMMA Removed ==
  ASSUME NEW q, NEW h, Orderly(q, h), NEW k \in DOMAIN q
  PROVE  /\ Orderly(RemoveAt(q, k), h)
         /\ \A v : Seat(RemoveAt(q, k), h, v) <=> Seat(q, h, v) /\ v # q[k]
<1> DEFINE r == RemoveAt(q, k)
<1>1. /\ q \in Seq(LockUsers) /\ Len(q) \in Nat /\ DOMAIN q = 1 .. Len(q)
      /\ k \in 1 .. Len(q)
  BY LenProperties DEF Orderly
<1>2. r \in Seq(LockUsers)
  BY <1>1, RemoveAtType
<1>3. /\ DOMAIN r = 1 .. Len(q) - 1
      /\ \A i \in 1 .. Len(q) - 1 : r[i] = q[IF i < k THEN i ELSE i + 1]
  <2> DEFINE a == SubSeq(q, 1, k - 1)
             b == SubSeq(q, k + 1, Len(q))
  <2>1. /\ a \in Seq(LockUsers) /\ Len(a) = k - 1
        /\ \A i \in 1 .. k - 1 : a[i] = q[i]
    BY <1>1, SubSeqProperties
  <2>2. /\ b \in Seq(LockUsers) /\ Len(b) = Len(q) - k
        /\ \A i \in 1 .. Len(q) - k : b[i] = q[k + i]
    BY <1>1, SubSeqProperties
  <2> HIDE DEF a, b
  <2>3. /\ Len(a \o b) = Len(q) - 1 /\ a \o b \in Seq(LockUsers)
        /\ \A i \in 1 .. Len(q) - 1 : (a \o b)[i] = IF i <= k - 1 THEN a[i] ELSE b[i - (k - 1)]
    <3>1. /\ a \o b \in Seq(LockUsers) /\ Len(a \o b) = Len(a) + Len(b)
          /\ \A i \in 1 .. Len(a) + Len(b) :
               (a \o b)[i] = IF i <= Len(a) THEN a[i] ELSE b[i - Len(a)]
      BY <2>1, <2>2, ConcatProperties
    <3>2. Len(a) + Len(b) = Len(q) - 1
      BY <1>1, <2>1, <2>2
    <3> QED
      BY <2>1, <3>1, <3>2
  <2>4. r = a \o b
    BY DEF RemoveAt, a, b
  <2>5. DOMAIN r = 1 .. Len(q) - 1
    BY <2>3, <2>4, LenProperties
  <2>6. ASSUME NEW i \in 1 .. Len(q) - 1
        PROVE  r[i] = q[IF i < k THEN i ELSE i + 1]
    <3>1. CASE i < k
      BY <1>1, <2>1, <2>3, <2>4, <3>1
    <3>2. CASE ~(i < k)
      <4>1. i - (k - 1) \in 1 .. Len(q) - k /\ k + (i - (k - 1)) = i + 1 /\ ~(i <= k - 1)
        BY <1>1, <3>2
      <4>2. b[i - (k - 1)] = q[i + 1]
        BY <2>2, <4>1
      <4> QED
        BY <2>3, <2>4, <3>2, <4>1, <4>2
    <3> QED
      BY <3>1, <3>2
  <2> QED
    BY <2>5, <2>6
<1> HIDE DEF r
<1>4. \A i, j \in 1 .. Len(q) : q[i] = q[j] => i = j
  BY <1>1 DEF Orderly, Once
<1>5. ASSUME NEW v PROVE In(r, v) <=> In(q, v) /\ v # q[k]
  <2>1. ASSUME NEW i \in 1 .. Len(q) - 1, r[i] = v PROVE In(q, v) /\ v # q[k]
    <3>1. CASE i < k
      BY <1>1, <1>3, <1>4, <2>1, <3>1 DEF In
    <3>2. CASE ~(i < k)
      BY <1>1, <1>3, <1>4, <2>1, <3>2 DEF In
    <3> QED
      BY <3>1, <3>2
  <2>2. ASSUME NEW i \in 1 .. Len(q), q[i] = v, v # q[k] PROVE In(r, v)
    <3>1. CASE i < k
      BY <1>1, <1>3, <2>2, <3>1 DEF In
    <3>2. CASE ~(i < k)
      <4>1. i - 1 \in 1 .. Len(q) - 1 /\ ~(i - 1 < k) /\ (i - 1) + 1 = i
        BY <1>1, <2>2, <3>2
      <4> QED
        BY <1>3, <2>2, <4>1 DEF In
    <3> QED
      BY <3>1, <3>2
  <2> QED
    BY <1>1, <1>3, <2>1, <2>2 DEF In
<1>6. Once(r)
  <2> SUFFICES ASSUME NEW i \in 1 .. Len(q) - 1, NEW j \in 1 .. Len(q) - 1, r[i] = r[j]
               PROVE  i = j
    BY <1>3 DEF Once
  <2>1. CASE i < k /\ j < k
    BY <1>1, <1>3, <1>4, <2>1
  <2>2. CASE i < k /\ ~(j < k)
    BY <1>1, <1>3, <1>4, <2>2
  <2>3. CASE ~(i < k) /\ j < k
    BY <1>1, <1>3, <1>4, <2>3
  <2>4. CASE ~(i < k) /\ ~(j < k)
    BY <1>1, <1>3, <1>4, <2>4
  <2> QED
    BY <1>1, <2>1, <2>2, <2>3, <2>4
<1>7. ~In(r, h) /\ h # q[k]
  BY <1>1, <1>5 DEF Orderly, In
<1>8. \A v : Seat(r, h, v) <=> Seat(q, h, v) /\ v # q[k]
  BY <1>5, <1>7 DEF Seat
<1> QED
  BY <1>2, <1>6, <1>7, <1>8 DEF Orderly, r

\* The lock is given up, or was free.
LEMMA Released ==
  ASSUME NEW q, NEW h, Orderly(q, h)
  PROVE  /\ Orderly(q, "free")
         /\ \A v \in LockUsers : Seat(q, "free", v) <=> Seat(q, h, v) /\ v # h
<1>1. "free" \notin LockUsers
  BY OpsAssumption DEF LockUsers
<1>2. q \in Seq(LockUsers) /\ \A i \in DOMAIN q : q[i] \in LockUsers
  BY ElementOfSeq, LenProperties DEF Orderly
<1>3. ~In(q, "free") /\ ~In(q, h)
  BY <1>1, <1>2 DEF In, Orderly
<1>4. \A v \in LockUsers : Seat(q, "free", v) <=> Seat(q, h, v) /\ v # h
  BY <1>1, <1>3 DEF Seat
<1> QED
  BY <1>3, <1>4 DEF Orderly

\* The first in the queue takes the lock, or passes it by.
LEMMA Served ==
  ASSUME NEW q, Orderly(q, "free"), q # << >>
  PROVE  /\ Orderly(Tail(q), Head(q)) /\ Orderly(Tail(q), "free")
         /\ \A v \in LockUsers : Seat(Tail(q), Head(q), v) <=> Seat(q, "free", v)
         /\ \A v \in LockUsers : Seat(Tail(q), "free", v) <=> Seat(q, "free", v) /\ v # Head(q)
<1> DEFINE r == Tail(q)
<1>1. /\ q \in Seq(LockUsers) /\ Len(q) \in Nat \ {0} /\ DOMAIN q = 1 .. Len(q)
      /\ Head(q) = q[1]
  BY LenProperties, EmptySeq, HeadTailProperties DEF Orderly
<1>2. /\ r \in Seq(LockUsers) /\ DOMAIN r = 1 .. Len(q) - 1
      /\ \A i \in 1 .. Len(q) - 1 : r[i] = q[i + 1]
  <2>1. r \in Seq(LockUsers) /\ Len(r) = Len(q) - 1
    BY <1>1, HeadTailProperties DEF Orderly
  <2>2. \A i \in 1 .. Len(r) : r[i] = q[i + 1]
    BY <1>1, <2>1, HeadTailProperties
  <2> QED
    BY <2>1, <2>2, LenProperties
<1> HIDE DEF r
<1>3. \A i, j \in 1 .. Len(q) : q[i] = q[j] => i = j
  BY <1>1 DEF Orderly, Once
<1>4. ASSUME NEW v PROVE In(r, v) <=> In(q, v) /\ v # q[1]
  <2>1. ASSUME NEW i \in 1 .. Len(q) - 1, r[i] = v PROVE In(q, v) /\ v # q[1]
    BY <1>1, <1>2, <1>3, <2>1 DEF In
  <2>2. ASSUME NEW i \in 1 .. Len(q), q[i] = v, v # q[1] PROVE In(r, v)
    <3>1. i - 1 \in 1 .. Len(q) - 1 /\ (i - 1) + 1 = i
      BY <1>1, <2>2
    <3> QED
      BY <1>2, <2>2, <3>1 DEF In
  <2> QED
    BY <1>1, <1>2, <2>1, <2>2 DEF In
<1>5. Once(r)
  BY <1>1, <1>2, <1>3 DEF Once
<1>6. In(q, q[1]) /\ ~In(q, "free")
  BY <1>1 DEF Orderly, In
<1>7. Orderly(r, q[1]) /\ Orderly(r, "free")
  BY <1>2, <1>4, <1>5, <1>6 DEF Orderly
<1>8. /\ \A v : Seat(r, q[1], v) <=> In(q, v)
      /\ \A v \in LockUsers : Seat(q, "free", v) <=> In(q, v)
      /\ \A v \in LockUsers : Seat(r, "free", v) <=> In(q, v) /\ v # q[1]
  <2>1. "free" \notin LockUsers
    BY OpsAssumption DEF LockUsers
  <2> QED
    BY <1>4, <1>6, <2>1 DEF Seat
<1> QED
  BY <1>1, <1>7, <1>8 DEF r

-----------------------------------------------------------------------------
(* Who has a seat.                                                         *)

Claims(q, h, con, clo, ops) ==
  /\ Orderly(q, h)
  /\ Seat(q, h, "connect") <=> con = "opening"
  /\ Seat(q, h, "close") <=> clo = "running"
  /\ \A o \in Ops : Seat(q, h, o) <=> ops[o] = "selfclose"

LEMMA ClaimsIsLockOwned ==
  ASSUME waiters \in Seq(LockUsers)
  PROVE  LockOwned <=> Claims(waiters, holder, connect, closeTask, op)
BY DEF LockOwned, Claims, Orderly, Once, In, Seat, Waiting

LEMMA ClaimsIsLockOwnedNext ==
  ASSUME waiters' \in Seq(LockUsers)
  PROVE  LockOwned' <=> Claims(waiters', holder', connect', closeTask', op')
BY DEF LockOwned, Claims, Orderly, Once, In, Seat, Waiting

\* Whoever awaits the close task has said so.
JoinsPlaced ==
  /\ join["connect"] # "no" => connect = "closing"
  /\ \A o \in Ops : join[o] # "no" => op[o] = "closing"
OwnedInv ==
  /\ Claims(waiters, holder, connect, closeTask, op)
  /\ JoinsPlaced
  /\ CloseOwned

LEMMA UsersApart ==
  /\ "connect" \in LockUsers /\ "close" \in LockUsers /\ Ops \subseteq LockUsers
  /\ "connect" \in Joiners /\ "stop" \in Joiners /\ Ops \subseteq Joiners
  /\ \A o \in Ops : o # "connect" /\ o # "close" /\ o # "stop" /\ o # "free"
BY OpsAssumption DEF LockUsers, Joiners

\* A seat is given up, for the queue or the lock as the step leaves them.
LEMMA ClaimDropped ==
  ASSUME NEW q, NEW h, NEW r, NEW g, NEW u \in LockUsers,
         Orderly(r, g), \A v \in LockUsers : Seat(r, g, v) <=> Seat(q, h, v) /\ v # u,
         NEW con, NEW clo, NEW ops, Claims(q, h, con, clo, ops),
         NEW con2, NEW clo2, NEW ops2,
         con2 = "opening" <=> con = "opening" /\ u # "connect",
         clo2 = "running" <=> clo = "running" /\ u # "close",
         \A o \in Ops : ops2[o] = "selfclose" <=> ops[o] = "selfclose" /\ u # o
  PROVE  Claims(r, g, con2, clo2, ops2)
BY UsersApart DEF Claims

\* The close task that w joins has a seat, and w waits for it.
LEMMA Joined ==
  ASSUME NEW queue, NEW h, NEW con, NEW ops, Claims(queue, h, con, closeTask, ops),
         NEW w \in Joiners, NEW force \in BOOLEAN, EnterClose(w, force, queue), TypeOK
  PROVE  /\ Claims(waiters', h, con, closeTask', ops)
         /\ CloseOwned'
         /\ \A v \in Joiners : v # w => join'[v] = join[v]
<1>1. DOMAIN join = Joiners /\ closeTask \in {"none", "running", "ok", "cancelled"}
  BY DEF TypeOK
<1>2. CASE closeTask = "none" \/ (force /\ closeTask # "running")
  <2>1. closeTask' = "running" /\ waiters' = Append(queue, "close") /\ closeTask # "running"
    BY <1>2 DEF EnterClose
  <2>2. ~Seat(queue, h, "close") /\ Orderly(queue, h)
    BY <2>1 DEF Claims
  <2>3. Orderly(waiters', h) /\ \A v : Seat(waiters', h, v) <=> Seat(queue, h, v) \/ v = "close"
    BY <2>1, <2>2, Appended, UsersApart
  <2>4. Claims(waiters', h, con, closeTask', ops)
    BY <2>1, <2>3, UsersApart DEF Claims
  <2>5. join'[w] = "wait" /\ \A v \in Joiners : v # w => join'[v] = join[v]
    BY <1>1, <1>2 DEF EnterClose
  <2> QED
    BY <2>1, <2>4, <2>5 DEF CloseOwned
<1>3. CASE ~(closeTask = "none" \/ (force /\ closeTask # "running"))
  <2>1. closeTask' = closeTask /\ waiters' = queue
    BY <1>3 DEF EnterClose
  <2>2. /\ join'[w] = IF closeTask = "running" THEN "wait" ELSE closeTask
        /\ \A v \in Joiners : v # w => join'[v] = join[v]
    BY <1>1, <1>3 DEF EnterClose
  <2> QED
    BY <2>1, <2>2 DEF CloseOwned
<1> QED
  BY <1>2, <1>3

LEMMA ConnectFailed ==
  ASSUME TypeOK, JoinsPlaced, NEW host \in BOOLEAN, NEW queue, ConnectFails(host, queue),
         Claims(queue, holder', "closing", closeTask, op)
  PROVE  OwnedInv'
<1>1. LateCloseRequired \in BOOLEAN
  BY DEF LateCloseRequired, TypeOK
<1>2. /\ Claims(waiters', holder', "closing", closeTask', op) /\ CloseOwned'
      /\ \A v \in Joiners : v # "connect" => join'[v] = join[v]
  BY <1>1, Joined, UsersApart DEF ConnectFails
<1>3. connect' = "closing" /\ op' = op
  BY DEF ConnectFails
<1> QED
  BY <1>2, <1>3, UsersApart DEF OwnedInv, JoinsPlaced

LEMMA ConnectScheduled ==
  ASSUME TypeOK, OwnedInv, ScheduleConnect, holder' = holder, join' = join,
         \A o \in Ops : op'[o] = op[o] \/ (op[o] = "idle" /\ op'[o] = "await")
  PROVE  OwnedInv'
<1>1. connect = "idle" /\ closeTask # "running"
  BY DEF ScheduleConnect, CanConnect, CloseReusable
<1>2. /\ connect' = "opening" /\ closeTask' = "none"
      /\ waiters' = Append(waiters, "connect")
  BY DEF ScheduleConnect
<1>3. Orderly(waiters, holder) /\ ~Seat(waiters, holder, "connect")
  BY <1>1 DEF OwnedInv, Claims
<1>4. /\ Orderly(waiters', holder)
      /\ \A v : Seat(waiters', holder, v) <=> Seat(waiters, holder, v) \/ v = "connect"
  BY <1>2, <1>3, Appended, UsersApart
<1>5. Claims(waiters', holder', connect', closeTask', op')
  BY <1>1, <1>2, <1>4, UsersApart DEF OwnedInv, Claims
<1>6. JoinsPlaced'
  BY <1>1, UsersApart DEF OwnedInv, JoinsPlaced
<1>7. CloseOwned'
  BY <1>2 DEF CloseOwned
<1> QED
  BY <1>5, <1>6, <1>7 DEF OwnedInv

\* The operation that reports a failure has no seat any more.
LEMMA FailureReported ==
  ASSUME TypeOK, OwnedInv, NEW o \in Ops, AsyncConnectionFailed(o), connect' = connect,
         Claims(waiters, holder', connect, closeTask, [op EXCEPT ![o] = "idle"]),
         op[o] # "closing"
  PROVE  OwnedInv'
<1>1. CASE ~Accepting
  <2>1. /\ op' = [op EXCEPT ![o] = "idle"]
        /\ UNCHANGED <<closeTask, join, waiters>>
    BY <1>1 DEF AsyncConnectionFailed
  <2> QED
    BY <2>1 DEF OwnedInv, JoinsPlaced, CloseOwned, TypeOK
<1>2. CASE Accepting
  <2>1. op' = [op EXCEPT ![o] = "closing"] /\ EnterClose(o, FALSE, waiters)
    BY <1>2 DEF AsyncConnectionFailed
  <2>2. \A p \in Ops : op'[p] = "selfclose" <=> [op EXCEPT ![o] = "idle"][p] = "selfclose"
    BY <2>1 DEF TypeOK
  <2>3. Claims(waiters, holder', connect, closeTask, op')
    BY <2>2 DEF Claims
  <2>4. /\ Claims(waiters', holder', connect, closeTask', op') /\ CloseOwned'
        /\ \A v \in Joiners : v # o => join'[v] = join[v]
    BY <2>1, <2>3, Joined, UsersApart
  <2>5. JoinsPlaced'
    BY <2>1, <2>4, UsersApart DEF OwnedInv, JoinsPlaced, TypeOK
  <2> QED
    BY <2>4, <2>5 DEF OwnedInv
<1> QED
  BY <1>1, <1>2

LEMMA Taken ==
  ASSUME OwnedInv, NEW u, NextInLine(u)
  PROVE  /\ Claims(Tail(waiters), u, connect, closeTask, op)
         /\ Orderly(Tail(waiters), "free")
         /\ \A v \in LockUsers : Seat(Tail(waiters), "free", v)
                                   <=> Seat(waiters, holder, v) /\ v # u
<1>1. Orderly(waiters, "free") /\ waiters # << >> /\ Head(waiters) = u /\ holder = "free"
  BY DEF NextInLine, OwnedInv, Claims
<1>2. /\ Orderly(Tail(waiters), u) /\ Orderly(Tail(waiters), "free")
      /\ \A v \in LockUsers : Seat(Tail(waiters), u, v) <=> Seat(waiters, "free", v)
      /\ \A v \in LockUsers : Seat(Tail(waiters), "free", v) <=> Seat(waiters, "free", v) /\ v # u
  BY <1>1, Served
<1> QED
  BY <1>1, <1>2, UsersApart DEF OwnedInv, Claims

LEMMA Freed ==
  ASSUME OwnedInv
  PROVE  /\ Orderly(waiters, "free")
         /\ \A v \in LockUsers : Seat(waiters, "free", v) <=> Seat(waiters, holder, v) /\ v # holder
         /\ holder \in LockUsers => Seat(waiters, holder, holder)
BY Released DEF OwnedInv, Claims, Seat

LEMMA Quit ==
  ASSUME OwnedInv, NEW i \in DOMAIN waiters
  PROVE  /\ Orderly(RemoveAt(waiters, i), holder)
         /\ \A v : Seat(RemoveAt(waiters, i), holder, v)
                     <=> Seat(waiters, holder, v) /\ v # waiters[i]
         /\ Seat(waiters, holder, waiters[i])
<1>1. Orderly(waiters, holder)
  BY DEF OwnedInv, Claims
<1> QED
  BY <1>1, Removed DEF Seat, In

LEMMA OwnedInit == Init => OwnedInv
<1> SUFFICES ASSUME Init PROVE OwnedInv
  OBVIOUS
<1>1. waiters = << >> /\ waiters \in Seq(LockUsers) /\ DOMAIN waiters = {} /\ holder = "free"
  BY EmptySeq DEF Init
<1>2. Orderly(waiters, holder)
  BY <1>1 DEF Orderly, Once, In
<1>3. \A u \in LockUsers : ~Seat(waiters, holder, u)
  BY <1>1, UsersApart, OpsAssumption DEF Seat, In, LockUsers
<1>4. Claims(waiters, holder, connect, closeTask, op)
  BY <1>2, <1>3, UsersApart DEF Init, Claims
<1> QED
  BY <1>4, UsersApart DEF OwnedInv, Init, JoinsPlaced, CloseOwned

LEMMA ConnectOwned == TypeOK /\ OwnedInv /\ ConnectStep => OwnedInv'
<1> SUFFICES ASSUME TypeOK, OwnedInv, ConnectStep PROVE OwnedInv'
  OBVIOUS
<1>0. JoinsPlaced /\ Claims(waiters, holder, connect, closeTask, op) /\ CloseOwned
  BY DEF OwnedInv
\* The task ends, and resumes whoever awaited it.
<1>1. ASSUME NEW next \in {"idle", "using"}, ResumeAwaiting(next)
      PROVE  \A o \in Ops : (op'[o] = "selfclose" <=> op[o] = "selfclose")
                              /\ (op[o] = "closing" => op'[o] = "closing")
  BY <1>1 DEF ResumeAwaiting, TypeOK
<1>2. ASSUME connect = "opening", connect' \in {"idle", "opening"},
             closeTask' = closeTask, join' = join,
             \A o \in Ops : (op'[o] = "selfclose" <=> op[o] = "selfclose")
                              /\ (op[o] = "closing" => op'[o] = "closing"),
             Claims(waiters', holder', connect', closeTask', op')
      PROVE  OwnedInv'
  <2>1. JoinsPlaced'
    BY <1>0, <1>2 DEF JoinsPlaced
  <2>2. CloseOwned'
    BY <1>0, <1>2 DEF CloseOwned
  <2> QED
    BY <1>2, <2>1, <2>2 DEF OwnedInv
<1>3. CASE ConnectAcquire
  <2>1. /\ NextInLine("connect")
        /\ Claims(Tail(waiters), "connect", connect, closeTask, op)
    BY <1>3, Taken DEF ConnectAcquire
  <2>2. holder = "free" /\ connect = "opening"
    <3>1. Seat(Tail(waiters), "connect", "connect")
      BY DEF Seat
    <3> QED
      BY <2>1, <3>1 DEF NextInLine, Claims
  <2>3. ASSUME NEW con, con # "opening", NEW ops,
               \A o \in Ops : ops[o] = "selfclose" <=> op[o] = "selfclose"
        PROVE  Claims(Tail(waiters), "free", con, closeTask, ops)
    BY <1>0, <2>1, <2>2, <2>3, Taken, ClaimDropped, UsersApart
  <2>4. CASE ~terminal /\ conn = "none" /\ ~LiveChildren
    <3>1. /\ holder' = "connect" /\ waiters' = Tail(waiters)
          /\ UNCHANGED <<connect, closeTask, join, op>>
      BY <1>3, <2>4 DEF ConnectAcquire, taskVars
    <3> QED
      BY <1>2, <2>1, <2>2, <3>1
  <2>5. CASE ~terminal /\ conn = "none" /\ LiveChildren
    <3>1. /\ holder' = "free" /\ waiters' = Tail(waiters) /\ connect' = "idle"
          /\ UNCHANGED <<closeTask, join>> /\ ResumeAwaiting("idle")
      BY <1>3, <2>2, <2>5 DEF ConnectAcquire
    <3>2. Claims(Tail(waiters), "free", "idle", closeTask, op')
      BY <1>1, <2>3, <3>1
    <3> QED
      BY <1>1, <1>2, <2>2, <3>1, <3>2
  <2>6. CASE (terminal \/ conn # "none") /\ Alive /\ MayPublish
    <3>1. /\ holder' = "free" /\ waiters' = Tail(waiters) /\ connect' = "idle"
          /\ UNCHANGED <<closeTask, join>> /\ ResumeAwaiting("using")
      BY <1>3, <2>2, <2>6 DEF ConnectAcquire, ConnectSucceeds
    <3>2. Claims(Tail(waiters), "free", "idle", closeTask, op')
      BY <1>1, <2>3, <3>1
    <3> QED
      BY <1>1, <1>2, <2>2, <3>1, <3>2
  <2>7. CASE (terminal \/ conn # "none") /\ ~(Alive /\ MayPublish)
    <3>1. holder' = "free" /\ ConnectFails(FALSE, Tail(waiters))
      BY <1>3, <2>2, <2>7 DEF ConnectAcquire
    <3>2. Claims(Tail(waiters), "free", "closing", closeTask, op)
      BY <2>3
    <3> QED
      BY <1>0, <3>1, <3>2, ConnectFailed
  <2> QED
    BY <2>4, <2>5, <2>6, <2>7
\* The task gives the lock up.
<1>4. ASSUME holder = "connect"
      PROVE  /\ connect = "opening"
             /\ \A con, ops : con # "opening"
                    /\ (\A o \in Ops : ops[o] = "selfclose" <=> op[o] = "selfclose")
                  => Claims(waiters, "free", con, closeTask, ops)
  <2>1. connect = "opening"
    BY <1>0, <1>4, Freed, UsersApart DEF Claims
  <2>2. ASSUME NEW con, con # "opening", NEW ops,
               \A o \in Ops : ops[o] = "selfclose" <=> op[o] = "selfclose"
        PROVE  Claims(waiters, "free", con, closeTask, ops)
    <3>1. /\ Orderly(waiters, "free")
          /\ \A v \in LockUsers : Seat(waiters, "free", v)
                                    <=> Seat(waiters, holder, v) /\ v # "connect"
      BY <1>4, Freed
    <3> QED
      BY <1>0, <2>1, <2>2, <3>1, ClaimDropped, UsersApart
  <2> QED
    BY <2>1, <2>2
<1>5. CASE HandshakeDone
  <2>1. holder = "connect" /\ holder' = "free"
    BY <1>5 DEF HandshakeDone
  <2>2. CASE ConnectSucceeds /\ UNCHANGED waiters
    <3>1. connect' = "idle" /\ UNCHANGED <<closeTask, join>> /\ ResumeAwaiting("using")
      BY <2>2 DEF ConnectSucceeds
    <3>2. Claims(waiters, "free", "idle", closeTask, op')
      BY <1>1, <1>4, <2>1, <3>1
    <3> QED
      BY <1>1, <1>2, <1>4, <2>1, <2>2, <3>1, <3>2
  <2>3. CASE ConnectFails(FALSE, waiters)
    <3>1. Claims(waiters, "free", "closing", closeTask, op)
      BY <1>4, <2>1
    <3> QED
      BY <1>0, <2>1, <2>3, <3>1, ConnectFailed
  <2> QED
    BY <1>5, <2>2, <2>3 DEF HandshakeDone
<1>6. CASE \E host \in BOOLEAN : HandshakeFails(host)
  <2>1. PICK host \in BOOLEAN : HandshakeFails(host)
    BY <1>6
  <2>2. holder = "connect" /\ holder' = "free" /\ ConnectFails(host, waiters)
    BY <2>1 DEF HandshakeFails
  <2>3. Claims(waiters, "free", "closing", closeTask, op)
    BY <1>4, <2>2
  <2> QED
    BY <1>0, <2>2, <2>3, ConnectFailed
<1>7. CASE ConnectCancelled
  <2>1. CASE holder = "connect" /\ holder' = "free" /\ ConnectFails(FALSE, waiters)
    <3>1. Claims(waiters, "free", "closing", closeTask, op)
      BY <1>4, <2>1
    <3> QED
      BY <1>0, <2>1, <3>1, ConnectFailed
  <2>2. ASSUME NEW i \in DOMAIN waiters, waiters[i] = "connect", holder' = holder,
               ConnectFails(FALSE, RemoveAt(waiters, i))
        PROVE  OwnedInv'
    <3>1. Claims(RemoveAt(waiters, i), holder, "closing", closeTask, op)
      BY <1>0, <2>2, Quit, ClaimDropped, UsersApart
    <3> QED
      BY <1>0, <2>2, <3>1, ConnectFailed
  <2> QED
    BY <1>7, <2>1, <2>2 DEF ConnectCancelled
<1>8. CASE ConnectEnds
  <2>1. /\ join["connect"] = "ok" /\ join' = [join EXCEPT !["connect"] = "no"]
        /\ connect' = "idle" /\ UNCHANGED <<closeTask, waiters, holder>>
        /\ ResumeAwaiting("idle")
    BY <1>8 DEF ConnectEnds, artVars
  <2>2. connect = "closing"
    BY <1>0, <2>1 DEF JoinsPlaced
  <2>3. Claims(waiters', holder', connect', closeTask', op')
    BY <1>0, <1>1, <2>1, <2>2 DEF Claims
  <2>4. JoinsPlaced'
    BY <1>0, <1>1, <2>1, UsersApart DEF JoinsPlaced, TypeOK
  <2>5. CloseOwned'
    BY <1>0, <2>1 DEF CloseOwned, TypeOK
  <2> QED
    BY <2>3, <2>4, <2>5 DEF OwnedInv
<1> QED
  BY <1>3, <1>5, <1>6, <1>7, <1>8 DEF ConnectStep

\* The close task ends, and those who waited for it have its result.
LEMMA CloseReported ==
  ASSUME TypeOK, OwnedInv, NEW result \in {"ok", "cancelled"}, CloseFinished(result),
         connect' = connect, op' = op, closeTask = "running",
         Claims(waiters', holder', connect, result, op)
  PROVE  OwnedInv'
<1>1. closeTask' = result /\ join' = [w \in Joiners |-> IF join[w] = "wait" THEN result ELSE join[w]]
  BY DEF CloseFinished
<1>2. JoinsPlaced'
  BY <1>1, UsersApart DEF OwnedInv, JoinsPlaced
<1>3. CloseOwned'
  BY <1>1 DEF OwnedInv, CloseOwned
<1> QED
  BY <1>1, <1>2, <1>3 DEF OwnedInv

LEMMA CloseStepOwned ==
  TypeOK /\ OwnedInv /\ (CloseStep \/ OwnerCancelsClose \/ Rejoin) => OwnedInv'
<1> SUFFICES ASSUME TypeOK, OwnedInv, CloseStep \/ OwnerCancelsClose \/ Rejoin
             PROVE  OwnedInv'
  OBVIOUS
<1>0. JoinsPlaced /\ Claims(waiters, holder, connect, closeTask, op) /\ CloseOwned
  BY DEF OwnedInv
<1>1. ASSUME holder = "close"
      PROVE  /\ closeTask = "running"
             /\ \A result \in {"ok", "cancelled"} : Claims(waiters, "free", connect, result, op)
  <2>1. closeTask = "running"
    BY <1>0, <1>1, Freed, UsersApart DEF Claims
  <2>2. /\ Orderly(waiters, "free")
        /\ \A v \in LockUsers : Seat(waiters, "free", v)
                                  <=> Seat(waiters, holder, v) /\ v # "close"
    BY <1>1, Freed
  <2>3. ASSUME NEW result \in {"ok", "cancelled"}
        PROVE  Claims(waiters, "free", connect, result, op)
    BY <1>0, <2>2, ClaimDropped, UsersApart
  <2> QED
    BY <2>1, <2>3
<1>2. ASSUME NEW i \in DOMAIN waiters, waiters[i] = "close"
      PROVE  /\ closeTask = "running"
             /\ \A result \in {"ok", "cancelled"} :
                  Claims(RemoveAt(waiters, i), holder, connect, result, op)
  <2>1. closeTask = "running"
    BY <1>0, <1>2, Quit DEF Claims
  <2>2. ASSUME NEW result \in {"ok", "cancelled"}
        PROVE  Claims(RemoveAt(waiters, i), holder, connect, result, op)
    BY <1>0, <1>2, Quit, ClaimDropped, UsersApart
  <2> QED
    BY <2>1, <2>2
<1>3. CASE CloseAcquire
  <2>1. /\ NextInLine("close") /\ holder' = "close" /\ waiters' = Tail(waiters)
        /\ UNCHANGED <<connect, closeTask, join, op>>
    BY <1>3 DEF CloseAcquire, taskVars
  <2>2. Claims(waiters', holder', connect', closeTask', op')
    BY <2>1, Taken
  <2> QED
    BY <1>0, <2>1, <2>2 DEF OwnedInv, JoinsPlaced, CloseOwned
<1>4. CASE CloseEnds
  BY <1>1, <1>4, CloseReported DEF CloseEnds
<1>5. CASE CloseExpires
  <2>1. PICK i \in DOMAIN waiters : waiters[i] = "close" /\ waiters' = RemoveAt(waiters, i)
    BY <1>5 DEF CloseExpires
  <2> QED
    BY <1>2, <1>5, <2>1, CloseReported DEF CloseExpires
<1>6. CASE OwnerCancelsClose
  <2>1. CASE holder = "close" /\ holder' = "free" /\ UNCHANGED waiters
    BY <1>1, <1>6, <2>1, CloseReported DEF OwnerCancelsClose
  <2>2. ASSUME NEW i \in DOMAIN waiters, waiters[i] = "close",
               waiters' = RemoveAt(waiters, i), UNCHANGED holder
        PROVE  OwnedInv'
    BY <1>2, <1>6, <2>2, CloseReported DEF OwnerCancelsClose
  <2> QED
    BY <1>6, <2>1, <2>2 DEF OwnerCancelsClose
<1>7. CASE Rejoin
  <2>1. /\ \E w \in Joiners : join[w] = "cancelled"
        /\ closeTask' = "running"
        /\ waiters' = IF closeTask = "running" THEN waiters ELSE Append(waiters, "close")
        /\ join' = [w \in Joiners |-> IF join[w] = "cancelled" THEN "wait" ELSE join[w]]
        /\ UNCHANGED <<connect, op, holder>>
    BY <1>7 DEF Rejoin
  <2>2. Claims(waiters', holder', connect', closeTask', op')
    <3>1. CASE closeTask = "running"
      BY <1>0, <2>1, <3>1
    <3>2. CASE closeTask # "running"
      <4>1. Orderly(waiters, holder) /\ ~Seat(waiters, holder, "close")
        BY <1>0, <3>2 DEF Claims
      <4>2. /\ Orderly(waiters', holder)
            /\ \A v : Seat(waiters', holder, v) <=> Seat(waiters, holder, v) \/ v = "close"
        BY <2>1, <3>2, <4>1, Appended, UsersApart
      <4> QED
        BY <1>0, <2>1, <4>2, UsersApart DEF Claims
    <3> QED
      BY <3>1, <3>2
  <2>3. JoinsPlaced'
    BY <1>0, <2>1, UsersApart DEF JoinsPlaced
  <2>4. CloseOwned'
    BY <2>1 DEF CloseOwned
  <2> QED
    BY <2>2, <2>3, <2>4 DEF OwnedInv
<1> QED
  BY <1>3, <1>4, <1>5, <1>6, <1>7 DEF CloseStep

LEMMA OpOwned ==
  ASSUME TypeOK, OwnedInv, NEW o \in Ops, StartRead(o) \/ StartMutation(o) \/ OpStep(o)
  PROVE  OwnedInv'
<1>0. JoinsPlaced /\ Claims(waiters, holder, connect, closeTask, op) /\ CloseOwned
  BY DEF OwnedInv
\* The operation moves without a seat.
<1>1. ASSUME op[o] \in {"idle", "await", "using"}, NEW next \in {"idle", "await", "using"},
             op' = [op EXCEPT ![o] = next],
             UNCHANGED <<connect, closeTask, join, waiters, holder>>
      PROVE  OwnedInv'
  <2>1. \A p \in Ops : op'[p] = "selfclose" <=> op[p] = "selfclose"
    BY <1>1 DEF TypeOK
  <2>2. Claims(waiters', holder', connect', closeTask', op')
    BY <1>0, <1>1, <2>1 DEF Claims
  <2>3. JoinsPlaced'
    BY <1>0, <1>1 DEF JoinsPlaced, TypeOK
  <2>4. CloseOwned'
    BY <1>0, <1>1 DEF CloseOwned
  <2> QED
    BY <2>2, <2>3, <2>4 DEF OwnedInv
<1>2. CASE StartRead(o) \/ OpLeaves(o)
  BY <1>1, <1>2 DEF StartRead, OpLeaves, artVars
<1>3. CASE StartMutation(o)
  <2>1. CASE ScheduleConnect /\ op' = [op EXCEPT ![o] = "await"]
    <3>1. op[o] = "idle" /\ holder' = holder /\ join' = join
      BY <1>3 DEF StartMutation
    <3>2. \A p \in Ops : op'[p] = op[p] \/ (op[p] = "idle" /\ op'[p] = "await")
      BY <2>1, <3>1 DEF TypeOK
    <3> QED
      BY <2>1, <3>1, <3>2, ConnectScheduled
  <2>2. CASE ~(ScheduleConnect /\ op' = [op EXCEPT ![o] = "await"])
    <3>1. /\ op[o] = "idle" /\ UNCHANGED <<connect, closeTask, join, waiters, holder>>
          /\ op' = [op EXCEPT ![o] = "using"] \/ op' = [op EXCEPT ![o] = "await"]
      BY <1>3, <2>2 DEF StartMutation
    <3> QED
      BY <1>1, <3>1
  <2> QED
    BY <2>1, <2>2
<1>4. CASE OpFails(o)
  <2>1. op[o] = "using" /\ holder' = holder /\ connect' = connect /\ AsyncConnectionFailed(o)
    BY <1>4 DEF OpFails
  <2>2. \A p \in Ops : [op EXCEPT ![o] = "idle"][p] = "selfclose" <=> op[p] = "selfclose"
    BY <2>1 DEF TypeOK
  <2>3. Claims(waiters, holder', connect, closeTask, [op EXCEPT ![o] = "idle"])
    BY <1>0, <2>1, <2>2 DEF Claims
  <2> QED
    BY <2>1, <2>3, FailureReported
<1>5. CASE OpTimesOut(o)
  <2>1. /\ op[o] = "using" /\ op' = [op EXCEPT ![o] = "selfclose"]
        /\ waiters' = Append(waiters, o)
        /\ UNCHANGED <<connect, closeTask, join, holder>>
    BY <1>5 DEF OpTimesOut
  <2>2. Orderly(waiters, holder) /\ ~Seat(waiters, holder, o)
    BY <1>0, <2>1 DEF Claims
  <2>3. /\ Orderly(waiters', holder)
        /\ \A v : Seat(waiters', holder, v) <=> Seat(waiters, holder, v) \/ v = o
    BY <2>1, <2>2, Appended, UsersApart
  <2>4. \A p \in Ops : op'[p] = "selfclose" <=> op[p] = "selfclose" \/ p = o
    BY <2>1 DEF TypeOK
  <2>5. Claims(waiters', holder', connect', closeTask', op')
    BY <1>0, <2>1, <2>3, <2>4, UsersApart DEF Claims
  <2>6. JoinsPlaced'
    BY <1>0, <2>1 DEF JoinsPlaced, TypeOK
  <2>7. CloseOwned'
    BY <1>0, <2>1 DEF CloseOwned
  <2> QED
    BY <2>5, <2>6, <2>7 DEF OwnedInv
<1>6. CASE OpCloseAcquire(o)
  <2>1. /\ NextInLine(o) /\ holder' = o /\ waiters' = Tail(waiters)
        /\ UNCHANGED <<connect, closeTask, join, op>>
    BY <1>6 DEF OpCloseAcquire, taskVars
  <2>2. Claims(waiters', holder', connect', closeTask', op')
    BY <2>1, Taken
  <2> QED
    BY <1>0, <2>1, <2>2 DEF OwnedInv, JoinsPlaced, CloseOwned
\* It gives its seat up.
<1>7. \A p \in Ops : [op EXCEPT ![o] = "idle"][p] = "selfclose" <=> op[p] = "selfclose" /\ p # o
  BY DEF TypeOK
<1>8. ASSUME holder = o
      PROVE  /\ op[o] = "selfclose"
             /\ Claims(waiters, "free", connect, closeTask, [op EXCEPT ![o] = "idle"])
  <2>1. /\ Orderly(waiters, "free")
        /\ \A v \in LockUsers : Seat(waiters, "free", v) <=> Seat(waiters, holder, v) /\ v # o
        /\ Seat(waiters, holder, o)
    BY <1>8, Freed, UsersApart
  <2>2. op[o] = "selfclose"
    BY <1>0, <2>1 DEF Claims
  <2>3. Claims(waiters, "free", connect, closeTask, [op EXCEPT ![o] = "idle"])
    <3> DEFINE ops == [op EXCEPT ![o] = "idle"]
    <3>1. \A p \in Ops : ops[p] = "selfclose" <=> op[p] = "selfclose" /\ o # p
      BY <1>7
    <3> HIDE DEF ops
    <3>2. Claims(waiters, "free", connect, closeTask, ops)
      BY <1>0, <2>1, <3>1, ClaimDropped, UsersApart
    <3> QED
      BY <3>2 DEF ops
  <2> QED
    BY <2>2, <2>3
<1>9. CASE OpCloseEnds(o)
  BY <1>8, <1>9, FailureReported DEF OpCloseEnds
<1>10. CASE OpCloseAbandoned(o)
  <2>1. /\ op[o] = "selfclose" /\ op' = [op EXCEPT ![o] = "idle"]
        /\ UNCHANGED <<connect, closeTask, join>>
    BY <1>10 DEF OpCloseAbandoned
  <2>2. Claims(waiters', holder', connect', closeTask', op')
    <3>1. CASE holder = o /\ holder' = "free" /\ UNCHANGED waiters
      BY <1>8, <2>1, <3>1
    <3>2. ASSUME NEW i \in DOMAIN waiters, waiters[i] = o,
                 waiters' = RemoveAt(waiters, i), UNCHANGED holder
          PROVE  Claims(waiters', holder', connect', closeTask', op')
      <4>1. /\ Orderly(RemoveAt(waiters, i), holder)
            /\ \A v : Seat(RemoveAt(waiters, i), holder, v) <=> Seat(waiters, holder, v) /\ v # o
        BY <3>2, Quit
      <4>2. \A p \in Ops : op'[p] = "selfclose" <=> op[p] = "selfclose" /\ o # p
        BY <1>7, <2>1
      <4>3. Claims(RemoveAt(waiters, i), holder, connect, closeTask, op')
        BY <1>0, <4>1, <4>2, ClaimDropped, UsersApart
      <4> QED
        BY <2>1, <3>2, <4>3
    <3> QED
      BY <1>10, <3>1, <3>2 DEF OpCloseAbandoned
  <2>3. JoinsPlaced'
    BY <1>0, <2>1 DEF JoinsPlaced, TypeOK
  <2>4. CloseOwned'
    BY <1>0, <2>1 DEF CloseOwned
  <2> QED
    BY <2>2, <2>3, <2>4 DEF OwnedInv
<1>11. CASE OpEnds(o)
  <2>1. /\ join[o] = "ok" /\ join' = [join EXCEPT ![o] = "no"]
        /\ op' = [op EXCEPT ![o] = "idle"]
        /\ UNCHANGED <<connect, closeTask, waiters, holder>>
    BY <1>11 DEF OpEnds, artVars
  <2>2. op[o] = "closing"
    BY <1>0, <2>1 DEF JoinsPlaced
  <2>3. \A p \in Ops : op'[p] = "selfclose" <=> op[p] = "selfclose"
    BY <2>1, <2>2 DEF TypeOK
  <2>4. Claims(waiters', holder', connect', closeTask', op')
    BY <1>0, <2>1, <2>3 DEF Claims
  <2>5. JoinsPlaced'
    BY <1>0, <2>1, UsersApart DEF JoinsPlaced, TypeOK
  <2>6. CloseOwned'
    BY <1>0, <2>1 DEF CloseOwned, TypeOK
  <2> QED
    BY <2>4, <2>5, <2>6 DEF OwnedInv
<1> QED
  BY <1>2, <1>3, <1>4, <1>5, <1>6, <1>9, <1>10, <1>11 DEF OpStep

LEMMA OwnedStep == TypeOK /\ OwnedInv /\ [Next]_vars => OwnedInv'
<1> SUFFICES ASSUME TypeOK, OwnedInv, [Next]_vars PROVE OwnedInv'
  OBVIOUS
<1>0. JoinsPlaced /\ Claims(waiters, holder, connect, closeTask, op) /\ CloseOwned
  BY DEF OwnedInv
<1>1. CASE UNCHANGED <<waiters, holder, connect, closeTask, op, join>>
  BY <1>0, <1>1 DEF OwnedInv, JoinsPlaced, CloseOwned
\* The stop joins the close task.
<1>2. ASSUME EnterClose("stop", FALSE, waiters), UNCHANGED <<holder, connect, op>>
      PROVE  OwnedInv'
  <2>1. /\ Claims(waiters', holder, connect, closeTask', op) /\ CloseOwned'
        /\ \A v \in Joiners : v # "stop" => join'[v] = join[v]
    BY <1>0, <1>2, Joined, UsersApart
  <2>2. JoinsPlaced'
    BY <1>0, <1>2, <2>1, UsersApart DEF JoinsPlaced
  <2> QED
    BY <1>2, <2>1, <2>2 DEF OwnedInv
<1>3. CASE Stop
  BY <1>1, <1>2, <1>3 DEF Stop
<1>4. CASE StopCloses
  BY <1>2, <1>4 DEF StopCloses
<1>5. CASE StopFinish
  <2>1. /\ join["stop"] = "ok" /\ join' = [join EXCEPT !["stop"] = "no"]
        /\ UNCHANGED <<waiters, holder, connect, closeTask, op>>
    BY <1>5 DEF StopFinish, artVars
  <2>2. JoinsPlaced' /\ CloseOwned'
    BY <1>0, <2>1, UsersApart DEF JoinsPlaced, CloseOwned, TypeOK
  <2>3. Claims(waiters', holder', connect', closeTask', op')
    BY <1>0, <2>1
  <2> QED
    BY <2>2, <2>3 DEF OwnedInv
<1>6. CASE \E reachable, eligible \in BOOLEAN : ObservePower(reachable, eligible)
  <2>1. PICK reachable \in BOOLEAN, eligible \in BOOLEAN : ObservePower(reachable, eligible)
    BY <1>6
  <2>2. /\ UNCHANGED holder
        /\ \/ ScheduleConnect /\ UNCHANGED <<join, stop, op>>
           \/ UNCHANGED <<taskVars, waiters>>
    BY <2>1 DEF ObservePower
  <2>3. CASE ScheduleConnect /\ UNCHANGED <<join, stop, op>>
    <3>1. ScheduleConnect /\ holder' = holder /\ join' = join /\ op' = op
      BY <2>2, <2>3
    <3>2. \A p \in Ops : op'[p] = op[p] \/ (op[p] = "idle" /\ op'[p] = "await")
      BY <3>1
    <3> QED
      BY <3>1, <3>2, ConnectScheduled
  <2>4. CASE UNCHANGED <<taskVars, waiters>>
    BY <1>1, <2>2, <2>4 DEF taskVars
  <2> QED
    BY <2>2, <2>3, <2>4
<1>7. CASE ConnectStep
  BY <1>7, ConnectOwned
<1>8. CASE CloseStep \/ OwnerCancelsClose \/ Rejoin
  BY <1>8, CloseStepOwned
<1>9. CASE \E o \in Ops : StartRead(o) \/ StartMutation(o) \/ OpStep(o)
  BY <1>9, OpOwned
<1>10. CASE AsyncStart \/ PeerCloses \/ ReceiverExits \/ ReceiverDone \/ RetryElapses
              \/ OwnerCancelsConnect \/ UNCHANGED vars
  BY <1>1, <1>10 DEF AsyncStart, PeerCloses, ReceiverExits, ReceiverDone, RetryElapses,
     OwnerCancelsConnect, taskVars, artVars, vars
<1> QED
  BY <1>3, <1>4, <1>5, <1>6, <1>7, <1>8, <1>9, <1>10 DEF Next, StopStep

LEMMA OwnedInvariant == Spec => [](TypeOK /\ OwnedInv)
<1> QED
  BY OwnedInit, OwnedStep, TypeInit, TypeStep, PTL DEF Spec

(* The lifecycle lock and its queue hold live tasks only, each of them once: *)
(* none that has ended or was cancelled is left behind to hold others up.   *)
THEOREM LockAlwaysOwned == Spec => []LockOwned
<1>1. TypeOK /\ OwnedInv => LockOwned
  BY ClaimsIsLockOwned DEF OwnedInv, TypeOK
<1> QED
  BY <1>1, OwnedInvariant, PTL

(* A close task that runs has a caller that waits for it, and one that was  *)
(* cancelled has a caller that will replace it.                             *)
THEOREM CloseAlwaysOwned == Spec => []CloseOwned
<1>1. OwnedInv => CloseOwned
  BY DEF OwnedInv
<1> QED
  BY <1>1, OwnedInvariant, PTL

-----------------------------------------------------------------------------
(* What is awaited is there.                                               *)

LEMMA EnterCloseJoins ==
  ASSUME TypeOK, WaitsOwned, NEW w \in Joiners, NEW force \in BOOLEAN, NEW queue,
         EnterClose(w, force, queue)
  PROVE  /\ join'[w] # "no" /\ \A v \in Joiners : v # w => join'[v] = join[v]
         /\ \A v \in Joiners : join'[v] = "wait" => closeTask' = "running"
<1>1. DOMAIN join = Joiners /\ closeTask \in {"none", "running", "ok", "cancelled"}
  BY DEF TypeOK
<1>2. /\ join'[w] = IF closeTask = "none" \/ (force /\ closeTask # "running")
                       \/ closeTask = "running"
                    THEN "wait" ELSE closeTask
      /\ \A v \in Joiners : v # w => join'[v] = join[v]
  BY <1>1 DEF EnterClose
<1>3. closeTask' = IF closeTask = "none" \/ (force /\ closeTask # "running")
                   THEN "running" ELSE closeTask
  BY DEF EnterClose
<1> QED
  BY <1>1, <1>2, <1>3 DEF WaitsOwned

\* A step that leaves the results, the close task and the stop alone.
LEMMA WaitsLeft ==
  ASSUME WaitsOwned, UNCHANGED <<join, closeTask, stop>>,
         connect' = "closing" <=> connect = "closing",
         \A o \in Ops : op'[o] = "closing" <=> op[o] = "closing",
         \A o \in Ops : op'[o] = "await" => connect' # "idle"
  PROVE  WaitsOwned'
BY DEF WaitsOwned

LEMMA ConnectFailedWaits ==
  ASSUME TypeOK, WaitsOwned, NEW host \in BOOLEAN, NEW queue, ConnectFails(host, queue),
         UNCHANGED stop
  PROVE  WaitsOwned'
<1>1. LateCloseRequired \in BOOLEAN
  BY DEF LateCloseRequired, TypeOK
<1>2. /\ join'["connect"] # "no" /\ \A v \in Joiners : v # "connect" => join'[v] = join[v]
      /\ \A v \in Joiners : join'[v] = "wait" => closeTask' = "running"
  BY <1>1, EnterCloseJoins, UsersApart DEF ConnectFails
<1>3. connect' = "closing" /\ op' = op
  BY DEF ConnectFails
<1> QED
  BY <1>2, <1>3, UsersApart DEF WaitsOwned

LEMMA ConnectSucceededWaits ==
  ASSUME TypeOK, WaitsOwned, connect = "opening", ConnectSucceeds, UNCHANGED stop
  PROVE  WaitsOwned'
<1>1. connect' = "idle" /\ UNCHANGED <<join, closeTask, stop>>
  BY DEF ConnectSucceeds
<1>2. op' = [o \in Ops |-> IF op[o] = "await" THEN "using" ELSE op[o]]
  BY DEF ConnectSucceeds, ResumeAwaiting
<1>3. \A o \in Ops : op'[o] # "await" /\ (op'[o] = "closing" <=> op[o] = "closing")
  BY <1>2
<1> QED
  BY <1>1, <1>3, WaitsLeft

LEMMA ConnectWaits == TypeOK /\ OwnedInv /\ WaitsOwned /\ ConnectStep => WaitsOwned'
<1> SUFFICES ASSUME TypeOK, OwnedInv, WaitsOwned, ConnectStep PROVE WaitsOwned'
  OBVIOUS
<1>0. LockOwned
  BY ClaimsIsLockOwned DEF OwnedInv, TypeOK
<1>1. CASE ConnectAcquire
  <2>1. connect = "opening" /\ UNCHANGED stop
    <3>1. Waiting("connect")
      <4>1. waiters \in Seq(LockUsers) /\ waiters # << >> /\ Head(waiters) = "connect"
        BY <1>1 DEF ConnectAcquire, NextInLine, TypeOK
      <4>2. 1 \in DOMAIN waiters /\ waiters[1] = "connect"
        BY <4>1, HeadTailProperties, EmptySeq, LenProperties
      <4> QED
        BY <4>2 DEF Waiting
    <3> QED
      BY <1>0, <1>1, <3>1 DEF LockOwned, ConnectAcquire, taskVars
  <2>2. CASE UNCHANGED taskVars
    BY <2>1, <2>2, WaitsLeft DEF WaitsOwned, taskVars
  <2>3. CASE connect' = "idle" /\ ResumeAwaiting("idle") /\ UNCHANGED <<join, closeTask>>
    <3>1. op' = [o \in Ops |-> IF op[o] = "await" THEN "idle" ELSE op[o]]
      BY <2>3 DEF ResumeAwaiting
    <3>2. \A o \in Ops : op'[o] # "await" /\ (op'[o] = "closing" <=> op[o] = "closing")
      BY <3>1
    <3> QED
      BY <2>1, <2>3, <3>2, WaitsLeft
  <2>4. CASE ConnectSucceeds
    BY <2>1, <2>4, ConnectSucceededWaits
  <2>5. CASE ConnectFails(FALSE, Tail(waiters))
    BY <2>1, <2>5, ConnectFailedWaits
  <2> QED
    BY <1>1, <2>2, <2>3, <2>4, <2>5 DEF ConnectAcquire
<1>2. CASE HandshakeDone
  <2>1. connect = "opening" /\ UNCHANGED stop
    BY <1>0, <1>2 DEF LockOwned, HandshakeDone
  <2> QED
    BY <1>2, <2>1, ConnectSucceededWaits, ConnectFailedWaits DEF HandshakeDone
<1>3. CASE \E host \in BOOLEAN : HandshakeFails(host)
  BY <1>3, ConnectFailedWaits DEF HandshakeFails
<1>4. CASE ConnectCancelled
  BY <1>4, ConnectFailedWaits DEF ConnectCancelled
<1>5. CASE ConnectEnds
  <2>1. /\ join' = [join EXCEPT !["connect"] = "no"] /\ connect' = "idle"
        /\ op' = [o \in Ops |-> IF op[o] = "await" THEN "idle" ELSE op[o]]
        /\ UNCHANGED <<closeTask, stop>>
    BY <1>5 DEF ConnectEnds, ResumeAwaiting
  <2>2. /\ join'["connect"] = "no" /\ \A v \in Joiners : v # "connect" => join'[v] = join[v]
        /\ \A o \in Ops : op'[o] # "await" /\ (op'[o] = "closing" <=> op[o] = "closing")
    BY <2>1, UsersApart DEF TypeOK
  <2> QED
    BY <2>1, <2>2, UsersApart DEF WaitsOwned
<1> QED
  BY <1>1, <1>2, <1>3, <1>4, <1>5 DEF ConnectStep

\* The close task ends, or is replaced under those who waited for it.
LEMMA CloseWaits ==
  TypeOK /\ WaitsOwned /\ (CloseStep \/ OwnerCancelsClose \/ Rejoin) => WaitsOwned'
<1> SUFFICES ASSUME TypeOK, WaitsOwned, CloseStep \/ OwnerCancelsClose \/ Rejoin
             PROVE  WaitsOwned'
  OBVIOUS
<1>1. CASE CloseAcquire
  BY <1>1, WaitsLeft DEF CloseAcquire, taskVars, WaitsOwned
<1>2. ASSUME NEW result \in {"ok", "cancelled"}, CloseFinished(result), UNCHANGED <<connect, stop, op>>
      PROVE  WaitsOwned'
  <2>1. \A w \in Joiners : join'[w] # "wait" /\ (join'[w] = "no" <=> join[w] = "no")
    BY <1>2 DEF CloseFinished
  <2> QED
    BY <1>2, <2>1, UsersApart DEF WaitsOwned
<1>3. CASE CloseEnds \/ CloseExpires
  BY <1>2, <1>3 DEF CloseEnds, CloseExpires
<1>4. CASE OwnerCancelsClose
  BY <1>2, <1>4 DEF OwnerCancelsClose
<1>5. CASE Rejoin
  <2>1. closeTask' = "running" /\ UNCHANGED <<connect, stop, op>>
    BY <1>5 DEF Rejoin
  <2>2. \A w \in Joiners : join'[w] = "no" <=> join[w] = "no"
    BY <1>5 DEF Rejoin
  <2> QED
    BY <2>1, <2>2, UsersApart DEF WaitsOwned
<1> QED
  BY <1>1, <1>3, <1>4, <1>5 DEF CloseStep

LEMMA OpWaits ==
  ASSUME TypeOK, OwnedInv, WaitsOwned, NEW o \in Ops,
         StartRead(o) \/ StartMutation(o) \/ OpStep(o)
  PROVE  WaitsOwned'
<1>0. LockOwned /\ DOMAIN op = Ops
  BY ClaimsIsLockOwned DEF OwnedInv, TypeOK
<1>1. ASSUME op[o] # "closing", AsyncConnectionFailed(o), UNCHANGED <<connect, stop>>
      PROVE  WaitsOwned'
  <2>1. CASE ~Accepting
    <3>1. op' = [op EXCEPT ![o] = "idle"] /\ UNCHANGED <<closeTask, join>>
      BY <1>1, <2>1 DEF AsyncConnectionFailed
    <3>2. \A p \in Ops : /\ op'[p] = "closing" <=> op[p] = "closing"
                         /\ op'[p] = "await" => op[p] = "await"
      BY <1>0, <1>1, <3>1
    <3> QED
      BY <1>1, <3>1, <3>2, WaitsLeft DEF WaitsOwned
  <2>2. CASE Accepting
    <3>1. op' = [op EXCEPT ![o] = "closing"] /\ EnterClose(o, FALSE, waiters)
      BY <1>1, <2>2 DEF AsyncConnectionFailed
    <3>2. /\ join'[o] # "no" /\ \A v \in Joiners : v # o => join'[v] = join[v]
          /\ \A v \in Joiners : join'[v] = "wait" => closeTask' = "running"
      BY <3>1, EnterCloseJoins, UsersApart
    <3>3. op'[o] = "closing" /\ \A p \in Ops : p # o => op'[p] = op[p]
      BY <1>0, <3>1
    <3> QED
      BY <1>1, <3>2, <3>3, UsersApart DEF WaitsOwned
  <2> QED
    BY <2>1, <2>2
<1>2. ASSUME NEW where \in {"idle", "await", "using", "selfclose"}, op[o] # "closing",
             op' = [op EXCEPT ![o] = where],
             where = "await" => connect' # "idle", connect # "idle" => connect' # "idle",
             connect' = "closing" <=> connect = "closing", UNCHANGED <<join, closeTask, stop>>
      PROVE  WaitsOwned'
  <2>1. op'[o] = where /\ \A p \in Ops : p # o => op'[p] = op[p]
    BY <1>0, <1>2
  <2> QED
    BY <1>2, <2>1, WaitsLeft DEF WaitsOwned
<1>3. CASE StartRead(o)
  BY <1>2, <1>3 DEF StartRead
<1>4. CASE StartMutation(o)
  <2>1. op[o] = "idle" /\ UNCHANGED <<join, stop>>
    BY <1>4 DEF StartMutation
  <2>2. CASE op' = [op EXCEPT ![o] = "using"] /\ UNCHANGED <<connect, closeTask>>
    BY <1>2, <2>1, <2>2
  <2>3. CASE connect # "idle" /\ op' = [op EXCEPT ![o] = "await"] /\ UNCHANGED <<connect, closeTask>>
    BY <1>2, <2>1, <2>3
  <2>4. CASE ScheduleConnect /\ op' = [op EXCEPT ![o] = "await"]
    <3>1. /\ connect = "idle" /\ connect' = "opening"
          /\ closeTask # "running" /\ closeTask' = "none"
      BY <2>4 DEF ScheduleConnect, CanConnect, CloseReusable
    <3>2. op'[o] = "await" /\ \A p \in Ops : p # o => op'[p] = op[p]
      BY <1>0, <2>4
    <3> QED
      BY <2>1, <3>1, <3>2, UsersApart DEF WaitsOwned
  <2> QED
    BY <1>4, <2>2, <2>3, <2>4 DEF StartMutation
<1>5. CASE OpLeaves(o)
  BY <1>2, <1>5 DEF OpLeaves
<1>6. CASE OpFails(o)
  BY <1>1, <1>6 DEF OpFails
<1>7. CASE OpTimesOut(o)
  BY <1>2, <1>7 DEF OpTimesOut
<1>8. CASE OpCloseAcquire(o)
  BY <1>8, WaitsLeft DEF OpCloseAcquire, taskVars, WaitsOwned
<1>9. CASE OpCloseEnds(o)
  <2>1. op[o] = "selfclose"
    BY <1>0, <1>9 DEF OpCloseEnds, LockOwned
  <2> QED
    BY <1>1, <1>9, <2>1 DEF OpCloseEnds
<1>10. CASE OpCloseAbandoned(o)
  BY <1>2, <1>10 DEF OpCloseAbandoned
<1>11. CASE OpEnds(o)
  <2>1. /\ join' = [join EXCEPT ![o] = "no"] /\ op' = [op EXCEPT ![o] = "idle"]
        /\ UNCHANGED <<closeTask, stop, connect>>
    BY <1>11 DEF OpEnds
  <2>2. /\ join'[o] = "no" /\ \A v \in Joiners : v # o => join'[v] = join[v]
        /\ op'[o] = "idle" /\ \A p \in Ops : p # o => op'[p] = op[p]
    BY <1>0, <2>1, UsersApart DEF TypeOK
  <2> QED
    BY <2>1, <2>2, UsersApart DEF WaitsOwned
<1> QED
  BY <1>3, <1>4, <1>5, <1>6, <1>7, <1>8, <1>9, <1>10, <1>11 DEF OpStep

LEMMA WaitsInit == Init => WaitsOwned
BY UsersApart DEF Init, WaitsOwned

LEMMA WaitsStep == TypeOK /\ OwnedInv /\ WaitsOwned /\ [Next]_vars => WaitsOwned'
<1> SUFFICES ASSUME TypeOK, OwnedInv, WaitsOwned, [Next]_vars PROVE WaitsOwned'
  OBVIOUS
<1>1. CASE UNCHANGED taskVars
  BY <1>1, WaitsLeft DEF taskVars, WaitsOwned
<1>2. ASSUME EnterClose("stop", FALSE, waiters), stop' = "joining", UNCHANGED <<connect, op>>
      PROVE  WaitsOwned'
  <2>1. /\ join'["stop"] # "no" /\ \A v \in Joiners : v # "stop" => join'[v] = join[v]
        /\ \A v \in Joiners : join'[v] = "wait" => closeTask' = "running"
    BY <1>2, EnterCloseJoins, UsersApart
  <2> QED
    BY <1>2, <2>1, UsersApart DEF WaitsOwned
<1>3. CASE Stop
  <2>1. CASE stop' = "waitConnect" /\ UNCHANGED <<closeTask, join>>
    BY <1>3, <2>1 DEF Stop, WaitsOwned
  <2>2. CASE stop' = "joining" /\ EnterClose("stop", FALSE, waiters)
    BY <1>2, <1>3, <2>2 DEF Stop
  <2> QED
    BY <1>3, <2>1, <2>2 DEF Stop
<1>4. CASE StopCloses
  BY <1>2, <1>4 DEF StopCloses
<1>5. CASE StopFinish
  <2>1. /\ join' = [join EXCEPT !["stop"] = "no"] /\ stop' = "done"
        /\ UNCHANGED <<closeTask, connect, op>>
    BY <1>5 DEF StopFinish
  <2>2. join'["stop"] = "no" /\ \A v \in Joiners : v # "stop" => join'[v] = join[v]
    BY <2>1, UsersApart DEF TypeOK
  <2> QED
    BY <2>1, <2>2, UsersApart DEF WaitsOwned
<1>6. CASE \E reachable, eligible \in BOOLEAN : ObservePower(reachable, eligible)
  <2>1. \/ ScheduleConnect /\ UNCHANGED <<join, stop, op>>
        \/ UNCHANGED taskVars
    BY <1>6 DEF ObservePower
  <2>2. CASE ScheduleConnect /\ UNCHANGED <<join, stop, op>>
    <3>1. /\ connect = "idle" /\ connect' = "opening"
          /\ closeTask # "running" /\ closeTask' = "none"
      BY <2>2 DEF ScheduleConnect, CanConnect, CloseReusable
    <3> QED
      BY <2>2, <3>1 DEF WaitsOwned
  <2> QED
    BY <1>1, <2>1, <2>2
<1>7. CASE ConnectStep
  BY <1>7, ConnectWaits
<1>8. CASE CloseStep \/ OwnerCancelsClose \/ Rejoin
  BY <1>8, CloseWaits
<1>9. CASE \E o \in Ops : StartRead(o) \/ StartMutation(o) \/ OpStep(o)
  BY <1>9, OpWaits
<1>10. CASE AsyncStart \/ PeerCloses \/ ReceiverExits \/ ReceiverDone \/ RetryElapses
              \/ UNCHANGED vars
  BY <1>1, <1>10 DEF AsyncStart, PeerCloses, ReceiverExits, ReceiverDone, RetryElapses, vars
<1>11. CASE OwnerCancelsConnect
  BY <1>11, WaitsLeft DEF OwnerCancelsConnect, WaitsOwned
<1> QED
  BY <1>3, <1>4, <1>5, <1>6, <1>7, <1>8, <1>9, <1>10, <1>11 DEF Next, StopStep

LEMMA WaitsInvariant == Spec => [](TypeOK /\ OwnedInv /\ WaitsOwned)
<1> QED
  BY OwnedInit, OwnedStep, TypeInit, TypeStep, WaitsInit, WaitsStep, PTL DEF Spec

LEMMA NobodyIsStuck == ASSUME TypeOK, LockOwned, WaitsOwned PROVE NobodyStuck
<1>1. SUFFICES ASSUME \/ connect # "idle" \/ closeTask = "running" \/ stop = "joining"
                      \/ \E o \in Ops : op[o] \in {"await", "selfclose", "closing"},
                      holder = "free",
                      \A w \in Joiners : join[w] \notin {"ok", "cancelled"}
               PROVE  waiters # << >>
  BY DEF NobodyStuck
<1>2. ASSUME NEW u \in LockUsers, Waiting(u) PROVE waiters # << >>
  BY <1>2, EmptySeq DEF Waiting
<1>3. \A u \in LockUsers : u # "free"
  BY OpsAssumption DEF LockUsers
<1>4. CASE closeTask = "running"
  BY <1>1, <1>2, <1>3, <1>4, UsersApart DEF LockOwned
<1>5. ASSUME NEW w \in Joiners, join[w] # "no" PROVE closeTask = "running"
  <2>1. join[w] \in {"no", "wait", "ok", "cancelled"}
    BY DEF TypeOK
  <2> QED
    BY <1>1, <1>5, <2>1 DEF WaitsOwned
<1>6. CASE connect = "opening"
  BY <1>1, <1>2, <1>3, <1>6, UsersApart DEF LockOwned
<1>7. CASE connect = "closing" \/ stop = "joining" \/ \E o \in Ops : op[o] = "closing"
  BY <1>4, <1>5, <1>7, UsersApart DEF WaitsOwned
<1>8. CASE \E o \in Ops : op[o] = "selfclose"
  BY <1>1, <1>2, <1>3, <1>8, UsersApart DEF LockOwned
<1>9. CASE connect # "idle"
  BY <1>6, <1>7, <1>9 DEF TypeOK
<1>10. CASE \E o \in Ops : op[o] = "await"
  BY <1>9, <1>10 DEF WaitsOwned
<1> QED
  BY <1>1, <1>4, <1>7, <1>8, <1>9, <1>10

(* The lock, the close task and every await have an owner, and nobody waits *)
(* in a circle: what the session waits for can always take its next step,   *)
(* for any number of operations and cancellations.                          *)
THEOREM TasksAlwaysOwned == Spec => []TasksOwned
<1>1. TypeOK /\ OwnedInv /\ WaitsOwned => TasksOwned
  BY ClaimsIsLockOwned, NobodyIsStuck DEF OwnedInv, TasksOwned, TypeOK
<1> QED
  BY <1>1, WaitsInvariant, PTL

-----------------------------------------------------------------------------
(* Background recovery is paced: a connect task that neither a power edge   *)
(* nor an operation has asked for starts at the retry deadline or after it. *)
THEOREM RecoveryPaced == Spec => BackgroundPaced
<1>1. ASSUME TypeOK, [Next]_vars, connect = "idle", connect' = "opening",
             wasReachable, op' = op
      PROVE  retry.armed = 0
  <2>1. CASE \E reachable, eligible \in BOOLEAN : ObservePower(reachable, eligible)
    <3>1. PICK reachable \in BOOLEAN, eligible \in BOOLEAN : ObservePower(reachable, eligible)
      BY <2>1
    <3>2. Due(retry)
      BY <1>1, <3>1 DEF ObservePower, taskVars
    <3> QED
      BY <3>2 DEF Due
  <2>2. ASSUME NEW o \in Ops, StartMutation(o) PROVE FALSE
    <3>1. ScheduleConnect /\ op[o] = "idle" /\ op' = [op EXCEPT ![o] = "await"]
      BY <1>1, <2>2 DEF StartMutation
    <3>2. op'[o] = "await"
      BY <1>1, <3>1 DEF TypeOK
    <3> QED
      BY <1>1, <3>1, <3>2
  <2>3. CASE ConnectStep
    <3>1. connect' \in {"idle", "closing"} \/ UNCHANGED connect
      BY <2>3 DEF ConnectStep, ConnectAcquire, HandshakeDone, HandshakeFails,
         ConnectCancelled, ConnectEnds, ConnectSucceeds, ConnectFails, taskVars
    <3> QED
      BY <1>1, <3>1
  <2>4. ASSUME NEW o \in Ops, StartRead(o) \/ OpStep(o) PROVE UNCHANGED connect
    BY <2>4 DEF StartRead, OpStep, OpLeaves, OpFails, OpTimesOut, OpCloseAcquire,
       OpCloseEnds, OpCloseAbandoned, OpEnds, taskVars
  <2>5. CASE \/ AsyncStart \/ Stop \/ StopStep \/ CloseStep \/ Rejoin
             \/ PeerCloses \/ ReceiverExits \/ ReceiverDone \/ RetryElapses
             \/ OwnerCancelsConnect \/ OwnerCancelsClose \/ UNCHANGED vars
    <3>1. UNCHANGED connect
      BY <2>5 DEF AsyncStart, Stop, StopStep, StopCloses, StopFinish, CloseStep,
         CloseAcquire, CloseEnds, CloseExpires, Rejoin, PeerCloses, ReceiverExits,
         ReceiverDone, RetryElapses, OwnerCancelsConnect, OwnerCancelsClose, taskVars, vars
    <3> QED
      BY <1>1, <3>1
  <2> QED
    BY <1>1, <2>1, <2>2, <2>3, <2>4, <2>5 DEF Next
<1>2. TypeOK /\ [Next]_vars
        => [connect = "idle" /\ connect' = "opening" /\ wasReachable /\ op' = op
              => retry.armed = 0]_vars
  BY <1>1
<1> QED
  BY <1>2, TypeCorrect, PTL DEF Spec, BackgroundPaced
=============================================================================
