------------------------- MODULE RemoteControlProofs -------------------------
(***************************************************************************)
(* Theorems about RemoteControl, for any set of operations and any number  *)
(* of commands, tokens and unloads.                                        *)
(***************************************************************************)
EXTENDS RemoteControl, SequenceTheorems, TLAPS

USE DEF sentVars

-----------------------------------------------------------------------------
(* Types.                                                                  *)

LEMMA CommandsNat == Commands \in Nat /\ Commands > 0
BY CommandsAssumption

LEMMA TypeInit == Init => TypeOK
<1> SUFFICES ASSUME Init PROVE TypeOK
  OBVIOUS
<1>1. /\ at \in [Ops -> Places] /\ attempt \in [Ops -> {1, 2}]
      /\ why \in [Ops -> {"pairing", "failure", "cancelled"}]
      /\ delivered \in [Ops -> [1..Commands -> Nat]]
  BY DEF Init, Places
<1>2. next \in [Ops -> 0..Commands] /\ heard \in [Ops -> 0..Commands]
  BY CommandsNat DEF Init
<1>3. queue \in Seq(Ops)
  BY DEF Init
<1>4. /\ remoteToken \in Nat /\ stored \in Nat /\ unloads \in Nat /\ sockets \in Int
      /\ entry \in EntryPlaces /\ joins \subseteq Ops
  BY DEF Init, EntryPlaces
<1>5. /\ conn \in BOOLEAN /\ remoteStopped \in BOOLEAN /\ confirmed \in BOOLEAN
      /\ quiescing \in BOOLEAN /\ stopped \in BOOLEAN /\ callbacks \in BOOLEAN
  BY DEF Init
<1> QED
  BY <1>1, <1>2, <1>3, <1>4, <1>5 DEF TypeOK

(* How an operation moves on, and which types that keeps.                  *)
LEMMA EndsType ==
  ASSUME TypeOK, NEW o \in Ops, NEW how \in Ended, NEW c \in BOOLEAN, Ends(o, how, c)
  PROVE  at' \in [Ops -> Places] /\ confirmed' \in BOOLEAN
BY DEF TypeOK, Ends, Moves, Places

LEMMA RetriesType ==
  ASSUME TypeOK, NEW o \in Ops, Retries(o) \/ Reauthorizes(o)
  PROVE  at' \in [Ops -> Places] /\ confirmed' \in BOOLEAN
BY EndsType DEF TypeOK, Retries, Reauthorizes, Moves, Places, Ended, Working

LEMMA OpenedType ==
  ASSUME TypeOK, NEW o \in Ops, NEW token \in Nat, Opened(o, token)
  PROVE  /\ at' \in [Ops -> Places] /\ confirmed' \in BOOLEAN
         /\ stored' \in Nat /\ next' \in [Ops -> 0..Commands]
<1>1. at' \in [Ops -> Places] /\ confirmed' \in BOOLEAN
  BY EndsType DEF TypeOK, Opened, Persists, PersistRaises, Moves, Places, Ended, Working
<1>2. stored' \in Nat /\ next' \in [Ops -> 0..Commands]
  BY CommandsNat DEF TypeOK, Opened, Persists, PersistRaises
<1> QED
  BY <1>1, <1>2

LEMMA IssuesType ==
  ASSUME TypeOK PROVE Issues \subseteq Nat
BY DEF TypeOK, Issues

LEMMA TypeOps ==
  ASSUME TypeOK, NEW o \in Ops,
         Call(o) \/ BoundedStep(o) \/ SendCommand(o) \/ SendFails(o)
  PROVE  TypeOK'
<1> USE DEF remoteVars, gateVars, entryVars, opVars
<1>1. CASE Call(o)
  <2>1. at' \in [Ops -> Places] /\ confirmed' \in BOOLEAN
    BY <1>1, EndsType DEF Call, TypeOK, Moves, Places, Ended
  <2>2. queue' \in Seq(Ops)
    <3>1. queue \in Seq(Ops) /\ (queue' = queue \/ queue' = Append(queue, o))
      BY <1>1 DEF Call, TypeOK
    <3> QED
      BY <3>1, AppendProperties
  <2> QED
    BY <1>1, <2>1, <2>2 DEF Call, TypeOK
<1>2. CASE Acquire(o)
  <2>1. at' \in [Ops -> Places] /\ confirmed' \in BOOLEAN
    BY <1>2, EndsType DEF Acquire, TypeOK, Moves, Places, Ended, Working
  <2>2. queue' \in Seq(Ops)
    BY <1>2, HeadTailProperties DEF Acquire, TakesLock, TypeOK
  <2>3. attempt' \in [Ops -> {1, 2}]
    BY <1>2 DEF Acquire, TypeOK
  <2> QED
    BY <1>2, <2>1, <2>2, <2>3 DEF Acquire, TakesLock, TypeOK
<1>3. CASE OpenRefused(o) \/ ConnectFails(o) \/ SendFails(o)
  <2>1. at' \in [Ops -> Places] /\ confirmed' \in BOOLEAN
    BY <1>3, RetriesType DEF OpenRefused, ConnectFails, SendFails
  <2> QED
    BY <1>3, <2>1 DEF OpenRefused, ConnectFails, SendFails, TypeOK
<1>4. CASE OpenReuses(o)
  <2>1. remoteToken \in Nat
    BY DEF TypeOK
  <2>2. /\ at' \in [Ops -> Places] /\ confirmed' \in BOOLEAN
        /\ stored' \in Nat /\ next' \in [Ops -> 0..Commands]
    BY <1>4, <2>1, OpenedType DEF OpenReuses
  <2> QED
    BY <1>4, <2>2 DEF OpenReuses, TypeOK
<1>5. CASE HandshakeAccepts(o)
  <2>1. PICK token \in Issues : remoteToken' = token /\ Opened(o, token)
    BY <1>5 DEF HandshakeAccepts
  <2>2. token \in Nat
    BY IssuesType
  <2>3. /\ at' \in [Ops -> Places] /\ confirmed' \in BOOLEAN
        /\ stored' \in Nat /\ next' \in [Ops -> 0..Commands]
    BY <2>1, <2>2, OpenedType
  <2> QED
    BY <1>5, <2>1, <2>2, <2>3 DEF HandshakeAccepts, TypeOK
<1>6. CASE OpenStarts(o) \/ Connect(o) \/ HandshakeFails(o)
  <2>1. at' \in [Ops -> Places]
    BY <1>6 DEF OpenStarts, Connect, HandshakeFails, Moves, TypeOK, Places, Working
  <2>2. why' \in [Ops -> {"pairing", "failure", "cancelled"}]
    <3>1. CASE OpenStarts(o) \/ Connect(o)
      BY <3>1 DEF OpenStarts, Connect, TypeOK
    <3>2. CASE HandshakeFails(o)
      <4>1. PICK reason \in {"pairing", "failure"} : why' = [why EXCEPT ![o] = reason]
        BY <3>2 DEF HandshakeFails
      <4> QED
        BY <4>1 DEF TypeOK
    <3> QED
      BY <1>6, <3>1, <3>2
  <2>3. sockets' \in Int
    BY <1>6 DEF OpenStarts, Connect, HandshakeFails, TypeOK
  <2> QED
    BY <1>6, <2>1, <2>2, <2>3 DEF OpenStarts, Connect, HandshakeFails, TypeOK
<1>7. CASE Discarded(o)
  <2>1. why[o] \in {"pairing", "failure", "cancelled"}
    BY DEF TypeOK
  <2>2. Reauthorizes(o) \/ Retries(o) \/ Ends(o, "failed", confirmed)
    BY <1>7, <2>1 DEF Discarded
  <2>3. at' \in [Ops -> Places] /\ confirmed' \in BOOLEAN
    BY <2>2, RetriesType, EndsType DEF TypeOK, Ended
  <2> QED
    BY <1>7, <2>3 DEF Discarded, TypeOK
<1>8. CASE SendCommand(o)
  <2>1. /\ next[o] \in 0..Commands /\ next[o] < Commands
        /\ next'[o] = next[o] + 1 /\ next' = [next EXCEPT ![o] = next[o] + 1]
    BY <1>8 DEF SendCommand, TypeOK
  <2>2. next'[o] \in 1..Commands
    BY <2>1, CommandsNat
  <2>3. next' \in [Ops -> 0..Commands] /\ heard' \in [Ops -> 0..Commands]
    BY <1>8, <2>1, <2>2, CommandsNat DEF SendCommand, TypeOK
  <2>4. delivered' \in [Ops -> [1..Commands -> Nat]]
    <3> DEFINE c == next'[o]
               more == [delivered[o] EXCEPT ![c] = @ + 1]
    <3>1. delivered' = [delivered EXCEPT ![o] = more]
      BY <1>8 DEF SendCommand
    <3>2. delivered \in [Ops -> [1..Commands -> Nat]] /\ delivered[o] \in [1..Commands -> Nat]
      BY DEF TypeOK
    <3>3. more \in [1..Commands -> Nat]
      BY <2>2, <3>2
    <3> HIDE DEF more
    <3> QED
      BY <3>1, <3>2, <3>3
  <2> QED
    BY <1>8, <2>3, <2>4 DEF SendCommand, TypeOK
<1>9. CASE SendCompletes(o) \/ CloseFails(o)
  <2>1. at' \in [Ops -> Places] /\ confirmed' \in BOOLEAN
    BY <1>9, EndsType DEF SendCompletes, CloseFails, TypeOK, Ended
  <2> QED
    BY <1>9, <2>1 DEF SendCompletes, CloseFails, TypeOK
<1>10. CASE Reset(o) \/ Closed(o)
  <2>1. at' \in [Ops -> Places]
    BY <1>10 DEF Reset, Closed, OpensAgain, Moves, TypeOK, Places, Working
  <2>2. attempt' \in [Ops -> {1, 2}]
    BY <1>10 DEF Reset, Closed, OpensAgain, TypeOK
  <2>3. conn' \in BOOLEAN /\ confirmed' \in BOOLEAN
    BY <1>10 DEF Reset, Closed, OpensAgain, TypeOK
  <2>4. sockets' \in Int
    <3>1. sockets \in Int
      BY DEF TypeOK
    <3> QED
      BY <1>10, <3>1 DEF Reset, Closed
  <2> QED
    BY <1>10, <2>1, <2>2, <2>3, <2>4 DEF Reset, Closed, TypeOK
<1> QED
  BY <1>1, <1>2, <1>3, <1>4, <1>5, <1>6, <1>7, <1>8, <1>9, <1>10 DEF BoundedStep

LEMMA TypeEntry ==
  ASSUME TypeOK,
         \/ SetupDone \/ SetupFails \/ AsyncUnloadEntry \/ EntryStep
         \/ AsyncCaptureToken \/ PowerBoundary
  PROVE  TypeOK'
<1> USE DEF remoteVars, gateVars, entryVars, opVars, OperationsStay, EntryStays
<1>1. CASE SetupDone \/ SetupFails \/ PlatformsUnloaded
  BY <1>1 DEF SetupDone, SetupFails, PlatformsUnloaded, StopBegins, TypeOK, EntryPlaces
<1>2. CASE AsyncUnloadEntry \/ AsyncStopRemote
  <2>1. Active \subseteq Ops
    BY DEF Active
  <2>2. entry' \in EntryPlaces /\ joins' \subseteq Ops
    BY <1>2, <2>1 DEF AsyncUnloadEntry, QuiesceAndJoin, AsyncStopRemote, EntryPlaces
  <2>3. unloads' \in Nat
    BY <1>2 DEF AsyncUnloadEntry, AsyncStopRemote, TypeOK
  <2>5. /\ quiescing' \in BOOLEAN /\ confirmed' \in BOOLEAN /\ stopped' \in BOOLEAN
        /\ callbacks' \in BOOLEAN /\ remoteStopped' \in BOOLEAN
    BY <1>2 DEF AsyncUnloadEntry, QuiesceAndJoin, AsyncStopRemote, TypeOK
  <2>4. UNCHANGED <<at, attempt, next, why, queue, conn, sockets, remoteToken, stored, delivered, heard>>
    BY <1>2 DEF AsyncUnloadEntry, AsyncStopRemote
  <2> QED
    BY <2>2, <2>3, <2>4, <2>5 DEF TypeOK
<1>3. CASE QuiesceJoined \/ QuiesceFails \/ PlatformsRefuse
  BY <1>3 DEF QuiesceJoined, QuiesceFails, PlatformsRefuse, RestoreAndResume, TypeOK, EntryPlaces
<1>4. CASE DrainExpires
  <2>1. PICK o \in joins : Cancel(o)
    BY <1>4 DEF DrainExpires
  <2>2. o \in Ops
    BY <2>1 DEF TypeOK
  <2>3. at' \in [Ops -> Places] /\ confirmed' \in BOOLEAN
    BY <2>1, <2>2, EndsType DEF Cancel, CancelDiscards, CancelEnds, CancelSwallowed, Moves, TypeOK,
       Places, Working, Ended
  <2>4. why' \in [Ops -> {"pairing", "failure", "cancelled"}]
    <3>1. CASE CancelDiscards(o)
      BY <2>2, <3>1 DEF CancelDiscards, TypeOK
    <3>2. CASE CancelEnds(o) \/ CancelSwallowed(o)
      BY <3>2 DEF CancelEnds, CancelSwallowed, TypeOK
    <3> QED
      BY <2>1, <3>1, <3>2 DEF Cancel
  <2>5. sockets' \in Int
    BY <2>1 DEF Cancel, CancelDiscards, CancelEnds, CancelSwallowed, TypeOK
  <2> QED
    BY <1>4, <2>3, <2>4, <2>5 DEF DrainExpires, TypeOK, EntryPlaces
<1>5. CASE StopDrained \/ StopTakesLock \/ StopReleases
  <2>1. entry' \in EntryPlaces /\ joins' \subseteq Ops
    BY <1>5 DEF StopDrained, StopTakesLock, StopReleases, TypeOK, EntryPlaces
  <2>2. conn' \in BOOLEAN /\ remoteStopped' \in BOOLEAN
    BY <1>5 DEF StopDrained, StopTakesLock, StopReleases, TypeOK
  <2>3. sockets' \in Int
    <3>1. sockets \in Int
      BY DEF TypeOK
    <3> QED
      BY <1>5, <3>1 DEF StopDrained, StopTakesLock, StopReleases
  <2>4. UNCHANGED <<at, attempt, next, why, queue, remoteToken, stored, confirmed, quiescing,
                    stopped, callbacks, unloads, delivered, heard>>
    BY <1>5 DEF StopDrained, StopTakesLock, StopReleases
  <2> QED
    BY <2>1, <2>2, <2>3, <2>4 DEF TypeOK
<1>6. CASE AsyncCaptureToken \/ PowerBoundary
  BY <1>6 DEF AsyncCaptureToken, PowerBoundary, TypeOK
<1> QED
  BY <1>1, <1>2, <1>3, <1>4, <1>5, <1>6 DEF EntryStep

LEMMA TypeStep == TypeOK /\ [Next]_vars => TypeOK'
<1> SUFFICES ASSUME TypeOK, [Next]_vars PROVE TypeOK'
  OBVIOUS
<1>1. CASE UNCHANGED vars
  BY <1>1 DEF vars, opVars, remoteVars, entryVars, gateVars, TypeOK
<1> QED
  BY <1>1, TypeOps, TypeEntry DEF Next

(* The variables stay in the sets the code keeps them in.                  *)
THEOREM TypeCorrect == Spec => []TypeOK
BY TypeInit, TypeStep, PTL DEF Spec

-----------------------------------------------------------------------------
(* The inductive invariant.                                                *)

\* The operations that hold a socket that is not published in connection.
Unpublished(o) == at[o] \in {"handshaking", "discarding"}

\* One operation at a time holds the operation lock.
OneWorks == \A p, q \in Ops : at[p] \in Working /\ at[q] \in Working => p = q

\* Admission is closed in every phase that relies on it.
GateClosed ==
  /\ entry \notin {"setup", "loaded"} => quiescing
  /\ ~callbacks => quiescing
  /\ entry \in {"quiescing", "cancelling"} => Active \subseteq joins
  /\ entry = "platforms" => Active = {}
  /\ entry \in {"stopLock", "stopClosing", "stopped"} => remoteStopped
  /\ entry = "stopped" => ~conn

\* The sockets are the published one and that of the running handshake.
SocketsCounted ==
  /\ \A o \in Ops : at[o] = "connecting" \/ Unpublished(o) => ~conn
  /\ sockets = (IF conn THEN 1 ELSE 0)
             + (IF \E o \in Ops : Unpublished(o) THEN 1 ELSE 0)

\* Whoever sends does so on a connection whose token is in the entry.
TokenSaved == \A o \in Ops : at[o] = "sending" => stored = remoteToken

\* What the TV has got of an operation, by its attempt and its place: a round
\* sends each command once, and a second round begins when the first has failed.
SentSoFar(o) ==
  /\ at[o] \in {"idle", "queued"} => \A c \in 1..Commands : delivered[o][c] = 0
  /\ at[o] \in {"opening", "connecting", "handshaking", "discarding"} =>
       \A c \in 1..Commands : delivered[o][c] <= IF attempt[o] = 1 THEN 0 ELSE 1
  /\ at[o] = "sending" =>
       /\ next[o] > 0 => heard[o] = next[o]
       /\ \A c \in 1..Commands :
            /\ c <= next[o] => /\ 1 <= delivered[o][c]
                               /\ delivered[o][c] <= IF attempt[o] = 1 THEN 1 ELSE 2
            /\ c > next[o] => delivered[o][c] <= IF attempt[o] = 1 THEN 0 ELSE 1
  /\ at[o] \in {"resetting", "closing"} => \A c \in 1..Commands : delivered[o][c] <= 1
  /\ at[o] = "ok" =>
       heard[o] = Commands /\ \A c \in 1..Commands : delivered[o][c] >= 1
  /\ \A c \in 1..Commands : delivered[o][c] <= 2
Counted == \A o \in Ops : SentSoFar(o)

LEMMA InvInit == Init => OneWorks /\ GateClosed /\ SocketsCounted /\ TokenSaved /\ Counted
<1> SUFFICES ASSUME Init PROVE OneWorks /\ GateClosed /\ SocketsCounted /\ TokenSaved /\ Counted
  OBVIOUS
<1>1. \A o \in Ops : at[o] = "idle" /\ \A c \in 1..Commands : delivered[o][c] = 0
  BY DEF Init
<1>2. OneWorks /\ TokenSaved
  BY <1>1 DEF OneWorks, TokenSaved, Working
<1>3. GateClosed
  BY DEF Init, GateClosed
<1>4. SocketsCounted
  <2>1. conn = FALSE /\ sockets = 0
    BY DEF Init
  <2> QED
    BY <1>1, <2>1 DEF SocketsCounted, Unpublished
<1>5. Counted
  <2> SUFFICES ASSUME NEW o \in Ops PROVE SentSoFar(o)
    BY DEF Counted
  <2>1. at[o] = "idle" /\ \A c \in 1..Commands : delivered[o][c] = 0
    BY <1>1
  <2> QED
    BY <2>1, CommandsNat DEF SentSoFar
<1> QED
  BY <1>2, <1>3, <1>4, <1>5

(* What a step of an operation can do to the rest of the program.          *)
OpStep(o) == Call(o) \/ BoundedStep(o) \/ SendCommand(o) \/ SendFails(o)

\* It moves itself only, and starts to work only through the lock, with
\* admission open.
LEMMA OpMoves ==
  ASSUME TypeOK, NEW o \in Ops, OpStep(o)
  PROVE  /\ \A p \in Ops : p # o => at'[p] = at[p]
         /\ at'[o] \in Working => at[o] \in Working \/ (Active = {} /\ ~quiescing)
<1> USE DEF OpStep, TypeOK, Moves, Ends, Working
<1>1. CASE Call(o)
  BY <1>1 DEF Call
<1>2. CASE Acquire(o)
  BY <1>2 DEF Acquire, TakesLock, Unavailable
<1>3. CASE OpenRefused(o) \/ ConnectFails(o) \/ SendFails(o)
  BY <1>3 DEF OpenRefused, ConnectFails, SendFails, Retries, Reauthorizes
<1>4. CASE OpenReuses(o)
  BY <1>4 DEF OpenReuses, Opened, Persists, PersistRaises
<1>5. CASE HandshakeAccepts(o)
  BY <1>5 DEF HandshakeAccepts, Opened, Persists, PersistRaises
<1>6. CASE OpenStarts(o) \/ Connect(o) \/ HandshakeFails(o)
  BY <1>6 DEF OpenStarts, Connect, HandshakeFails
<1>7. CASE Discarded(o)
  BY <1>7 DEF Discarded, Retries, Reauthorizes
<1>8. CASE SendCommand(o) \/ SendCompletes(o) \/ CloseFails(o)
  BY <1>8 DEF SendCommand, SendCompletes, CloseFails
<1>9. CASE Reset(o) \/ Closed(o)
  BY <1>9 DEF Reset, Closed, OpensAgain
<1> QED
  BY <1>1, <1>2, <1>3, <1>4, <1>5, <1>6, <1>7, <1>8, <1>9 DEF BoundedStep

LEMMA OpKeepsGate ==
  ASSUME NEW o \in Ops, OpStep(o)
  PROVE  /\ UNCHANGED <<quiescing, stopped, callbacks, entry, joins, remoteStopped>>
         /\ conn' => conn \/ ~remoteStopped
<1> USE DEF remoteVars, entryVars, gateVars
<1>1. CASE Call(o) \/ Acquire(o) \/ OpenRefused(o) \/ ConnectFails(o) \/ SendFails(o)
  BY <1>1 DEF Call, Acquire, TakesLock, OpenRefused, ConnectFails, SendFails
<1>2. CASE OpenReuses(o) \/ HandshakeAccepts(o)
  <2>1. CASE OpenReuses(o)
    BY <2>1 DEF OpenReuses
  <2>2. CASE HandshakeAccepts(o)
    BY <2>2 DEF HandshakeAccepts
  <2> QED
    BY <1>2, <2>1, <2>2
<1>3. CASE OpenStarts(o) \/ Connect(o) \/ HandshakeFails(o) \/ Discarded(o)
  <2>1. CASE OpenStarts(o) \/ Connect(o)
    BY <2>1 DEF OpenStarts, Connect
  <2>2. CASE HandshakeFails(o)
    BY <2>2 DEF HandshakeFails
  <2>3. CASE Discarded(o)
    BY <2>3 DEF Discarded
  <2> QED
    BY <1>3, <2>1, <2>2, <2>3
<1>4. CASE SendCommand(o) \/ SendCompletes(o) \/ CloseFails(o)
  <2>1. CASE SendCommand(o)
    <3>1. conn /\ UNCHANGED <<remoteVars, entryVars>>
      BY <2>1 DEF SendCommand
    <3> QED
      BY <3>1
  <2>2. CASE SendCompletes(o) \/ CloseFails(o)
    <3>1. UNCHANGED <<remoteVars, entryVars>>
      BY <2>2 DEF SendCompletes, CloseFails
    <3> QED
      BY <3>1
  <2> QED
    BY <1>4, <2>1, <2>2
<1>5. CASE Reset(o) \/ Closed(o)
  BY <1>5 DEF Reset, Closed
<1> QED
  BY <1>1, <1>2, <1>3, <1>4, <1>5 DEF OpStep, BoundedStep

\* A cancelled operation does not start to work.
LEMMA CancelMoves ==
  ASSUME TypeOK, NEW o \in Ops, Cancel(o)
  PROVE  /\ \A p \in Ops : p # o => at'[p] = at[p]
         /\ at'[o] \in Working => at[o] \in Working
BY DEF TypeOK, Cancel, CancelDiscards, CancelEnds, CancelSwallowed, Moves, Ends, Working

\* The entry's own steps, but for the cancellation, leave the operations alone.
EntryQuiet ==
  \/ SetupDone \/ SetupFails \/ AsyncUnloadEntry \/ QuiesceJoined \/ QuiesceFails
  \/ PlatformsRefuse \/ PlatformsUnloaded \/ AsyncStopRemote \/ StopDrained
  \/ StopTakesLock \/ StopReleases \/ AsyncCaptureToken \/ PowerBoundary

LEMMA EntryKeepsOperations ==
  ASSUME EntryQuiet PROVE UNCHANGED <<at, attempt, next, delivered, heard, remoteToken>>
<1> USE DEF OperationsStay, EntryStays, remoteVars, opVars
<1>1. CASE SetupDone \/ SetupFails \/ AsyncUnloadEntry \/ PlatformsUnloaded
  BY <1>1 DEF SetupDone, SetupFails, StopBegins, AsyncUnloadEntry, PlatformsUnloaded
<1>2. CASE QuiesceJoined \/ QuiesceFails \/ PlatformsRefuse
  BY <1>2 DEF QuiesceJoined, QuiesceFails, PlatformsRefuse, RestoreAndResume
<1>3. CASE AsyncStopRemote \/ StopDrained \/ StopTakesLock \/ StopReleases
  BY <1>3 DEF AsyncStopRemote, StopDrained, StopTakesLock, StopReleases
<1>4. CASE AsyncCaptureToken \/ PowerBoundary
  BY <1>4 DEF AsyncCaptureToken, PowerBoundary
<1> QED
  BY <1>1, <1>2, <1>3, <1>4 DEF EntryQuiet

\* The three kinds of step.
LEMMA StepKinds ==
  ASSUME [Next]_vars
  PROVE  \/ \E o \in Ops : OpStep(o)
         \/ EntryQuiet \/ DrainExpires
         \/ UNCHANGED vars
BY DEF Next, EntryStep, OpStep, EntryQuiet

-----------------------------------------------------------------------------
(* One operation works at a time.                                          *)

LEMMA OneWorksStep == TypeOK /\ OneWorks /\ [Next]_vars => OneWorks'
<1> SUFFICES ASSUME TypeOK, OneWorks, [Next]_vars PROVE OneWorks'
  OBVIOUS
<1>1. CASE \E o \in Ops : OpStep(o)
  <2>1. PICK o \in Ops : OpStep(o)
    BY <1>1
  <2>2. /\ \A p \in Ops : p # o => at'[p] = at[p]
        /\ at'[o] \in Working => at[o] \in Working \/ Active = {}
    BY <2>1, OpMoves
  <2> QED
    BY <2>2 DEF OneWorks, Active
<1>2. CASE DrainExpires
  <2>1. PICK o \in joins : Cancel(o)
    BY <1>2 DEF DrainExpires
  <2>2. o \in Ops
    BY DEF TypeOK
  <2>3. /\ \A p \in Ops : p # o => at'[p] = at[p]
        /\ at'[o] \in Working => at[o] \in Working
    BY <2>1, <2>2, CancelMoves
  <2> QED
    BY <2>3 DEF OneWorks
<1>3. CASE EntryQuiet \/ UNCHANGED vars
  <2>1. at' = at
    BY <1>3, EntryKeepsOperations DEF vars, opVars
  <2> QED
    BY <2>1 DEF OneWorks
<1> QED
  BY <1>1, <1>2, <1>3, StepKinds

-----------------------------------------------------------------------------
(* The gate.                                                               *)

LEMMA GateOps ==
  ASSUME TypeOK, GateClosed, NEW o \in Ops, OpStep(o)
  PROVE  GateClosed'
<1>1. /\ \A p \in Ops : p # o => at'[p] = at[p]
      /\ at'[o] \in Working => at[o] \in Working \/ (Active = {} /\ ~quiescing)
  BY OpMoves
<1>2. UNCHANGED <<quiescing, stopped, callbacks, entry, joins, remoteStopped>>
  BY OpKeepsGate
<1>3. conn' => conn \/ ~remoteStopped
  BY OpKeepsGate
<1>4. quiescing => Active' \subseteq Active
  BY <1>1 DEF Active
<1>5. /\ entry' \in {"quiescing", "cancelling"} => Active' \subseteq joins'
      /\ entry' = "platforms" => Active' = {}
  BY <1>2, <1>4 DEF GateClosed
<1> QED
  BY <1>2, <1>3, <1>5 DEF GateClosed

LEMMA GateQuiet ==
  ASSUME TypeOK, GateClosed, EntryQuiet
  PROVE  GateClosed'
<1>1. Active' = Active
  BY EntryKeepsOperations DEF Active
<1> USE DEF EntryStays, OperationsStay
<1>2. CASE SetupDone \/ SetupFails \/ PlatformsUnloaded
  BY <1>1, <1>2 DEF SetupDone, SetupFails, PlatformsUnloaded, StopBegins, GateClosed, gateVars
<1>3. CASE AsyncUnloadEntry
  BY <1>1, <1>3 DEF AsyncUnloadEntry, QuiesceAndJoin, GateClosed
<1>4. CASE QuiesceJoined
  <2>1. Active \subseteq joins /\ Joined
    BY <1>4 DEF QuiesceJoined, GateClosed
  <2>2. Active = {}
    BY <2>1 DEF Joined, Active, Working, Ended
  <2> QED
    BY <1>1, <1>4, <2>2 DEF QuiesceJoined, GateClosed
<1>5. CASE QuiesceFails \/ PlatformsRefuse
  BY <1>1, <1>5 DEF QuiesceFails, PlatformsRefuse, RestoreAndResume, GateClosed
<1>6. CASE AsyncStopRemote
  BY <1>1, <1>6 DEF AsyncStopRemote, GateClosed, gateVars
<1>7. CASE StopDrained
  BY <1>1, <1>7 DEF StopDrained, GateClosed, gateVars
<1>8. CASE StopTakesLock
  BY <1>1, <1>8 DEF StopTakesLock, GateClosed, gateVars
<1>9. CASE StopReleases
  BY <1>1, <1>9 DEF StopReleases, GateClosed, gateVars
<1>10. CASE AsyncCaptureToken \/ PowerBoundary
  BY <1>1, <1>10 DEF AsyncCaptureToken, PowerBoundary, GateClosed, entryVars, gateVars, remoteVars
<1> QED
  BY <1>2, <1>3, <1>4, <1>5, <1>6, <1>7, <1>8, <1>9, <1>10 DEF EntryQuiet

LEMMA GateStep == TypeOK /\ GateClosed /\ [Next]_vars => GateClosed'
<1> SUFFICES ASSUME TypeOK, GateClosed, [Next]_vars PROVE GateClosed'
  OBVIOUS
<1>1. CASE DrainExpires
  <2>1. PICK o \in joins : Cancel(o)
    BY <1>1 DEF DrainExpires
  <2>2. o \in Ops
    BY DEF TypeOK
  <2>3. Active' \subseteq Active
    BY <2>1, <2>2, CancelMoves DEF Active
  <2>4. UNCHANGED <<quiescing, callbacks, joins, remoteStopped, conn>>
    BY <1>1 DEF DrainExpires, EntryStays, gateVars
  <2>5. \/ entry = "quiescing" /\ entry' = "cancelling"
        \/ entry = "stopDraining" /\ entry' = "stopCancelling"
    BY <1>1 DEF DrainExpires
  <2> QED
    BY <2>3, <2>4, <2>5 DEF GateClosed
<1>2. CASE UNCHANGED vars
  BY <1>2 DEF GateClosed, Active, vars, opVars, remoteVars, entryVars, gateVars
<1> QED
  BY <1>1, <1>2, GateOps, GateQuiet, StepKinds

-----------------------------------------------------------------------------
(* The sockets.                                                            *)

HalfOpen == \E o \in Ops : Unpublished(o)
SocketCount == sockets = (IF conn THEN 1 ELSE 0) + (IF HalfOpen THEN 1 ELSE 0)

LEMMA SocketsAre ==
  SocketsCounted <=> /\ \A o \in Ops : at[o] = "connecting" \/ Unpublished(o) => ~conn
                     /\ SocketCount
BY DEF SocketsCounted, SocketCount, HalfOpen

\* While one operation works, no other is near a socket.
LEMMA OthersRest ==
  ASSUME TypeOK, OneWorks, NEW o \in Ops, at[o] \in Working
  PROVE  \A p \in Ops : p # o => at[p] \notin Working
BY DEF OneWorks

\* The only unpublished socket is that of the working operation.
LEMMA SocketsOfTheWorker ==
  ASSUME TypeOK, OneWorks, SocketsCounted, NEW o \in Ops, at[o] \in Working,
         \A p \in Ops : p # o => at'[p] = at[p],
         at'[o] = "connecting" \/ Unpublished(o)' => ~conn'
  PROVE  /\ SocketCount
         /\ HalfOpen <=> Unpublished(o)
         /\ HalfOpen' <=> Unpublished(o)'
         /\ SocketCount' => SocketsCounted'
<1>1. \A p \in Ops : p # o => at[p] \notin Working /\ at'[p] \notin Working
  BY OthersRest
<1>2. \A p \in Ops : p # o => /\ ~Unpublished(p) /\ ~Unpublished(p)'
                              /\ at'[p] # "connecting"
  BY <1>1 DEF Unpublished, Working
<1>3. (HalfOpen <=> Unpublished(o)) /\ (HalfOpen' <=> Unpublished(o)')
  BY <1>2 DEF HalfOpen
<1>4. \A p \in Ops : at'[p] = "connecting" \/ Unpublished(p)' => ~conn'
  BY <1>2
<1>5. SocketCount' => SocketsCounted'
  BY <1>4 DEF SocketsCounted, SocketCount, HalfOpen
<1> QED
  BY <1>3, <1>5, SocketsAre

\* An operation that neither has nor gets an unpublished socket.
LEMMA SocketsPlain ==
  ASSUME TypeOK, SocketsCounted, NEW o \in Ops,
         \A p \in Ops : p # o => at'[p] = at[p],
         ~Unpublished(o), at'[o] \notin {"connecting", "handshaking", "discarding"},
         UNCHANGED <<conn, sockets>>
  PROVE  SocketsCounted'
<1>1. \A p \in Ops : Unpublished(p)' <=> Unpublished(p)
  BY DEF Unpublished
<1>2. HalfOpen' <=> HalfOpen
  BY <1>1 DEF HalfOpen
<1>3. SocketCount'
  BY <1>2, SocketsAre DEF SocketCount
<1>4. \A p \in Ops : at'[p] = "connecting" \/ Unpublished(p)' => ~conn'
  BY <1>1 DEF SocketsCounted
<1> QED
  BY <1>3, <1>4 DEF SocketsCounted, SocketCount, HalfOpen

LEMMA SocketsOps ==
  ASSUME TypeOK, OneWorks, SocketsCounted, NEW o \in Ops, OpStep(o)
  PROVE  SocketsCounted'
<1>1. \A p \in Ops : p # o => at'[p] = at[p]
  BY OpMoves
<1>2. sockets \in Int /\ sockets' \in Int
  BY TypeOps DEF OpStep, TypeOK
<1>3. at \in [Ops -> Places]
  BY DEF TypeOK
<1>4. CASE \/ Call(o) \/ Acquire(o) \/ OpenRefused(o) \/ OpenReuses(o) \/ ConnectFails(o)
           \/ SendCommand(o) \/ SendFails(o) \/ SendCompletes(o) \/ Reset(o) \/ CloseFails(o)
  <2>1. UNCHANGED <<conn, sockets>>
    BY <1>4 DEF Call, Acquire, TakesLock, OpenRefused, OpenReuses, ConnectFails, SendCommand,
       SendFails, SendCompletes, Reset, CloseFails, remoteVars
  <2>2. ~Unpublished(o)
    BY <1>4 DEF Call, Acquire, TakesLock, OpenRefused, OpenReuses, ConnectFails, SendCommand,
       SendFails, SendCompletes, Reset, CloseFails, Unpublished
  <2>3. at'[o] \notin {"connecting", "handshaking", "discarding"}
    <3>1. CASE Call(o) \/ Acquire(o)
      BY <1>3, <3>1 DEF Call, Acquire, Moves, Ends
    <3>2. CASE OpenRefused(o) \/ ConnectFails(o) \/ SendFails(o)
      BY <1>3, <3>2 DEF OpenRefused, ConnectFails, SendFails, Retries, Reauthorizes, Moves, Ends
    <3>3. CASE OpenReuses(o)
      BY <1>3, <3>3 DEF OpenReuses, Opened, Persists, PersistRaises, Moves, Ends
    <3>4. CASE SendCommand(o) \/ SendCompletes(o) \/ CloseFails(o)
      BY <1>3, <3>4 DEF SendCommand, SendCompletes, CloseFails, Moves, Ends
    <3>5. CASE Reset(o)
      BY <1>3, <3>5 DEF Reset, OpensAgain, Moves
    <3> QED
      BY <1>4, <3>1, <3>2, <3>3, <3>4, <3>5
  <2> QED
    BY <1>1, <2>1, <2>2, <2>3, SocketsPlain
<1>5. CASE OpenStarts(o)
  <2>1. at[o] = "opening" /\ at'[o] = "connecting" /\ ~conn
    BY <1>3, <1>5 DEF OpenStarts, Moves
  <2>2. UNCHANGED <<conn, sockets>>
    BY <1>5 DEF OpenStarts, remoteVars
  <2>3. at[o] \in Working /\ ~Unpublished(o) /\ ~Unpublished(o)' /\ ~conn'
    BY <2>1, <2>2 DEF Working, Unpublished
  <2>5. /\ SocketCount
        /\ SocketCount' => SocketsCounted'
        /\ HalfOpen <=> Unpublished(o)
        /\ HalfOpen' <=> Unpublished(o)'
    BY <1>1, <2>1, <2>2, <2>3, SocketsOfTheWorker
  <2> QED
    BY <1>1, <1>2, <2>1, <2>2, <2>3, <2>5 DEF SocketCount
<1>6. CASE Connect(o)
  <2>1. at[o] = "connecting" /\ at'[o] = "handshaking" /\ sockets' = sockets + 1
    BY <1>3, <1>6 DEF Connect, Moves
  <2>2. conn' = conn
    BY <1>6 DEF Connect
  <2>3. at[o] \in Working /\ ~Unpublished(o) /\ Unpublished(o)' /\ ~conn'
    BY <2>1, <2>2 DEF Working, Unpublished, SocketsCounted
  <2>5. /\ SocketCount
        /\ SocketCount' => SocketsCounted'
        /\ HalfOpen <=> Unpublished(o)
        /\ HalfOpen' <=> Unpublished(o)'
    BY <1>1, <2>1, <2>2, <2>3, SocketsOfTheWorker
  <2> QED
    BY <1>1, <1>2, <2>1, <2>2, <2>3, <2>5 DEF SocketCount
<1>7. CASE HandshakeAccepts(o)
  <2>1. at[o] = "handshaking" /\ conn' = TRUE /\ sockets' = sockets
    BY <1>7 DEF HandshakeAccepts
  <2>2. PICK token \in Issues : Opened(o, token)
    BY <1>7 DEF HandshakeAccepts
  <2>3. at'[o] \in {"failed", "sending"}
    BY <1>3, <2>2 DEF Opened, Persists, PersistRaises, Moves, Ends
  <2>4. at[o] \in Working /\ Unpublished(o) /\ ~Unpublished(o)' /\ ~conn
    BY <2>1, <2>3 DEF Working, Unpublished, SocketsCounted
  <2>5. /\ SocketCount
        /\ SocketCount' => SocketsCounted'
        /\ HalfOpen <=> Unpublished(o)
        /\ HalfOpen' <=> Unpublished(o)'
    BY <1>1, <2>1, <2>3, <2>4, SocketsOfTheWorker
  <2> QED
    BY <1>1, <1>2, <2>1, <2>3, <2>4, <2>5 DEF SocketCount
<1>8. CASE HandshakeFails(o)
  <2>1. at[o] = "handshaking" /\ at'[o] = "discarding"
    BY <1>3, <1>8 DEF HandshakeFails, Moves
  <2>2. UNCHANGED <<conn, sockets>>
    BY <1>8 DEF HandshakeFails, remoteVars
  <2>3. at[o] \in Working /\ Unpublished(o) /\ Unpublished(o)' /\ ~conn'
    BY <2>1, <2>2 DEF Working, Unpublished, SocketsCounted
  <2>5. /\ SocketCount
        /\ SocketCount' => SocketsCounted'
        /\ HalfOpen <=> Unpublished(o)
        /\ HalfOpen' <=> Unpublished(o)'
    BY <1>1, <2>1, <2>2, <2>3, SocketsOfTheWorker
  <2> QED
    BY <1>1, <1>2, <2>1, <2>2, <2>3, <2>5 DEF SocketCount
<1>9. CASE Discarded(o)
  <2>1. at[o] = "discarding" /\ sockets' = sockets - 1
    BY <1>9 DEF Discarded
  <2>2. conn' = conn
    BY <1>9 DEF Discarded
  <2>3. at'[o] \in {"failed", "resetting"}
    <3>1. why[o] \in {"pairing", "failure", "cancelled"}
      BY DEF TypeOK
    <3> QED
      BY <1>3, <1>9, <3>1 DEF Discarded, Retries, Reauthorizes, Moves, Ends
  <2>4. at[o] \in Working /\ Unpublished(o) /\ ~Unpublished(o)'
    BY <2>1, <2>3 DEF Working, Unpublished
  <2>5. /\ SocketCount
        /\ SocketCount' => SocketsCounted'
        /\ HalfOpen <=> Unpublished(o)
        /\ HalfOpen' <=> Unpublished(o)'
    BY <1>1, <2>1, <2>2, <2>3, <2>4, SocketsOfTheWorker
  <2> QED
    BY <1>1, <1>2, <2>1, <2>2, <2>3, <2>4, <2>5 DEF SocketCount
<1>10. CASE Closed(o)
  <2>1. /\ at[o] = "closing" /\ at'[o] = "opening"
        /\ sockets' = IF conn THEN sockets - 1 ELSE sockets
    BY <1>3, <1>10 DEF Closed, OpensAgain, Moves
  <2>2. conn' = FALSE
    BY <1>10 DEF Closed
  <2>3. at[o] \in Working /\ ~Unpublished(o) /\ ~Unpublished(o)'
    BY <2>1 DEF Working, Unpublished
  <2>5. /\ SocketCount
        /\ SocketCount' => SocketsCounted'
        /\ HalfOpen <=> Unpublished(o)
        /\ HalfOpen' <=> Unpublished(o)'
    BY <1>1, <2>1, <2>2, <2>3, SocketsOfTheWorker
  <2> QED
    BY <1>1, <1>2, <2>1, <2>2, <2>3, <2>5 DEF SocketCount
<1> QED
  BY <1>4, <1>5, <1>6, <1>7, <1>8, <1>9, <1>10 DEF OpStep, BoundedStep

LEMMA SocketsQuiet ==
  ASSUME TypeOK, OneWorks, SocketsCounted, EntryQuiet
  PROVE  SocketsCounted'
<1>1. at' = at
  BY EntryKeepsOperations
<1>2. HalfOpen' <=> HalfOpen
  BY <1>1 DEF HalfOpen, Unpublished
<1>3. sockets \in Int /\ SocketCount
  BY SocketsAre DEF TypeOK
<1>4. \/ UNCHANGED <<conn, sockets>>
      \/ conn' = FALSE /\ sockets' = IF conn THEN sockets - 1 ELSE sockets
  <2> USE DEF OperationsStay, EntryStays, remoteVars
  <2>1. CASE SetupDone \/ SetupFails \/ AsyncUnloadEntry \/ PlatformsUnloaded
    BY <2>1 DEF SetupDone, SetupFails, StopBegins, AsyncUnloadEntry, PlatformsUnloaded
  <2>2. CASE QuiesceJoined \/ QuiesceFails \/ PlatformsRefuse
    BY <2>2 DEF QuiesceJoined, QuiesceFails, PlatformsRefuse, RestoreAndResume
  <2>3. CASE AsyncStopRemote \/ StopDrained \/ StopTakesLock
    BY <2>3 DEF AsyncStopRemote, StopDrained, StopTakesLock
  <2>4. CASE StopReleases
    BY <2>4 DEF StopReleases
  <2>5. CASE AsyncCaptureToken \/ PowerBoundary
    BY <2>5 DEF AsyncCaptureToken, PowerBoundary
  <2> QED
    BY <2>1, <2>2, <2>3, <2>4, <2>5 DEF EntryQuiet
<1>5. SocketCount'
  <2>1. CASE UNCHANGED <<conn, sockets>>
    BY <1>2, <1>3, <2>1 DEF SocketCount
  <2>2. CASE conn' = FALSE /\ sockets' = IF conn THEN sockets - 1 ELSE sockets
    BY <1>2, <1>3, <2>2 DEF SocketCount
  <2> QED
    BY <1>4, <2>1, <2>2
<1>6. conn' => conn
  BY <1>4
<1>7. \A p \in Ops : at'[p] = "connecting" \/ Unpublished(p)' => ~conn'
  BY <1>1, <1>6 DEF SocketsCounted, Unpublished
<1> QED
  BY <1>5, <1>7 DEF SocketsCounted, SocketCount, HalfOpen

LEMMA SocketsDrain ==
  ASSUME TypeOK, OneWorks, SocketsCounted, DrainExpires
  PROVE  SocketsCounted'
<1>1. PICK o \in joins : Cancel(o)
  BY DEF DrainExpires
<1>2. o \in Ops
  BY DEF TypeOK
<1>3. \A p \in Ops : p # o => at'[p] = at[p]
  BY <1>1, <1>2, CancelMoves
<1>4. conn' = conn
  BY DEF DrainExpires, EntryStays
<1>5. sockets \in Int /\ at \in [Ops -> Places]
  BY DEF TypeOK
<1>6. CASE CancelDiscards(o)
  <2>1. at[o] = "handshaking" /\ at'[o] = "discarding" /\ sockets' = sockets
    BY <1>2, <1>5, <1>6 DEF CancelDiscards, Moves
  <2>2. at[o] \in Working /\ Unpublished(o) /\ Unpublished(o)' /\ ~conn'
    BY <1>2, <1>4, <2>1 DEF Working, Unpublished, SocketsCounted
  <2>3. /\ SocketCount
        /\ SocketCount' => SocketsCounted'
        /\ HalfOpen <=> Unpublished(o)
        /\ HalfOpen' <=> Unpublished(o)'
    BY <1>2, <1>3, <2>2, SocketsOfTheWorker
  <2> QED
    BY <1>4, <2>1, <2>2, <2>3 DEF SocketCount
<1>7. CASE CancelEnds(o)
  <2>1. /\ at[o] \in Working \ {"handshaking"} /\ at'[o] = "failed"
        /\ sockets' = IF at[o] = "discarding" THEN sockets - 1 ELSE sockets
    BY <1>2, <1>5, <1>7 DEF CancelEnds, Ends, Moves
  <2>2. /\ at[o] \in Working
        /\ Unpublished(o) <=> at[o] = "discarding"
        /\ ~Unpublished(o)'
    BY <2>1 DEF Unpublished
  <2>3. /\ SocketCount
        /\ SocketCount' => SocketsCounted'
        /\ HalfOpen <=> Unpublished(o)
        /\ HalfOpen' <=> Unpublished(o)'
    BY <1>2, <1>3, <2>1, <2>2, SocketsOfTheWorker
  <2>4. CASE Unpublished(o)
    BY <1>4, <1>5, <2>1, <2>2, <2>3, <2>4 DEF SocketCount
  <2>5. CASE ~Unpublished(o)
    BY <1>4, <1>5, <2>1, <2>2, <2>3, <2>5 DEF SocketCount
  <2> QED
    BY <2>4, <2>5
<1>8. CASE CancelSwallowed(o)
  BY <1>4, <1>8 DEF CancelSwallowed, SocketsCounted, Unpublished
<1> QED
  BY <1>1, <1>6, <1>7, <1>8 DEF Cancel

LEMMA SocketsStep == TypeOK /\ OneWorks /\ SocketsCounted /\ [Next]_vars => SocketsCounted'
<1> SUFFICES ASSUME TypeOK, OneWorks, SocketsCounted, [Next]_vars PROVE SocketsCounted'
  OBVIOUS
<1>1. CASE UNCHANGED vars
  BY <1>1 DEF SocketsCounted, Unpublished, vars, opVars, remoteVars
<1> QED
  BY <1>1, SocketsOps, SocketsQuiet, SocketsDrain, StepKinds

LEMMA SocketsImply == TypeOK /\ SocketsCounted /\ GateClosed => OneSocket /\ NoSocketOutlivesStop
<1> SUFFICES ASSUME TypeOK, SocketsCounted, GateClosed PROVE OneSocket /\ NoSocketOutlivesStop
  OBVIOUS
<1>1. SocketCount /\ (HalfOpen => ~conn)
  BY SocketsAre DEF SocketsCounted, HalfOpen
<1>2. HalfOpen <=> \E o \in Ops : at[o] \in {"handshaking", "discarding"}
  BY DEF HalfOpen, Unpublished
<1>3. OneSocket
  <2>1. sockets <= 1
    BY <1>1 DEF SocketCount
  <2> QED
    BY <1>1, <1>2, <2>1 DEF OneSocket, SocketCount
<1>4. NoSocketOutlivesStop
  <2> SUFFICES ASSUME entry = "stopped", Active = {} PROVE sockets = 0
    BY DEF NoSocketOutlivesStop
  <2>1. ~conn /\ ~HalfOpen
    BY <1>2 DEF GateClosed, Active, Working
  <2> QED
    BY <1>1, <2>1 DEF SocketCount
<1> QED
  BY <1>3, <1>4

-----------------------------------------------------------------------------
(* The token.                                                              *)

LEMMA TokenOps ==
  ASSUME TypeOK, OneWorks, GateClosed, TokenSaved, NEW o \in Ops, OpStep(o)
  PROVE  TokenSaved'
<1>1. \A p \in Ops : p # o => at'[p] = at[p]
  BY OpMoves
<1>2. at \in [Ops -> Places]
  BY DEF TypeOK
\* Only an open changes a token, and then nobody else sends.
<1>3. CASE OpenReuses(o) \/ HandshakeAccepts(o)
  <2>1. at[o] \in Working /\ at[o] # "sending"
    BY <1>3 DEF OpenReuses, HandshakeAccepts, Working
  <2>2. \A p \in Ops : p # o => at'[p] # "sending"
    BY <1>1, <2>1, OthersRest DEF Working
  <2>3. PICK token : remoteToken' = token /\ Opened(o, token)
    BY <1>3 DEF OpenReuses, HandshakeAccepts, remoteVars
  <2>4. at'[o] = "sending" => ~Unavailable /\ Persists(o, token)
    BY <1>2, <2>3 DEF Opened, Persists, PersistRaises, Moves, Ends
  <2>5. at'[o] = "sending" => stored' = token
    BY <2>4 DEF Persists, Unavailable, GateClosed
  <2> QED
    BY <2>2, <2>3, <2>5 DEF TokenSaved
<1>4. CASE ~OpenReuses(o) /\ ~HandshakeAccepts(o)
  <2>1. UNCHANGED <<stored, remoteToken>>
    <3>1. CASE Call(o) \/ Acquire(o) \/ OpenRefused(o) \/ ConnectFails(o) \/ SendFails(o)
      BY <3>1 DEF Call, Acquire, TakesLock, OpenRefused, ConnectFails, SendFails, remoteVars
    <3>2. CASE OpenStarts(o) \/ Connect(o) \/ HandshakeFails(o) \/ Discarded(o)
      BY <3>2 DEF OpenStarts, Connect, HandshakeFails, Discarded, remoteVars
    <3>3. CASE SendCommand(o) \/ SendCompletes(o) \/ CloseFails(o) \/ Reset(o) \/ Closed(o)
      BY <3>3 DEF SendCommand, SendCompletes, CloseFails, Reset, Closed, remoteVars
    <3> QED
      BY <1>4, <3>1, <3>2, <3>3 DEF OpStep, BoundedStep
  <2>2. at'[o] = "sending" => at[o] = "sending"
    <3>1. CASE Call(o) \/ Acquire(o) \/ OpenRefused(o) \/ ConnectFails(o) \/ SendFails(o)
      BY <1>2, <3>1 DEF Call, Acquire, TakesLock, OpenRefused, ConnectFails, SendFails, Retries,
         Reauthorizes, Moves, Ends
    <3>2. CASE OpenStarts(o) \/ Connect(o) \/ HandshakeFails(o)
      BY <1>2, <3>2 DEF OpenStarts, Connect, HandshakeFails, Moves
    <3>3. CASE Discarded(o)
      <4>1. why[o] \in {"pairing", "failure", "cancelled"}
        BY DEF TypeOK
      <4> QED
        BY <1>2, <3>3, <4>1 DEF Discarded, Retries, Reauthorizes, Moves, Ends
    <3>4. CASE SendCommand(o)
      BY <3>4 DEF SendCommand
    <3>5. CASE SendCompletes(o) \/ CloseFails(o) \/ Reset(o) \/ Closed(o)
      BY <1>2, <3>5 DEF SendCompletes, CloseFails, Reset, Closed, OpensAgain, Moves, Ends
    <3> QED
      BY <1>4, <3>1, <3>2, <3>3, <3>4, <3>5 DEF OpStep, BoundedStep
  <2>3. \A p \in Ops : at'[p] = "sending" => at[p] = "sending"
    BY <1>1, <2>2
  <2> QED
    BY <2>1, <2>3 DEF TokenSaved
<1> QED
  BY <1>3, <1>4

LEMMA TokenStep ==
  TypeOK /\ OneWorks /\ GateClosed /\ TokenSaved /\ [Next]_vars => TokenSaved'
<1> SUFFICES ASSUME TypeOK, OneWorks, GateClosed, TokenSaved, [Next]_vars PROVE TokenSaved'
  OBVIOUS
<1>1. CASE EntryQuiet
  <2>1. UNCHANGED <<at, remoteToken>> /\ (stored' = stored \/ stored' = remoteToken)
    <3>1. UNCHANGED <<at, remoteToken>>
      BY <1>1, EntryKeepsOperations
    <3> USE DEF OperationsStay, EntryStays
    <3>2. CASE SetupDone \/ SetupFails \/ AsyncUnloadEntry \/ PlatformsUnloaded
      BY <3>1, <3>2 DEF SetupDone, SetupFails, StopBegins, AsyncUnloadEntry, PlatformsUnloaded
    <3>3. CASE QuiesceJoined \/ QuiesceFails \/ PlatformsRefuse
      BY <3>1, <3>3 DEF QuiesceJoined, QuiesceFails, PlatformsRefuse, RestoreAndResume
    <3>4. CASE AsyncStopRemote \/ StopDrained \/ StopTakesLock \/ StopReleases
      BY <3>1, <3>4 DEF AsyncStopRemote, StopDrained, StopTakesLock, StopReleases
    <3>5. CASE AsyncCaptureToken \/ PowerBoundary
      BY <3>1, <3>5 DEF AsyncCaptureToken, PowerBoundary
    <3> QED
      BY <1>1, <3>2, <3>3, <3>4, <3>5 DEF EntryQuiet
  <2> QED
    BY <2>1 DEF TokenSaved
<1>2. CASE DrainExpires
  <2>1. PICK o \in joins : Cancel(o)
    BY <1>2 DEF DrainExpires
  <2>2. o \in Ops /\ at \in [Ops -> Places]
    BY DEF TypeOK
  <2>3. UNCHANGED <<stored, remoteToken>>
    BY <1>2 DEF DrainExpires, EntryStays
  <2>4. \A p \in Ops : at'[p] = "sending" => at[p] = "sending"
    BY <2>1, <2>2 DEF Cancel, CancelDiscards, CancelEnds, CancelSwallowed, Moves, Ends
  <2> QED
    BY <2>3, <2>4 DEF TokenSaved
<1>3. CASE UNCHANGED vars
  BY <1>3 DEF TokenSaved, vars, opVars, remoteVars
<1> QED
  BY <1>1, <1>2, <1>3, TokenOps, StepKinds

-----------------------------------------------------------------------------
(* The commands that were sent.                                            *)

Opening == {"opening", "connecting", "handshaking", "discarding"}

LEMMA OpCounts ==
  ASSUME TypeOK, NEW o \in Ops, OpStep(o)
  PROVE  \A p \in Ops : p # o => /\ attempt'[p] = attempt[p]
                                 /\ next'[p] = next[p]
                                 /\ delivered'[p] = delivered[p]
                                 /\ heard'[p] = heard[p]
<1>1. CASE Call(o) \/ Acquire(o) \/ OpenRefused(o) \/ ConnectFails(o) \/ SendFails(o)
  BY <1>1 DEF Call, Acquire, TakesLock, OpenRefused, ConnectFails, SendFails, TypeOK
<1>2. CASE OpenReuses(o) \/ HandshakeAccepts(o)
  <2>1. UNCHANGED <<attempt, delivered, heard>>
    BY <1>2 DEF OpenReuses, HandshakeAccepts
  <2>2. next' = [next EXCEPT ![o] = 0]
    BY <1>2 DEF OpenReuses, HandshakeAccepts, Opened
  <2> QED
    BY <2>1, <2>2 DEF TypeOK
<1>3. CASE OpenStarts(o) \/ Connect(o) \/ HandshakeFails(o) \/ Discarded(o)
  BY <1>3 DEF OpenStarts, Connect, HandshakeFails, Discarded
<1>4. CASE SendCommand(o) \/ SendCompletes(o) \/ CloseFails(o)
  BY <1>4 DEF SendCommand, SendCompletes, CloseFails, TypeOK
<1>5. CASE Reset(o) \/ Closed(o)
  BY <1>5 DEF Reset, Closed, OpensAgain, TypeOK
<1> QED
  BY <1>1, <1>2, <1>3, <1>4, <1>5 DEF OpStep, BoundedStep

\* The operation that steps.
LEMMA CountedSelf ==
  ASSUME TypeOK, NEW o \in Ops, SentSoFar(o), OpStep(o)
  PROVE  SentSoFar(o)'
<1>1. /\ Commands \in Nat /\ Commands > 0
      /\ \A c \in 1..Commands : delivered[o][c] \in Nat
      /\ next[o] \in 0..Commands /\ attempt[o] \in {1, 2}
      /\ why[o] \in {"pairing", "failure", "cancelled"}
  BY CommandsNat DEF TypeOK
<1>2. at \in [Ops -> Places] /\ attempt \in [Ops -> {1, 2}]
  BY DEF TypeOK
<1>3. CASE Call(o)
  <2>1. at[o] = "idle" /\ at'[o] \in {"failed", "queued"} /\ delivered'[o] = delivered[o]
    BY <1>2, <1>3 DEF Call, Moves, Ends
  <2> QED
    BY <1>1, <2>1 DEF SentSoFar
<1>4. CASE Acquire(o)
  <2>1. /\ at[o] = "queued" /\ delivered'[o] = delivered[o]
        /\ at'[o] = "failed" \/ (at'[o] = "opening" /\ attempt'[o] = 1)
    BY <1>2, <1>4 DEF Acquire, TakesLock, Moves, Ends
  <2> QED
    BY <1>1, <2>1 DEF SentSoFar
<1>5. CASE OpenRefused(o) \/ ConnectFails(o) \/ Discarded(o) \/ SendFails(o)
  <2>1. UNCHANGED <<attempt, next, delivered, heard>> /\ at[o] \in Opening \cup {"sending"}
    BY <1>5 DEF OpenRefused, ConnectFails, Discarded, SendFails, Opening
  <2>2. at'[o] = "failed" \/ (at'[o] = "resetting" /\ attempt[o] = 1)
    <3>1. CASE OpenRefused(o) \/ ConnectFails(o) \/ SendFails(o)
      BY <1>1, <1>2, <3>1 DEF OpenRefused, ConnectFails, SendFails, Retries, Reauthorizes, Moves, Ends
    <3>2. CASE Discarded(o)
      BY <1>1, <1>2, <3>2 DEF Discarded, Retries, Reauthorizes, Moves, Ends
    <3> QED
      BY <1>5, <3>1, <3>2
  <2> QED
    BY <1>1, <2>1, <2>2 DEF SentSoFar, Opening
<1>6. CASE OpenReuses(o) \/ HandshakeAccepts(o)
  <2>1. UNCHANGED <<attempt, delivered, heard>> /\ at[o] \in Opening
    BY <1>6 DEF OpenReuses, HandshakeAccepts, Opening
  <2>2. PICK token : Opened(o, token)
    BY <1>6 DEF OpenReuses, HandshakeAccepts
  <2>3. at'[o] \in {"failed", "sending"}
    BY <1>2, <2>2 DEF Opened, Persists, PersistRaises, Moves, Ends
  <2>4. next'[o] = 0
    BY <2>2 DEF Opened, TypeOK
  <2> QED
    BY <1>1, <2>1, <2>3, <2>4 DEF SentSoFar, Opening
<1>7. CASE OpenStarts(o) \/ Connect(o) \/ HandshakeFails(o)
  <2>1. UNCHANGED <<attempt, delivered, heard>> /\ at[o] \in Opening /\ at'[o] \in Opening
    BY <1>2, <1>7 DEF OpenStarts, Connect, HandshakeFails, Moves, Opening
  <2> QED
    BY <1>1, <2>1 DEF SentSoFar, Opening
<1>8. CASE SendCommand(o)
  <2>1. /\ at[o] = "sending" /\ at'[o] = at[o] /\ attempt' = attempt
        /\ next[o] < Commands
    BY <1>8 DEF SendCommand
  <2>2. next'[o] = next[o] + 1 /\ heard'[o] = next[o] + 1
    BY <1>8 DEF SendCommand, TypeOK
  <2>3. \A c \in 1..Commands :
          delivered'[o][c] = IF c = next[o] + 1 THEN delivered[o][c] + 1 ELSE delivered[o][c]
    BY <1>8, <2>2 DEF SendCommand, TypeOK
  <2> QED
    BY <1>1, <2>1, <2>2, <2>3 DEF SentSoFar
<1>9. CASE SendCompletes(o)
  <2>1. /\ at[o] = "sending" /\ next[o] = Commands /\ at'[o] \in {"ok", "failed"}
        /\ UNCHANGED <<delivered, heard>>
    BY <1>2, <1>9 DEF SendCompletes, Moves, Ends
  <2> QED
    BY <1>1, <2>1 DEF SentSoFar
<1>10. CASE Reset(o) \/ Closed(o) \/ CloseFails(o)
  <2>1. UNCHANGED <<delivered, heard>> /\ at[o] \in {"resetting", "closing"}
    BY <1>10 DEF Reset, Closed, CloseFails
  <2>2. at'[o] \in {"closing", "failed"} \/ (at'[o] = "opening" /\ attempt'[o] = 2)
    BY <1>2, <1>10 DEF Reset, Closed, CloseFails, OpensAgain, Moves, Ends
  <2> QED
    BY <1>1, <2>1, <2>2 DEF SentSoFar
<1> QED
  BY <1>3, <1>4, <1>5, <1>6, <1>7, <1>8, <1>9, <1>10 DEF OpStep, BoundedStep

LEMMA CountedStep == TypeOK /\ Counted /\ [Next]_vars => Counted'
<1> SUFFICES ASSUME TypeOK, Counted, [Next]_vars PROVE Counted'
  OBVIOUS
<1>1. CASE \E o \in Ops : OpStep(o)
  <2>1. PICK o \in Ops : OpStep(o)
    BY <1>1
  <2>2. \A p \in Ops : p # o => /\ at'[p] = at[p] /\ attempt'[p] = attempt[p]
                                /\ next'[p] = next[p] /\ delivered'[p] = delivered[p]
                                /\ heard'[p] = heard[p]
    BY <2>1, OpMoves, OpCounts
  <2>3. \A p \in Ops : p # o => SentSoFar(p)'
    BY <2>2 DEF Counted, SentSoFar
  <2>4. SentSoFar(o)'
    BY <2>1, CountedSelf DEF Counted
  <2> QED
    BY <2>3, <2>4 DEF Counted
<1>2. CASE DrainExpires
  <2>1. PICK o \in joins : Cancel(o)
    BY <1>2 DEF DrainExpires
  <2>2. o \in Ops /\ at \in [Ops -> Places]
    BY DEF TypeOK
  <2>3. UNCHANGED <<attempt, next, delivered, heard>>
    BY <1>2 DEF DrainExpires, EntryStays
  <2>4. \A p \in Ops : p # o => at'[p] = at[p]
    BY <2>1, <2>2, CancelMoves
  <2>5. \/ at'[o] = at[o] \/ at'[o] = "failed"
        \/ at[o] = "handshaking" /\ at'[o] = "discarding"
    BY <2>1, <2>2 DEF Cancel, CancelDiscards, CancelEnds, CancelSwallowed, Moves, Ends
  <2>6. \A p \in Ops : p # o => SentSoFar(p)'
    BY <2>3, <2>4 DEF Counted, SentSoFar
  <2>7. SentSoFar(o)'
    BY <2>2, <2>3, <2>5 DEF Counted, SentSoFar
  <2> QED
    BY <2>6, <2>7 DEF Counted
<1>3. CASE EntryQuiet \/ UNCHANGED vars
  <2>1. UNCHANGED <<at, attempt, next, delivered, heard>>
    BY <1>3, EntryKeepsOperations DEF vars, opVars
  <2> QED
    BY <2>1 DEF Counted, SentSoFar
<1> QED
  BY <1>1, <1>2, <1>3, StepKinds

-----------------------------------------------------------------------------
(* The theorems.                                                           *)

\* The inductive invariant.
RemoteInv == TypeOK /\ OneWorks /\ GateClosed /\ SocketsCounted /\ TokenSaved /\ Counted

LEMMA Invariant == Spec => []RemoteInv
<1>1. Init => RemoteInv
  BY TypeInit, InvInit DEF RemoteInv
<1>2. RemoteInv /\ [Next]_vars => RemoteInv'
  BY TypeStep, OneWorksStep, GateStep, SocketsStep, TokenStep, CountedStep DEF RemoteInv
<1> QED
  BY <1>1, <1>2, PTL DEF Spec

(* There is never a second socket to the remote channel.                   *)
THEOREM OneSocketOnly == Spec => []OneSocket
<1>1. RemoteInv => OneSocket
  BY SocketsImply DEF RemoteInv
<1> QED
  BY <1>1, Invariant, PTL

(* Once the device has stopped and its last operation has ended, no socket *)
(* is left open, whatever failed on the way.                               *)
THEOREM StopLeavesNoSocket == Spec => []NoSocketOutlivesStop
<1>1. RemoteInv => NoSocketOutlivesStop
  BY SocketsImply DEF RemoteInv
<1> QED
  BY <1>1, Invariant, PTL

(* Each command goes out at most twice; success means that the last round  *)
(* ended with the last command and that none was left out.                 *)
THEOREM AtMostTwice == Spec => []SentAtMostTwice
<1>1. RemoteInv => SentAtMostTwice
  BY DEF RemoteInv, Counted, SentSoFar, SentAtMostTwice
<1> QED
  BY <1>1, Invariant, PTL

\* Only the step that sends counts a command, and only a connect opens a socket.
LEMMA OnlySends ==
  ASSUME [Next]_vars, delivered' # delivered
  PROVE  \E o \in Ops : SendCommand(o)
<1>1. CASE \E o \in Ops : OpStep(o)
  <2>1. PICK o \in Ops : OpStep(o)
    BY <1>1
  <2>2. CASE Call(o) \/ Acquire(o) \/ OpenRefused(o) \/ ConnectFails(o) \/ SendFails(o)
    BY <2>2 DEF Call, Acquire, TakesLock, OpenRefused, ConnectFails, SendFails
  <2>3. CASE OpenReuses(o) \/ HandshakeAccepts(o) \/ OpenStarts(o) \/ Connect(o)
    BY <2>3 DEF OpenReuses, HandshakeAccepts, OpenStarts, Connect
  <2>4. CASE HandshakeFails(o) \/ Discarded(o) \/ SendCompletes(o)
    BY <2>4 DEF HandshakeFails, Discarded, SendCompletes
  <2>5. CASE CloseFails(o) \/ Reset(o) \/ Closed(o)
    BY <2>5 DEF CloseFails, Reset, Closed
  <2> QED
    BY <2>1, <2>2, <2>3, <2>4, <2>5 DEF OpStep, BoundedStep
<1>2. CASE EntryQuiet \/ DrainExpires \/ UNCHANGED vars
  BY <1>2, EntryKeepsOperations DEF DrainExpires, EntryStays, vars
<1> QED
  BY <1>1, <1>2, StepKinds

LEMMA OnlyConnects ==
  ASSUME TypeOK, [Next]_vars, sockets' > sockets
  PROVE  \E o \in Ops : Connect(o)
<1>1. sockets \in Int
  BY DEF TypeOK
<1>2. CASE \E o \in Ops : OpStep(o)
  <2>1. PICK o \in Ops : OpStep(o)
    BY <1>2
  <2>2. CASE Call(o) \/ Acquire(o) \/ OpenRefused(o) \/ ConnectFails(o) \/ SendFails(o)
    BY <1>1, <2>2 DEF Call, Acquire, TakesLock, OpenRefused, ConnectFails, SendFails, remoteVars
  <2>3. CASE OpenReuses(o) \/ HandshakeAccepts(o) \/ OpenStarts(o) \/ HandshakeFails(o)
    <3>1. sockets' = sockets
      BY <2>3 DEF OpenReuses, HandshakeAccepts, OpenStarts, HandshakeFails, remoteVars
    <3> QED
      BY <1>1, <3>1
  <2>4. CASE SendCommand(o) \/ SendCompletes(o) \/ CloseFails(o) \/ Reset(o)
    <3>1. sockets' = sockets
      BY <2>4 DEF SendCommand, SendCompletes, CloseFails, Reset, remoteVars
    <3> QED
      BY <1>1, <3>1
  <2>5. CASE Closed(o) \/ Discarded(o)
    <3>1. sockets' = sockets \/ sockets' = sockets - 1
      BY <2>5 DEF Closed, Discarded
    <3> QED
      BY <1>1, <3>1
  <2> QED
    BY <2>1, <2>2, <2>3, <2>4, <2>5 DEF OpStep, BoundedStep
<1>3. CASE EntryQuiet
  <2> USE DEF OperationsStay, EntryStays, remoteVars
  <2>1. CASE SetupDone \/ SetupFails \/ AsyncUnloadEntry \/ PlatformsUnloaded
    BY <1>1, <2>1 DEF SetupDone, SetupFails, StopBegins, AsyncUnloadEntry, PlatformsUnloaded
  <2>2. CASE QuiesceJoined \/ QuiesceFails \/ PlatformsRefuse
    BY <1>1, <2>2 DEF QuiesceJoined, QuiesceFails, PlatformsRefuse, RestoreAndResume
  <2>3. CASE AsyncStopRemote \/ StopDrained \/ StopTakesLock
    BY <1>1, <2>3 DEF AsyncStopRemote, StopDrained, StopTakesLock
  <2>4. CASE StopReleases
    BY <1>1, <2>4 DEF StopReleases
  <2>5. CASE AsyncCaptureToken \/ PowerBoundary
    BY <1>1, <2>5 DEF AsyncCaptureToken, PowerBoundary
  <2> QED
    BY <1>3, <2>1, <2>2, <2>3, <2>4, <2>5 DEF EntryQuiet
<1>4. CASE DrainExpires
  <2>1. PICK o \in joins : Cancel(o)
    BY <1>4 DEF DrainExpires
  <2> QED
    BY <1>1, <2>1 DEF Cancel, CancelDiscards, CancelEnds, CancelSwallowed
<1>5. CASE UNCHANGED vars
  BY <1>1, <1>5 DEF vars, remoteVars
<1> QED
  BY <1>2, <1>3, <1>4, <1>5, StepKinds

(* A command is only sent once the token of the connection is in the       *)
(* entry, whatever saves failed before.                                    *)
THEOREM TokenFirst == Spec => TokenSavedBeforeSend
<1>1. RemoteInv /\ [Next]_vars => [delivered' # delivered => stored = remoteToken]_vars
  <2> SUFFICES ASSUME RemoteInv, [Next]_vars, delivered' # delivered
               PROVE  stored = remoteToken
    OBVIOUS
  <2>1. PICK o \in Ops : SendCommand(o)
    BY OnlySends
  <2> QED
    BY <2>1 DEF SendCommand, RemoteInv, TokenSaved
<1> QED
  BY <1>1, Invariant, PTL DEF Spec, TokenSavedBeforeSend

(* While the platforms are being unloaded nothing is sent and no socket is *)
(* opened, and nothing is sent once the device has stopped.                *)
THEOREM UnloadingIsSilent == Spec => SilentWhileUnloading
<1> DEFINE Silent == /\ delivered' # delivered => entry \notin {"platforms", "stopped"}
                     /\ sockets' > sockets => entry # "platforms"
<1>1. RemoteInv /\ [Next]_vars => [Silent]_vars
  <2> SUFFICES ASSUME RemoteInv, [Next]_vars PROVE Silent
    OBVIOUS
  <2>1. ASSUME delivered' # delivered PROVE entry \notin {"platforms", "stopped"}
    <3>1. PICK o \in Ops : SendCommand(o)
      BY <2>1, OnlySends
    <3>2. o \in Active /\ conn
      BY <3>1 DEF SendCommand, Active, Working
    <3> QED
      BY <3>2 DEF RemoteInv, GateClosed
  <2>2. ASSUME sockets' > sockets PROVE entry # "platforms"
    <3>1. PICK o \in Ops : Connect(o)
      BY <2>2, OnlyConnects DEF RemoteInv
    <3>2. o \in Active
      BY <3>1 DEF Connect, Active, Working
    <3> QED
      BY <3>2 DEF RemoteInv, GateClosed
  <2> QED
    BY <2>1, <2>2
<1> QED
  BY <1>1, Invariant, PTL DEF Spec, SilentWhileUnloading

-----------------------------------------------------------------------------
(* The remote control implements RemoteService.                            *)

LEMMA GateIs ==
  /\ ~Unavailable => Gate = "open"
  /\ Unavailable /\ entry = "platforms" => Gate = "silent"
  /\ Unavailable /\ entry = "stopped" => Gate = "stopped"
  /\ Unavailable /\ entry \notin {"platforms", "stopped"} => Gate = "closing"
BY DEF Gate

LEMMA CallIs ==
  ASSUME NEW place \in Places
  PROVE  /\ place = "idle" => CallOf(place) = "none"
         /\ place = "queued" => CallOf(place) = "waiting"
         /\ place \in Working => CallOf(place) = "working"
         /\ place \in Ended => CallOf(place) = place
BY DEF CallOf, Places, Working, Ended

LEMMA NobodyWorks == ASSUME TypeOK PROVE Active = {} <=> Service!Nobody
<1>1. \A o \in Ops : Calls[o] = "working" <=> at[o] \in Working
  <2> SUFFICES ASSUME NEW o \in Ops PROVE Calls[o] = "working" <=> at[o] \in Working
    OBVIOUS
  <2>1. at[o] \in Places /\ Calls[o] = CallOf(at[o])
    BY DEF TypeOK, Calls
  <2>2. at[o] \in {"idle", "queued"} \/ at[o] \in Working \/ at[o] \in Ended
    BY <2>1 DEF Places
  <2> QED
    BY <2>1, <2>2, CallIs DEF Ended, Working
<1> QED
  BY <1>1 DEF Active, Service!Nobody

\* One operation moves: its call becomes that of its new place.
LEMMA OneCallMoves ==
  ASSUME TypeOK, TypeOK', NEW o \in Ops, \A p \in Ops : p # o => at'[p] = at[p],
         UNCHANGED <<sentVars, Gate>>
  PROVE  Service!Becomes(o, CallOf(at'[o]))
<1>1. Calls' = [Calls EXCEPT ![o] = CallOf(at'[o])]
  BY DEF Calls
<1> QED
  BY <1>1 DEF Service!Becomes

\* What an operation's step is to its caller and to the TV.
LEMMA OpServes ==
  ASSUME TypeOK, NEW o \in Ops, OpStep(o)
  PROVE  \/ at[o] = "idle" /\ at'[o] = "queued" /\ ~Unavailable /\ UNCHANGED sentVars
         \/ at[o] \in {"idle", "queued"} /\ at'[o] = "failed" /\ Unavailable
            /\ UNCHANGED sentVars
         \/ at[o] = "queued" /\ at'[o] = "opening" /\ Active = {} /\ ~Unavailable
            /\ UNCHANGED sentVars
         \/ at[o] \in Working /\ at'[o] \in Working \cup {"failed"} /\ UNCHANGED sentVars
         \/ SendCompletes(o) /\ at'[o] = "ok" /\ ~Unavailable /\ UNCHANGED sentVars
         \/ SendCommand(o)
<1> USE DEF TypeOK, Moves, Ends, Working
<1>1. CASE Call(o)
  BY <1>1 DEF Call
<1>2. CASE Acquire(o)
  BY <1>2 DEF Acquire, TakesLock
<1>3. CASE OpenRefused(o) \/ ConnectFails(o) \/ SendFails(o)
  BY <1>3 DEF OpenRefused, ConnectFails, SendFails, Retries, Reauthorizes
<1>4. CASE OpenReuses(o)
  BY <1>4 DEF OpenReuses, Opened, Persists, PersistRaises
<1>5. CASE HandshakeAccepts(o)
  BY <1>5 DEF HandshakeAccepts, Opened, Persists, PersistRaises
<1>6. CASE OpenStarts(o) \/ Connect(o) \/ HandshakeFails(o)
  BY <1>6 DEF OpenStarts, Connect, HandshakeFails
<1>7. CASE Discarded(o)
  BY <1>7 DEF Discarded, Retries, Reauthorizes
<1>8. CASE SendCommand(o)
  BY <1>8
<1>9. CASE SendCompletes(o) \/ CloseFails(o)
  BY <1>9 DEF SendCompletes, CloseFails
<1>10. CASE Reset(o) \/ Closed(o)
  BY <1>10 DEF Reset, Closed, OpensAgain
<1> QED
  BY <1>1, <1>2, <1>3, <1>4, <1>5, <1>6, <1>7, <1>8, <1>9, <1>10 DEF OpStep, BoundedStep

LEMMA OpKeepsService == ASSUME NEW o \in Ops, OpStep(o) PROVE UNCHANGED Gate
BY OpKeepsGate DEF Gate, Unavailable

\* A working operation goes on working or fails.
LEMMA WorkerServes ==
  ASSUME TypeOK, TypeOK', NEW o \in Ops, \A p \in Ops : p # o => at'[p] = at[p],
         at[o] \in Working, at'[o] \in Working \cup {"failed"}, UNCHANGED <<sentVars, Gate>>
  PROVE  [Service!Next]_(Service!serviceVars)
<1>1. at[o] \in Places /\ at'[o] \in Places /\ Calls[o] = CallOf(at[o])
  BY DEF TypeOK, Calls
<1>2. Calls[o] = "working"
  BY <1>1, CallIs
<1>3. CASE at'[o] \in Working
  <2>1. CallOf(at'[o]) = CallOf(at[o])
    BY <1>1, <1>3, CallIs
  <2>2. Calls' = Calls
    BY <2>1 DEF Calls
  <2> QED
    BY <2>2 DEF Service!serviceVars
<1>4. CASE at'[o] = "failed"
  <2>1. CallOf(at'[o]) = "failed"
    BY <1>1, <1>4, CallIs DEF Ended
  <2>2. Service!Fail(o)
    BY <1>2, <2>1, OneCallMoves DEF Service!Fail
  <2> QED
    BY <2>2 DEF Service!Next
<1> QED
  BY <1>3, <1>4

LEMMA OpImplements ==
  ASSUME RemoteInv, TypeOK', NEW o \in Ops, OpStep(o)
  PROVE  [Service!Next]_(Service!serviceVars)
<1> DEFINE Serves == [Service!Next]_(Service!serviceVars)
<1>1. TypeOK /\ UNCHANGED Gate /\ \A p \in Ops : p # o => at'[p] = at[p]
  BY OpMoves, OpKeepsService DEF RemoteInv
<1>2. at[o] \in Places /\ at'[o] \in Places /\ Calls[o] = CallOf(at[o])
  BY <1>1 DEF TypeOK, Calls
<1>3. CASE at[o] = "idle" /\ at'[o] = "queued" /\ ~Unavailable /\ UNCHANGED sentVars
  <2>1. Calls[o] = "none" /\ CallOf(at'[o]) = "waiting" /\ Gate = "open"
    BY <1>2, <1>3, CallIs, GateIs
  <2>2. Service!Admit(o)
    BY <1>1, <1>3, <2>1, OneCallMoves DEF Service!Admit
  <2> QED
    BY <2>2 DEF Service!Next
<1>4. CASE /\ at[o] \in {"idle", "queued"} /\ at'[o] = "failed" /\ Unavailable
           /\ UNCHANGED sentVars
  <2>1. Calls[o] \in {"none", "waiting"} /\ CallOf(at'[o]) = "failed"
    BY <1>2, <1>4, CallIs DEF Ended
  <2>2. Gate # "open"
    BY <1>4 DEF Gate
  <2>3. Service!Refuse(o)
    BY <1>1, <1>4, <2>1, <2>2, OneCallMoves DEF Service!Refuse
  <2> QED
    BY <2>3 DEF Service!Next
<1>5. CASE /\ at[o] = "queued" /\ at'[o] = "opening" /\ Active = {} /\ ~Unavailable
           /\ UNCHANGED sentVars
  <2>1. Calls[o] = "waiting" /\ CallOf(at'[o]) = "working" /\ Gate = "open"
    BY <1>2, <1>5, CallIs, GateIs DEF Working
  <2>2. Service!Begin(o)
    BY <1>1, <1>5, <2>1, OneCallMoves, NobodyWorks DEF Service!Begin
  <2> QED
    BY <2>2 DEF Service!Next
<1>6. CASE at[o] \in Working /\ at'[o] \in Working \cup {"failed"} /\ UNCHANGED sentVars
  BY <1>1, <1>6, WorkerServes
<1>7. CASE SendCompletes(o) /\ at'[o] = "ok" /\ ~Unavailable /\ UNCHANGED sentVars
  <2>1. at[o] = "sending" /\ next[o] = Commands /\ SentSoFar(o)
    BY <1>7 DEF SendCompletes, RemoteInv, Counted
  <2>2. Calls[o] = "working" /\ CallOf(at'[o]) = "ok" /\ Gate = "open"
    BY <1>2, <1>7, <2>1, CallIs, GateIs DEF Working, Ended
  <2>3. heard[o] = Commands
    BY <2>1, CommandsNat DEF SentSoFar
  <2>4. Service!Succeed(o)
    BY <1>1, <1>7, <2>2, <2>3, OneCallMoves DEF Service!Succeed
  <2> QED
    BY <2>4 DEF Service!Next
<1>8. CASE SendCommand(o)
  <2> DEFINE c == next[o] + 1
  <2>1. /\ at[o] = "sending" /\ next[o] < Commands /\ conn /\ SentSoFar(o)
        /\ next[o] \in 0..Commands /\ next'[o] = c /\ at' = at
    BY <1>1, <1>8 DEF SendCommand, RemoteInv, Counted, TypeOK
  <2>2. /\ delivered' = [delivered EXCEPT ![o][c] = @ + 1]
        /\ heard' = [heard EXCEPT ![o] = c]
    BY <1>8, <2>1 DEF SendCommand
  <2>3. Calls[o] = "working" /\ Calls' = Calls
    BY <1>2, <2>1, CallIs DEF Working, Calls
  <2>4. c \in 1..Commands /\ c \in {1, heard[o] + 1}
    BY <2>1, CommandsNat DEF SentSoFar
  <2>5. delivered[o][c] < 2
    <3>1. delivered[o][c] \in Nat /\ attempt[o] \in {1, 2}
      BY <1>1, <2>4 DEF TypeOK
    <3>2. delivered[o][c] <= IF attempt[o] = 1 THEN 0 ELSE 1
      BY <2>1, <2>4 DEF SentSoFar
    <3> QED
      BY <3>1, <3>2
  <2>6. o \in Active /\ entry \notin {"platforms", "stopped"}
    BY <2>1 DEF Active, Working, RemoteInv, GateClosed
  <2>7. Gate \in {"open", "closing"}
    BY <2>6, GateIs
  <2>8. Service!Deliver(o, c)
    BY <1>1, <2>2, <2>3, <2>4, <2>5, <2>7 DEF Service!Deliver
  <2> HIDE DEF c
  <2> QED
    BY <2>4, <2>8 DEF Service!Next
<1> QED
  BY <1>1, <1>3, <1>4, <1>5, <1>6, <1>7, <1>8, OpServes

\* Admission is closed in every phase but the first two.
LEMMA ClosedGate ==
  ASSUME RemoteInv, entry \notin {"setup", "loaded"}
  PROVE  /\ Unavailable
         /\ entry \notin {"platforms", "stopped"} => Gate = "closing"
<1>1. Unavailable
  BY DEF RemoteInv, GateClosed, Unavailable
<1> QED
  BY <1>1, GateIs

\* What the entry's own steps are to the gate.
LEMMA EntryGate ==
  ASSUME RemoteInv, RemoteInv', EntryQuiet
  PROVE  \/ Gate' = Gate
         \/ Gate \in {"open", "silent"} /\ Gate' = "closing"
         \/ Gate \in {"open", "closing"} /\ Active = {} /\ Gate' = "silent"
         \/ Gate \in {"closing", "silent"} /\ Gate' = "open"
         \/ Gate = "closing" /\ Gate' = "stopped"
<1>1. CASE SetupDone
  <2>1. entry = "setup" /\ entry' = "loaded" /\ UNCHANGED Unavailable
    BY <1>1 DEF SetupDone, gateVars, Unavailable
  <2> QED
    BY <2>1 DEF Gate
<1>2. CASE SetupFails \/ PlatformsUnloaded
  <2>1. entry \in {"setup", "platforms"} /\ entry' = "stopping" /\ Unavailable'
    BY <1>2 DEF SetupFails, PlatformsUnloaded, StopBegins, Unavailable
  <2> QED
    BY <2>1 DEF Gate
<1>3. CASE AsyncUnloadEntry
  <2>1. /\ entry = "loaded" /\ Unavailable'
        /\ (entry' = "platforms" /\ Active = {}) \/ entry' = "quiescing"
    BY <1>3 DEF AsyncUnloadEntry, QuiesceAndJoin, Unavailable
  <2> QED
    BY <2>1 DEF Gate
<1>4. CASE QuiesceJoined
  <2>1. Gate = "closing" /\ entry' = "platforms" /\ UNCHANGED at
    BY <1>4, ClosedGate DEF QuiesceJoined, OperationsStay
  <2>2. Gate' = "silent"
    <3>1. Unavailable'
      BY <2>1 DEF RemoteInv, GateClosed, Unavailable
    <3> QED
      BY <2>1, <3>1 DEF Gate
  <2>3. Active = {}
    <3>1. Active' = {}
      BY <2>1 DEF RemoteInv, GateClosed
    <3> QED
      BY <2>1, <3>1 DEF Active
  <2> QED
    BY <2>1, <2>2, <2>3
<1>5. CASE QuiesceFails \/ PlatformsRefuse
  <2>1. entry \in {"quiescing", "cancelling", "platforms"} /\ entry' = "loaded"
    BY <1>5 DEF QuiesceFails, PlatformsRefuse, RestoreAndResume
  <2>2. Gate \in {"closing", "silent"}
    BY <2>1, ClosedGate, GateIs
  <2> QED
    BY <2>1, <2>2 DEF Gate
<1>6. CASE AsyncStopRemote \/ StopDrained \/ StopTakesLock \/ StopReleases
  <2>1. /\ entry \in {"stopping", "stopDraining", "stopCancelling", "stopLock", "stopClosing"}
        /\ entry' \in {"stopDraining", "stopLock", "stopClosing", "stopped"}
        /\ UNCHANGED Unavailable
    BY <1>6 DEF AsyncStopRemote, StopDrained, StopTakesLock, StopReleases, gateVars, Unavailable
  <2>2. Gate = "closing" /\ Unavailable'
    BY <2>1, ClosedGate
  <2> QED
    BY <2>1, <2>2 DEF Gate
<1>7. CASE AsyncCaptureToken \/ PowerBoundary
  <2>1. UNCHANGED <<entry, Unavailable>>
    BY <1>7 DEF AsyncCaptureToken, PowerBoundary, entryVars, gateVars, Unavailable
  <2> QED
    BY <2>1 DEF Gate
<1> QED
  BY <1>1, <1>2, <1>3, <1>4, <1>5, <1>6, <1>7 DEF EntryQuiet

LEMMA EntryImplements ==
  ASSUME RemoteInv, RemoteInv', EntryQuiet
  PROVE  [Service!Next]_(Service!serviceVars)
<1>1. UNCHANGED <<Calls, sentVars>>
  BY EntryKeepsOperations DEF Calls
<1>2. Active = {} <=> Service!Nobody
  BY NobodyWorks DEF RemoteInv
<1> QED
  BY <1>1, <1>2, EntryGate
     DEF Service!Next, Service!Close, Service!Silence, Service!Reopen, Service!Stop,
         Service!serviceVars

LEMMA DrainImplements ==
  ASSUME RemoteInv, TypeOK', DrainExpires
  PROVE  [Service!Next]_(Service!serviceVars)
<1>1. /\ entry \in {"quiescing", "stopDraining"} /\ entry' \in {"cancelling", "stopCancelling"}
      /\ UNCHANGED <<Unavailable, sentVars>>
  BY DEF DrainExpires, EntryStays, gateVars, Unavailable
<1>2. Gate = "closing" /\ UNCHANGED Gate
  <2>1. Gate = "closing" /\ Unavailable
    BY <1>1, ClosedGate
  <2> QED
    BY <1>1, <2>1 DEF Gate
<1>3. PICK o \in joins : Cancel(o)
  BY DEF DrainExpires
<1>4. TypeOK /\ o \in Ops
  BY <1>3 DEF RemoteInv, TypeOK
<1>5. \A p \in Ops : p # o => at'[p] = at[p]
  BY <1>3, <1>4, CancelMoves
<1>6. at[o] \in Working /\ at'[o] \in Working \cup {"failed"}
  BY <1>3, <1>4 DEF Cancel, CancelDiscards, CancelEnds, CancelSwallowed, Moves, Ends,
                    Working, TypeOK
<1> QED
  BY <1>1, <1>2, <1>4, <1>5, <1>6, WorkerServes

(* The locks, the retries, the deadlines and the cancellations implement   *)
(* RemoteService: one operation at a time, its commands in their order and *)
(* each of them at most twice, success only when the last round went out   *)
(* whole, and silence when it is promised.                                 *)
THEOREM ImplementsRemoteService == Spec => ImplementsService
<1>1. Init => Service!Init
  <2> SUFFICES ASSUME Init PROVE Service!Init
    OBVIOUS
  <2>1. \A o \in Ops : CallOf(at[o]) = "none"
    BY CallIs DEF Init, Places
  <2>2. Gate = "open"
    BY GateIs DEF Init, Unavailable
  <2> QED
    BY <2>1, <2>2 DEF Init, Service!Init, Calls
<1>2. RemoteInv /\ RemoteInv' /\ [Next]_vars => [Service!Next]_(Service!serviceVars)
  <2> SUFFICES ASSUME RemoteInv, RemoteInv', [Next]_vars
               PROVE  [Service!Next]_(Service!serviceVars)
    OBVIOUS
  <2>1. TypeOK'
    BY DEF RemoteInv
  <2>2. CASE UNCHANGED vars
    BY <2>2 DEF vars, opVars, entryVars, gateVars, Service!serviceVars, Calls, Gate, Unavailable
  <2> QED
    BY <2>1, <2>2, StepKinds, OpImplements, EntryImplements, DrainImplements
<1> QED
  BY <1>1, <1>2, Invariant, PTL DEF Spec, ImplementsService, Service!Spec
=============================================================================
