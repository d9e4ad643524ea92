------------------------- MODULE ArtRequestsProofs --------------------------
(***************************************************************************)
(* Theorems about ArtRequests, for any set of operations of any kinds and  *)
(* any number of connections: whose answer ends whom, who serves those     *)
(* that wait, and what a close leaves.                                     *)
(***************************************************************************)
EXTENDS ArtRequests, TLAPS

Ats == {"idle", "queued", "waiting", "streaming", "closing", "ended"}
Legs == {"request", "version", "ready", "added"}
Waits == {"none", "pending", "value", "error", "lost"}

-----------------------------------------------------------------------------
(* The shapes of an operation's step: what the invariants tell apart.      *)

\* It ends, and with it its claim to an answer that may still come.
Leaves(o) ==
  /\ Ends(o) /\ UNCHANGED <<linkVars, session>>
  /\ abandoned' \in {abandoned, abandoned \cup {o}}
  /\ \/ closer' = closer /\ (at[o] \in {"queued", "waiting", "streaming"} \/ closer.by # o)
     \/ closer.by = o /\ closer.phase = "socket" /\ closer' = NoCloser
  /\ \/ at[o] = "queued"
     \/ at[o] = "waiting" /\ waiter[o] # "pending"
     \/ at[o] = "streaming" /\ kind[o] # "upload"
     \/ conn = 0 \/ cancelled[o] \/ o \in GivenUp'
     \/ closer.phase = "socket"

\* It sends a request, its first or the next of an upload.
Asking(o) ==
  \E l \in Legs :
    /\ Asks(o, l) /\ conn # 0 /\ Unlinked
    /\ \/ /\ at[o] = "queued" /\ lock = "none" /\ lock' = o /\ l = First(o)
          /\ on' = [on EXCEPT ![o] = IF o \in Transfers THEN @ ELSE opened]
       \/ /\ at[o] = "waiting" /\ waiter[o] \in {"value", "error"}
          /\ leg[o] = "version" /\ UNCHANGED <<lock, on>>

\* It opens its stream, to the TV or from it.
Streaming(o) ==
  /\ at[o] = "waiting" /\ waiter[o] = "value" /\ Unlinked
  /\ \/ leg[o] = "ready" /\ StreamsUp(o)
     \/ kind[o] = "thumbnail" /\ StreamsDown(o)

\* The stream of an upload is through.
Streamed(o) ==
  /\ at[o] = "streaming" /\ kind[o] = "upload"
  /\ Goes(o, "waiting")
  /\ UNCHANGED <<leg, waiter, heard, closes, cancelled, tableVars, on, asked>>
  /\ Unlinked

\* It is out of time and closes the socket.
Closes(o) ==
  /\ at[o] \in {"waiting", "streaming"}
  /\ ~(at[o] = "streaming" /\ kind[o] = "thumbnail")
  /\ \E n \in {1, 2} : ClosesIn(o, n)
  /\ Forgets(o) \/ UNCHANGED <<pending, uuidless>>
  /\ asked' = asked /\ Unlinked

\* An upload has closed once, and will close again.
ClosesAgain(o) ==
  /\ closer.phase = "socket" /\ closer.by = o /\ WakeUpsServed
  /\ FailPending
  /\ closes' = [closes EXCEPT ![o] = 1]
  /\ closer' = NoCloser
  /\ UNCHANGED <<at, leg, heard, on, cancelled, lock, linkVars, session, abandoned>>

Shape(o) ==
  \/ Leaves(o) \/ Asking(o) \/ Streaming(o) \/ Streamed(o) \/ Closes(o)
  \/ ClosesAgain(o)

LEMMA OpShapes ==
  ASSUME NEW o \in Ops, OpStep(o), kind' = kind
  PROVE  Shape(o)
<1> USE DEF Shape, Unlinked, linkVars, closeVars
<1>1. CASE Acquire(o)
  <2>1. CASE IsAlive
    <3>1. First(o) \in Legs /\ conn # 0
      BY <2>1 DEF First, Legs, IsAlive
    <3>2. /\ Asks(o, First(o)) /\ lock' = o /\ Unlinked
          /\ at[o] = "queued" /\ lock = "none"
          /\ on' = [on EXCEPT ![o] = IF o \in Transfers THEN @ ELSE opened]
      BY <1>1, <2>1 DEF Acquire
    <3>3. Asking(o)
      BY <3>1, <3>2 DEF Asking
    <3> QED
      BY <3>3
  <2>2. CASE ~IsAlive
    <3>1. Ends(o) /\ asked' = asked /\ Unlinked /\ at[o] = "queued"
      BY <1>1, <2>2 DEF Acquire
    <3>2. Leaves(o)
      BY <3>1 DEF Leaves
    <3> QED
      BY <3>2
  <2> QED
    BY <2>1, <2>2
<1>2. CASE Woken(o)
  <2>1. at[o] = "waiting" /\ Unlinked /\ waiter[o] \in {"value", "error", "lost"}
    BY <1>2 DEF Woken
  <2>2. CASE Ends(o) /\ asked' = asked
    <3>1. Leaves(o)
      BY <2>1, <2>2 DEF Leaves
    <3> QED
      BY <3>1
  <2>3. CASE waiter[o] # "lost" /\ leg[o] = "version"
    <3>1. PICK l \in Legs : AsksNext(o, l)
      BY <1>2, <2>3 DEF Woken, Legs
    <3>2. CASE conn = 0
      BY <2>2, <3>1, <3>2 DEF AsksNext
    <3>3. CASE conn # 0
      <4>1. Asks(o, l) /\ UNCHANGED <<lock, on>>
        BY <3>1, <3>3 DEF AsksNext
      <4> QED
        BY <2>1, <2>3, <3>3, <4>1 DEF Asking
    <3> QED
      BY <3>2, <3>3
  <2>4. CASE leg[o] = "ready" /\ waiter[o] = "value"
    <3>1. StreamsUp(o)
      BY <1>2, <2>4 DEF Woken
    <3> QED
      BY <2>1, <2>4, <3>1 DEF Streaming
  <2>5. CASE leg[o] \notin {"version", "ready"} /\ kind[o] = "thumbnail" /\ waiter[o] = "value"
    <3>1. StreamsDown(o)
      BY <1>2, <2>5 DEF Woken
    <3> QED
      BY <2>1, <2>5, <3>1 DEF Streaming
  <2>6. \/ Ends(o) /\ asked' = asked
        \/ waiter[o] # "lost" /\ leg[o] = "version"
        \/ leg[o] = "ready" /\ waiter[o] = "value"
        \/ leg[o] \notin {"version", "ready"} /\ kind[o] = "thumbnail" /\ waiter[o] = "value"
    BY <1>2 DEF Woken
  <2> QED
    BY <2>2, <2>3, <2>4, <2>5, <2>6
<1>3. CASE StreamEnds(o)
  <2>1. CASE kind[o] = "upload"
    <3>1. Streamed(o)
      BY <1>3, <2>1 DEF StreamEnds, Streamed
    <3> QED
      BY <3>1
  <2>2. CASE kind[o] # "upload"
    <3>1. Leaves(o)
      BY <1>3, <2>2 DEF StreamEnds, Leaves
    <3> QED
      BY <3>1
  <2> QED
    BY <2>1, <2>2
<1>4. CASE StreamFails(o)
  BY <1>4 DEF StreamFails, Leaves, GivenUp
<1>5. CASE Deadline(o)
  <2>1. at[o] \in {"waiting", "streaming"} /\ asked' = asked /\ Unlinked
    BY <1>5 DEF Deadline
  <2>2. CASE kind[o] = "probe" \/ (at[o] = "streaming" /\ kind[o] = "thumbnail")
    <3>1. Ends(o)
      BY <1>5, <2>2 DEF Deadline
    <3>2. kind[o] = "probe" => o \in GivenUp'
      BY DEF GivenUp
    <3>3. Leaves(o)
      BY <2>1, <2>2, <3>1, <3>2 DEF Leaves
    <3> QED
      BY <3>3
  <2>3. CASE ~(kind[o] = "probe" \/ (at[o] = "streaming" /\ kind[o] = "thumbnail"))
    <3>1. \/ ClosesIn(o, 1) /\ (Forgets(o) \/ UNCHANGED <<pending, uuidless>>)
          \/ ClosesIn(o, 2) /\ UNCHANGED <<pending, uuidless>>
      BY <1>5, <2>3 DEF Deadline
    <3>2. Closes(o)
      BY <2>1, <2>3, <3>1 DEF Closes
    <3> QED
      BY <3>2
  <2> QED
    BY <2>2, <2>3
<1>6. CASE SendFails(o)
  BY <1>6 DEF SendFails, Leaves
<1>7. CASE TakesCancellation(o)
  BY <1>7 DEF TakesCancellation, Leaves
<1>8. CASE OpClosed(o)
  <2>1. closer.phase = "socket" /\ closer.by = o /\ WakeUpsServed /\ closer' = NoCloser
        /\ UNCHANGED <<linkVars, session, abandoned>>
    BY <1>8 DEF OpClosed
  <2>2. CASE Ends(o)
    <3>1. Leaves(o)
      BY <2>1, <2>2 DEF Leaves
    <3> QED
      BY <3>1
  <2>3. CASE ~Ends(o)
    <3>1. ClosesAgain(o)
      BY <1>8, <2>1, <2>3 DEF OpClosed, ClosesAgain
    <3> QED
      BY <3>1
  <2> QED
    BY <2>2, <2>3
<1> QED
  BY <1>1, <1>2, <1>3, <1>4, <1>5, <1>6, <1>7, <1>8 DEF OpStep

-----------------------------------------------------------------------------
(* Types.                                                                  *)

OpType ==
  /\ at \in [Ops -> Ats] /\ leg \in [Ops -> Legs] /\ waiter \in [Ops -> Waits]
  /\ heard \in [Ops -> SUBSET Ops]
  /\ closes \in [Ops -> 0 .. 2]
  /\ cancelled \in [Ops -> BOOLEAN]
TableType ==
  /\ pending \subseteq Entries /\ uuidless \in Entries \cup {None}
  /\ lock \in {"none"} \cup {o \in Ops : at[o] \in {"waiting", "streaming", "closing"}}
LinkType ==
  /\ on \in [Ops -> 0 .. MaxConnections]
  /\ opened \in 0 .. MaxConnections /\ conn \in {0, opened}
  /\ asked \subseteq Entries
  /\ receiver \in {"none", "running", "cancelled", "finishing"} /\ binary \in BOOLEAN
Closers == [by : Ops \cup {"session", "none"}, phase : Phases, alive : BOOLEAN]
CloseType ==
  /\ closer \in Closers
  /\ session \in {"idle", "closing"} /\ abandoned \subseteq Ops

LEMMA TypeParts ==
  ASSUME kind' \in Works, OpType', TableType', LinkType', CloseType' PROVE TypeOK'
BY DEF TypeOK, OpType, TableType, LinkType, CloseType, Closers, Ats, Legs, Waits

LEMMA NoCloserType == NoCloser \in Closers
BY DEF NoCloser, Closers, Phases

LEMMA FreeTable == ASSUME TypeOK PROVE None \notin Entries
BY OpsAssumption DEF Entries, None

LEMMA EndsType ==
  ASSUME TypeOK, NEW o \in Ops, Ends(o)
  PROVE  OpType' /\ TableType' /\ on' = on
<1> USE DEF Ends, Goes
<1>1. OpType' /\ on' = on
  BY DEF TypeOK, OpType, Ats, Legs, Waits
<1>2. pending' \subseteq Entries /\ uuidless' \in Entries \cup {None}
  BY DEF TypeOK, Forgets
<1>3. lock' \in {"none"} \cup {p \in Ops : at'[p] \in {"waiting", "streaming", "closing"}}
  BY DEF TypeOK, Unlocks
<1> QED
  BY <1>1, <1>2, <1>3 DEF TableType

LEMMA RegistersType ==
  ASSUME TypeOK, NEW o \in Ops, NEW l \in Legs, NEW byEvent \in BOOLEAN, Registers(o, l, byEvent)
  PROVE  /\ leg' \in [Ops -> Legs] /\ waiter' \in [Ops -> Waits]
         /\ pending' \subseteq Entries /\ uuidless' \in Entries \cup {None}
         /\ <<o, l>> \in Entries
<1>1. <<o, l>> \in Entries
  BY DEF Entries, Legs
<1>2. leg' \in [Ops -> Legs] /\ waiter' \in [Ops -> Waits]
  BY DEF Registers, TypeOK, Legs, Waits
<1>3. pending' \subseteq Entries /\ uuidless' \in Entries \cup {None}
  BY <1>1 DEF Registers, TypeOK
<1> QED
  BY <1>1, <1>2, <1>3

LEMMA ShapeType ==
  ASSUME TypeOK, NEW o \in Ops, Shape(o), kind' = kind
  PROVE  TypeOK'
<1>1. CASE Leaves(o)
  <2>1. OpType' /\ TableType' /\ on' = on
    BY <1>1, EndsType DEF Leaves
  <2>2. LinkType'
    BY <1>1, <2>1 DEF Leaves, linkVars, TypeOK, LinkType
  <2>3. closer' \in Closers
    <3>1. closer' = closer \/ closer' = NoCloser
      BY <1>1 DEF Leaves
    <3>2. closer \in Closers
      BY DEF TypeOK, Closers
    <3> QED
      BY <3>1, <3>2, NoCloserType
  <2>4. CloseType'
    BY <1>1, <2>3 DEF Leaves, TypeOK, CloseType
  <2> QED
    BY <2>1, <2>2, <2>4, TypeParts DEF TypeOK
<1>2. CASE Asking(o)
  <2>1. PICK l \in Legs :
          /\ Asks(o, l) /\ Unlinked
          /\ \/ /\ at[o] = "queued" /\ lock = "none" /\ lock' = o
                /\ on' = [on EXCEPT ![o] = IF o \in Transfers THEN @ ELSE opened]
             \/ at[o] = "waiting" /\ UNCHANGED <<lock, on>>
    BY <1>2 DEF Asking
  <2>2. /\ leg' \in [Ops -> Legs] /\ waiter' \in [Ops -> Waits]
        /\ pending' \subseteq Entries /\ uuidless' \in Entries \cup {None}
        /\ <<o, l>> \in Entries
    BY <2>1, RegistersType DEF Asks
  <2>3. OpType'
    BY <2>1, <2>2 DEF Asks, Goes, TypeOK, OpType, Ats, Waits, Legs
  <2>4. TableType'
    BY <2>1, <2>2 DEF Asks, Goes, TypeOK, TableType
  <2>5. LinkType'
    BY <2>1, <2>2 DEF Asks, Unlinked, TypeOK, LinkType
  <2>6. CloseType'
    BY <2>1 DEF Unlinked, closeVars, TypeOK, CloseType, Closers
  <2> QED
    BY <2>3, <2>4, <2>5, <2>6, TypeParts DEF TypeOK
<1>3. CASE Streaming(o)
  <2>1. LinkType' /\ OpType' /\ TableType'
    <3>1. CASE StreamsUp(o)
      <4>1. /\ leg' \in [Ops -> Legs] /\ waiter' \in [Ops -> Waits]
            /\ pending' \subseteq Entries /\ uuidless' \in Entries \cup {None}
            /\ <<o, "added">> \in Entries
        BY <3>1, RegistersType DEF StreamsUp, Legs
      <4>2. OpType'
        BY <3>1, <4>1 DEF StreamsUp, Streams, Goes, TypeOK, OpType, Ats, Waits, Legs
      <4>3. TableType'
        BY <3>1, <4>1 DEF StreamsUp, Streams, Goes, TypeOK, TableType
      <4>4. LinkType'
        BY <1>3, <3>1, <4>1 DEF Streaming, StreamsUp, Streams, Unlinked, TypeOK, LinkType
      <4> QED
        BY <4>2, <4>3, <4>4
    <3>2. CASE StreamsDown(o)
      <4>1. OpType'
        BY <3>2 DEF StreamsDown, Streams, Goes, TypeOK, OpType, Ats, Waits, Legs
      <4>2. TableType'
        BY <3>2 DEF StreamsDown, Streams, Goes, Forgets, Unlocks, TypeOK, TableType
      <4>3. LinkType'
        BY <1>3, <3>2 DEF Streaming, StreamsDown, Streams, Unlinked, TypeOK, LinkType
      <4> QED
        BY <4>1, <4>2, <4>3
    <3> QED
      BY <1>3, <3>1, <3>2 DEF Streaming
  <2>2. CloseType'
    BY <1>3 DEF Streaming, Unlinked, closeVars, TypeOK, CloseType, Closers
  <2> QED
    BY <2>1, <2>2, TypeParts DEF TypeOK
<1>4. CASE Streamed(o)
  <2>1. OpType'
    BY <1>4 DEF Streamed, Goes, TypeOK, OpType, Ats, Waits, Legs
  <2>2. TableType'
    BY <1>4 DEF Streamed, Goes, tableVars, TypeOK, TableType
  <2>3. LinkType' /\ CloseType'
    BY <1>4 DEF Streamed, Unlinked, closeVars, TypeOK, LinkType, CloseType, Closers
  <2> QED
    BY <2>1, <2>2, <2>3, TypeParts DEF TypeOK
<1>5. CASE Closes(o)
  <2>1. PICK n \in {1, 2} : ClosesIn(o, n)
    BY <1>5 DEF Closes
  <2>2. OpType' /\ on' = on
    BY <2>1 DEF ClosesIn, Goes, TypeOK, OpType, Ats, Waits, Legs
  <2>3. TableType'
    BY <1>5, <2>1 DEF Closes, ClosesIn, Goes, Forgets, TypeOK, TableType
  <2>4. LinkType' /\ CloseType'
    BY <1>5, <2>2 DEF Closes, Unlinked, closeVars, TypeOK, LinkType, CloseType, Closers
  <2> QED
    BY <2>2, <2>3, <2>4, TypeParts DEF TypeOK
<1>6. CASE ClosesAgain(o)
  <2>1. OpType'
    BY <1>6 DEF ClosesAgain, FailPending, TypeOK, OpType, Ats, Waits, Legs
  <2>2. TableType'
    BY <1>6 DEF ClosesAgain, FailPending, TypeOK, TableType
  <2>3. LinkType' /\ CloseType'
    BY <1>6, NoCloserType DEF ClosesAgain, linkVars, TypeOK, LinkType, CloseType
  <2> QED
    BY <2>1, <2>2, <2>3, TypeParts DEF TypeOK
<1> QED
  BY <1>1, <1>2, <1>3, <1>4, <1>5, <1>6 DEF Shape

LEMMA CallType ==
  ASSUME TypeOK, NEW o \in Ops, Start(o) \/ CancelledByCaller(o), kind' = kind
  PROVE  TypeOK'
<1>1. OpType'
  BY DEF Start, CancelledByCaller, Goes, opVars, TypeOK, OpType, Ats, Legs, Waits
<1>2. TableType'
  <2>1. CASE Start(o)
    BY <2>1 DEF Start, Goes, tableVars, TypeOK, TableType
  <2>2. CASE CancelledByCaller(o)
    BY <2>2 DEF CancelledByCaller, opVars, tableVars, TypeOK, TableType
  <2> QED
    BY <2>1, <2>2
<1>3. LinkType'
  <2>1. CASE Start(o)
    BY <2>1 DEF Start, Unlinked, TypeOK, LinkType
  <2>2. CASE CancelledByCaller(o)
    BY <2>2 DEF CancelledByCaller, opVars, linkVars, TypeOK, LinkType
  <2> QED
    BY <2>1, <2>2
<1>4. CloseType'
  BY DEF Start, CancelledByCaller, Unlinked, closeVars, TypeOK, CloseType, Closers
<1> QED
  BY <1>1, <1>2, <1>3, <1>4, TypeParts DEF TypeOK

LEMMA CloseBeginsType ==
  ASSUME TypeOK, NEW c \in Ops \cup {"session"}, CloseBegins(c), kind' = kind
  PROVE  TypeOK'
<1> USE DEF CloseBegins
<1>1. OpType'
  BY DEF opVars, TypeOK, OpType, Ats, Legs, Waits
<1>2. TableType' /\ LinkType'
  BY DEF opVars, tableVars, linkVars, TypeOK, TableType, LinkType
<1>3. closer' \in Closers
  BY DEF Closers, Phases
<1>4. CloseType'
  BY <1>3 DEF Live, Transfers, TypeOK, CloseType
<1> QED
  BY <1>1, <1>2, <1>4, TypeParts DEF TypeOK

LEMMA TvType ==
  ASSUME TypeOK, NEW q \in asked, NEW bad \in BOOLEAN, NEW withId \in BOOLEAN,
         TvAnswers(q, bad, withId), kind' = kind
  PROVE  TypeOK'
<1> USE DEF TvAnswers
<1>1. q[1] \in Ops
  BY DEF TypeOK, Entries
<1>2. PICK who : /\ waiter' = [o \in Ops |-> IF o \notin who THEN waiter[o]
                                            ELSE IF bad THEN "error" ELSE "value"]
                /\ heard' = [o \in Ops |-> IF o \in who THEN heard[o] \cup {q[1]} ELSE heard[o]]
  OBVIOUS
<1>3. waiter' \in [Ops -> Waits] /\ heard' \in [Ops -> SUBSET Ops]
  BY <1>1, <1>2 DEF TypeOK, Waits
<1>4. OpType'
  BY <1>3 DEF TypeOK, OpType, Ats, Legs
<1>5. TableType' /\ LinkType' /\ CloseType'
  BY DEF tableVars, closeVars, TypeOK, TableType, LinkType, CloseType, Closers
<1> QED
  BY <1>4, <1>5, TypeParts DEF TypeOK

LEMMA LinkStepType ==
  ASSUME TypeOK, ReceiverEnds \/ ReceiverFinished \/ Open, kind' = kind
  PROVE  TypeOK'
<1>1. CASE ReceiverEnds
  <2>1. OpType' /\ TableType'
    BY <1>1 DEF ReceiverEnds, opVars, tableVars, TypeOK, OpType, TableType, Ats, Legs, Waits
  <2>2. LinkType' /\ CloseType'
    BY <1>1 DEF ReceiverEnds, opVars, closeVars, TypeOK, LinkType, CloseType, Closers
  <2> QED
    BY <2>1, <2>2, TypeParts DEF TypeOK
<1>2. CASE ReceiverFinished
  <2>1. OpType'
    BY <1>2 DEF ReceiverFinished, FailPending, TypeOK, OpType, Ats, Legs, Waits
  <2>2. TableType'
    BY <1>2 DEF ReceiverFinished, FailPending, TypeOK, TableType
  <2>3. LinkType' /\ CloseType'
    BY <1>2 DEF ReceiverFinished, closeVars, TypeOK, LinkType, CloseType, Closers
  <2> QED
    BY <2>1, <2>2, <2>3, TypeParts DEF TypeOK
<1>3. CASE Open
  <2>1. OpType' /\ TableType'
    BY <1>3 DEF Open, opVars, tableVars, TypeOK, OpType, TableType, Ats, Legs, Waits
  <2>2. CloseType'
    BY <1>3 DEF Open, closeVars, TypeOK, CloseType, Closers
  <2>3. LinkType'
    BY <1>3, BoundsAssumption DEF Open, opVars, TypeOK, LinkType
  <2> QED
    BY <2>1, <2>2, <2>3, TypeParts DEF TypeOK
<1> QED
  BY <1>1, <1>2, <1>3

LEMMA CloseStepType ==
  ASSUME TypeOK, CloseStep \/ SessionCloses \/ SessionCloseExpires, kind' = kind
  PROVE  TypeOK'
<1>1. CASE TransfersDrained \/ ReceiverDrained
  <2>1. OpType' /\ TableType'
    BY <1>1 DEF TransfersDrained, ReceiverDrained, opVars, tableVars, TypeOK, OpType, TableType,
       Ats, Legs, Waits
  <2>2. LinkType'
    BY <1>1 DEF TransfersDrained, ReceiverDrained, opVars, TypeOK, LinkType
  <2>3. closer' \in Closers
    <3>1. PICK phase \in Phases, alive \in BOOLEAN :
            closer' = [closer EXCEPT !.phase = phase, !.alive = alive]
      BY <1>1 DEF TransfersDrained, ReceiverDrained, Phases, TypeOK
    <3> QED
      BY <3>1 DEF TypeOK, Closers
  <2>4. CloseType'
    BY <1>1, <2>3 DEF TransfersDrained, ReceiverDrained, TypeOK, CloseType
  <2> QED
    BY <2>1, <2>2, <2>4, TypeParts DEF TypeOK
<1>2. CASE SessionClosed
  <2>1. OpType'
    BY <1>2 DEF SessionClosed, FailPending, TypeOK, OpType, Ats, Legs, Waits
  <2>2. TableType'
    BY <1>2 DEF SessionClosed, FailPending, TypeOK, TableType
  <2>3. LinkType' /\ CloseType'
    BY <1>2, NoCloserType DEF SessionClosed, linkVars, TypeOK, LinkType, CloseType
  <2> QED
    BY <2>1, <2>2, <2>3, TypeParts DEF TypeOK
<1>3. CASE SessionCloses \/ SessionCloseExpires
  <2>1. OpType' /\ TableType'
    BY <1>3 DEF SessionCloses, SessionCloseExpires, opVars, tableVars, TypeOK, OpType, TableType,
       Ats, Legs, Waits
  <2>2. LinkType' /\ CloseType'
    BY <1>3 DEF SessionCloses, SessionCloseExpires, opVars, linkVars, TypeOK, LinkType,
       CloseType, Closers
  <2> QED
    BY <2>1, <2>2, TypeParts DEF TypeOK
<1> QED
  BY <1>1, <1>2, <1>3 DEF CloseStep

\* The kinds of step that the proofs go through.
NextCases ==
  \/ \E o \in Ops : Start(o) \/ CancelledByCaller(o)
  \/ \E o \in Ops : Shape(o)
  \/ \E c \in Ops \cup {"session"} : CloseBegins(c)
  \/ \E q \in asked, bad, withId \in BOOLEAN : TvAnswers(q, bad, withId)
  \/ ReceiverEnds \/ ReceiverFinished \/ Open
  \/ CloseStep \/ SessionCloses \/ SessionCloseExpires

LEMMA StepCases == Next => kind' = kind /\ NextCases
BY OpShapes DEF Next, NextCases, Tv

LEMMA TypeInit == Init => TypeOK
<1> SUFFICES ASSUME Init PROVE TypeOK
  OBVIOUS
<1>1. closer \in [by : Ops \cup {"session", "none"}, phase : Phases, alive : BOOLEAN]
  BY DEF Init, NoCloser, Phases
<1>2. on \in [Ops -> 0 .. MaxConnections] /\ opened \in 0 .. MaxConnections
  BY BoundsAssumption DEF Init
<1> QED
  BY <1>1, <1>2 DEF Init, TypeOK, None

LEMMA TypeStep == TypeOK /\ [Next]_vars => TypeOK'
<1> SUFFICES ASSUME TypeOK, [Next]_vars PROVE TypeOK'
  OBVIOUS
<1>1. CASE Next
  BY <1>1, StepCases, CallType, ShapeType, CloseBeginsType, TvType, LinkStepType, CloseStepType
     DEF NextCases
<1>2. CASE UNCHANGED vars
  BY <1>2 DEF vars, opVars, tableVars, linkVars, closeVars, TypeOK
<1> QED
  BY <1>1, <1>2

(* The variables stay in the sets the code keeps them in, and the lock is  *)
(* held by an operation under way: one that ends has released it.          *)
THEOREM TypeCorrect == Spec => []TypeOK
BY TypeInit, TypeStep, PTL DEF Spec

-----------------------------------------------------------------------------
(* The connection, its receiver, and how far a close has come.             *)

ConnHeard == conn # 0 <=> receiver \in {"running", "cancelled"}
CloserPlaced ==
  /\ closer = NoCloser <=> closer.by = "none"
  /\ closer.by = "none" => closer.phase = "none"
  /\ closer.by \in Ops => at[closer.by] = "closing"
ClosePhases ==
  /\ closer.phase \in {"receiver", "socket"} => receiver # "running"
  /\ closer.phase = "socket" => receiver # "cancelled"
  /\ closer.phase = "socket" /\ ~closer.alive => receiver = "none"
Drained ==
  closer.by = "session" /\ closer.phase \in {"receiver", "socket"} /\ ~closer.alive => Live = {}
LinkInv == ConnHeard /\ CloserPlaced /\ ClosePhases /\ Drained

LEMMA LinkInit == Init => LinkInv
<1> SUFFICES ASSUME Init PROVE LinkInv
  OBVIOUS
<1>1. closer = NoCloser /\ closer.by = "none" /\ closer.phase = "none"
  BY DEF Init, NoCloser
<1>2. conn = 0 /\ receiver = "none"
  BY DEF Init
<1> QED
  BY <1>1, <1>2, OpsAssumption DEF LinkInv, ConnHeard, CloserPlaced, ClosePhases, Drained

\* What the steps of operations leave of the connection and the close.
LEMMA ShapeLink ==
  ASSUME NEW o \in Ops, Shape(o)
  PROVE  /\ conn' = conn /\ receiver' = receiver /\ opened' = opened
         /\ closer' = closer \/ (closer.phase = "socket" /\ closer.by = o /\ closer' = NoCloser)
BY DEF Shape, Leaves, Asking, Streaming, Streamed, Closes, ClosesAgain, Unlinked, linkVars, closeVars

\* Where a step of an operation takes it.
LEMMA ShapeMoves ==
  ASSUME TypeOK, NEW o \in Ops, Shape(o)
  PROVE  \E where \in Ats :
           /\ at' = [at EXCEPT ![o] = where]
           /\ where # "ended" => at[o] \in {"queued", "waiting", "streaming"} \/ where = at[o]
<1> USE DEF Ats
<1>1. CASE Leaves(o)
  BY <1>1 DEF Leaves, Ends, Goes
<1>2. CASE Asking(o)
  BY <1>2 DEF Asking, Asks, Goes
<1>3. CASE Streaming(o)
  BY <1>3 DEF Streaming, StreamsUp, StreamsDown, Streams, Goes
<1>4. CASE Streamed(o) \/ Closes(o)
  BY <1>4 DEF Streamed, Closes, ClosesIn, Goes
<1>5. CASE ClosesAgain(o)
  <2>1. at' = [at EXCEPT ![o] = at[o]] /\ at[o] \in Ats
    BY <1>5 DEF ClosesAgain, TypeOK
  <2> QED
    BY <2>1
<1> QED
  BY <1>1, <1>2, <1>3, <1>4, <1>5 DEF Shape

\* No step of an operation begins a transfer, except its start.
LEMMA ShapeLive ==
  ASSUME TypeOK, NEW o \in Ops, Shape(o), kind' = kind
  PROVE  Live' \subseteq Live
<1>1. PICK where \in Ats :
        /\ at' = [at EXCEPT ![o] = where]
        /\ where # "ended" => at[o] \in {"queued", "waiting", "streaming"} \/ where = at[o]
  BY ShapeMoves
<1> QED
  BY <1>1 DEF Live, Transfers, TypeOK

LEMMA ConnHeardStep == TypeOK /\ LinkInv /\ [Next]_vars => ConnHeard'
<1> SUFFICES ASSUME TypeOK, LinkInv, [Next]_vars PROVE ConnHeard'
  OBVIOUS
<1> USE DEF ConnHeard, LinkInv
<1>1. CASE UNCHANGED vars
  BY <1>1 DEF vars, linkVars
<1>2. CASE \E o \in Ops : Start(o) \/ CancelledByCaller(o)
  BY <1>2 DEF Start, CancelledByCaller, Unlinked, linkVars
<1>3. CASE \E o \in Ops : Shape(o)
  BY <1>3, ShapeLink
<1>4. CASE \E c \in Ops \cup {"session"} : CloseBegins(c)
  BY <1>4 DEF CloseBegins, linkVars
<1>5. CASE \E q \in asked, bad, withId \in BOOLEAN : TvAnswers(q, bad, withId)
  BY <1>5 DEF TvAnswers
<1>6. CASE ReceiverEnds
  BY <1>6 DEF ReceiverEnds
<1>7. CASE ReceiverFinished
  BY <1>7 DEF ReceiverFinished
<1>8. CASE Open
  BY <1>8 DEF Open, TypeOK
<1>9. CASE TransfersDrained
  BY <1>9 DEF TransfersDrained
<1>10. CASE ReceiverDrained
  BY <1>10 DEF ReceiverDrained, ClosePhases
<1>11. CASE SessionClosed \/ SessionCloses \/ SessionCloseExpires
  BY <1>11 DEF SessionClosed, SessionCloses, SessionCloseExpires, linkVars
<1> QED
  BY <1>1, <1>2, <1>3, <1>4, <1>5, <1>6, <1>7, <1>8, <1>9, <1>10, <1>11, StepCases
     DEF NextCases, CloseStep

LEMMA CloserPlacedStep == TypeOK /\ LinkInv /\ [Next]_vars => CloserPlaced'
<1> SUFFICES ASSUME TypeOK, LinkInv, [Next]_vars PROVE CloserPlaced'
  OBVIOUS
<1> USE DEF CloserPlaced, LinkInv
<1>0. "session" \notin Ops /\ "none" \notin Ops
  BY OpsAssumption
<1>1. CASE UNCHANGED vars
  BY <1>1 DEF vars, closeVars, opVars, NoCloser
<1>2. CASE \E o \in Ops : Start(o) \/ CancelledByCaller(o)
  BY <1>2 DEF Start, CancelledByCaller, Unlinked, closeVars, opVars, Goes, NoCloser, TypeOK
<1>3. CASE \E o \in Ops : Shape(o)
  <2>1. PICK o \in Ops : Shape(o)
    BY <1>3
  <2>2. CASE closer' = NoCloser
    BY <1>0, <2>2 DEF NoCloser
  <2>3. CASE closer' = closer /\ closer # NoCloser
    <3>1. at[o] \in {"queued", "waiting", "streaming"} \/ closer.by # o
      BY <2>1, <2>3 DEF Shape, Leaves, Asking, Streaming, Streamed, Closes, ClosesAgain
    <3>2. \A p \in Ops \ {o} : at'[p] = at[p]
      BY <2>1, ShapeMoves DEF TypeOK
    <3> QED
      BY <2>3, <3>1, <3>2 DEF NoCloser
  <2> QED
    BY <2>1, <2>2, <2>3, ShapeLink
<1>4. CASE \E c \in Ops \cup {"session"} : CloseBegins(c)
  BY <1>0, <1>4 DEF CloseBegins, opVars, NoCloser
<1>5. CASE \E q \in asked, bad, withId \in BOOLEAN : TvAnswers(q, bad, withId)
  BY <1>5 DEF TvAnswers, closeVars, NoCloser
<1>6. CASE ReceiverEnds \/ ReceiverFinished \/ Open \/ SessionCloses \/ SessionCloseExpires
  BY <1>6 DEF ReceiverEnds, ReceiverFinished, Open, SessionCloses, SessionCloseExpires, opVars,
     closeVars, NoCloser
<1>7. CASE TransfersDrained \/ ReceiverDrained
  <2>1. closer.phase # "none" /\ closer.by # "none"
    BY <1>7 DEF TransfersDrained, ReceiverDrained, NoCloser
  <2>2. closer'.by = closer.by
    <3>1. closer \in Closers
      BY DEF TypeOK, Closers
    <3> QED
      BY <1>7, <3>1 DEF TransfersDrained, ReceiverDrained, Closers
  <2>3. closer' # NoCloser
    BY <2>1, <2>2 DEF NoCloser
  <2> QED
    BY <1>7, <2>1, <2>2, <2>3 DEF TransfersDrained, ReceiverDrained, opVars
<1>8. CASE SessionClosed
  BY <1>0, <1>8 DEF SessionClosed, NoCloser
<1> QED
  BY <1>1, <1>2, <1>3, <1>4, <1>5, <1>6, <1>7, <1>8, StepCases DEF NextCases, CloseStep

LEMMA ClosePhasesStep == TypeOK /\ LinkInv /\ [Next]_vars => ClosePhases'
<1> SUFFICES ASSUME TypeOK, LinkInv, [Next]_vars PROVE ClosePhases'
  OBVIOUS
<1> USE DEF ClosePhases, LinkInv
<1>1. CASE UNCHANGED vars
  BY <1>1 DEF vars, linkVars, closeVars
<1>2. CASE \E o \in Ops : Start(o) \/ CancelledByCaller(o)
  BY <1>2 DEF Start, CancelledByCaller, Unlinked, linkVars, closeVars
<1>3. CASE \E o \in Ops : Shape(o)
  BY <1>3, ShapeLink DEF NoCloser
<1>4. CASE \E c \in Ops \cup {"session"} : CloseBegins(c)
  BY <1>4 DEF CloseBegins
<1>5. CASE \E q \in asked, bad, withId \in BOOLEAN : TvAnswers(q, bad, withId)
  BY <1>5 DEF TvAnswers, closeVars
<1>6. CASE ReceiverEnds
  BY <1>6 DEF ReceiverEnds, closeVars
<1>7. CASE ReceiverFinished
  BY <1>7 DEF ReceiverFinished, closeVars
<1>8. CASE Open
  BY <1>8 DEF Open, closeVars, NoCloser
<1>9. CASE TransfersDrained
  BY <1>9 DEF TransfersDrained, TypeOK
<1>10. CASE ReceiverDrained
  BY <1>10 DEF ReceiverDrained, TypeOK
<1>11. CASE SessionClosed \/ SessionCloses \/ SessionCloseExpires
  BY <1>11 DEF SessionClosed, SessionCloses, SessionCloseExpires, linkVars, NoCloser
<1> QED
  BY <1>1, <1>2, <1>3, <1>4, <1>5, <1>6, <1>7, <1>8, <1>9, <1>10, <1>11, StepCases
     DEF NextCases, CloseStep

LEMMA DrainedStep == TypeOK /\ LinkInv /\ [Next]_vars => Drained'
<1> SUFFICES ASSUME TypeOK, LinkInv, [Next]_vars PROVE Drained'
  OBVIOUS
<1> USE DEF Drained, LinkInv
<1>0. "session" \notin Ops /\ "none" \notin Ops
  BY OpsAssumption
<1>k. kind' = kind
  BY StepCases DEF vars
<1>t. Transfers' = Transfers
  BY <1>k DEF Transfers
<1>1. CASE UNCHANGED vars
  BY <1>1, <1>t DEF vars, opVars, closeVars, Live
<1>2. CASE \E o \in Ops : Start(o) \/ CancelledByCaller(o)
  <2>1. PICK o \in Ops : Start(o) \/ CancelledByCaller(o)
    BY <1>2
  <2>2. closer' = closer
    BY <2>1 DEF Start, CancelledByCaller, Unlinked, closeVars
  <2>3. closer.by = "session" => Live' = Live
    <3>1. CASE Start(o)
      BY <1>t, <3>1 DEF Start, MayStart, Closing, Goes, Live, TypeOK, Transfers
    <3>2. CASE CancelledByCaller(o)
      BY <1>t, <3>2 DEF CancelledByCaller, opVars, Live
    <3> QED
      BY <2>1, <3>1, <3>2
  <2> QED
    BY <2>2, <2>3
<1>3. CASE \E o \in Ops : Shape(o)
  <2>1. PICK o \in Ops : Shape(o)
    BY <1>3
  <2>2. closer' = closer => Live' \subseteq Live
    BY <1>k, <2>1, ShapeLive
  <2> QED
    BY <2>1, <2>2, ShapeLink DEF NoCloser
<1>4. CASE \E c \in Ops \cup {"session"} : CloseBegins(c)
  BY <1>4 DEF CloseBegins
<1>5. CASE \E q \in asked, bad, withId \in BOOLEAN : TvAnswers(q, bad, withId)
  BY <1>5, <1>t DEF TvAnswers, closeVars, Live
<1>6. CASE ReceiverEnds \/ ReceiverFinished \/ Open \/ SessionCloses \/ SessionCloseExpires
  BY <1>6, <1>t DEF ReceiverEnds, ReceiverFinished, Open, SessionCloses, SessionCloseExpires, opVars,
     closeVars, Live
<1>7. CASE TransfersDrained \/ ReceiverDrained
  <2>1. Live' = Live
    BY <1>7, <1>t DEF TransfersDrained, ReceiverDrained, opVars, Live
  <2>2. closer \in Closers
    BY DEF TypeOK, Closers
  <2>3. CASE TransfersDrained
    <3>1. closer'.by = closer.by /\ (closer'.alive <=> Live \ {closer.by} # {})
      BY <2>2, <2>3 DEF TransfersDrained, Closers
    <3>2. closer.by = "session" => Live \ {closer.by} = Live
      BY <1>0 DEF Live, Transfers
    <3> QED
      BY <2>1, <3>1, <3>2
  <2>4. CASE ReceiverDrained
    <3>1. closer'.by = closer.by /\ (closer'.alive <=> closer.alive \/ receiver # "none")
      BY <2>2, <2>4 DEF ReceiverDrained, Closers
    <3>2. closer.phase = "receiver"
      BY <2>4 DEF ReceiverDrained
    <3> QED
      BY <2>1, <3>1, <3>2
  <2> QED
    BY <1>7, <2>3, <2>4
<1>8. CASE SessionClosed
  BY <1>8 DEF SessionClosed, NoCloser
<1> QED
  BY <1>1, <1>2, <1>3, <1>4, <1>5, <1>6, <1>7, <1>8, StepCases DEF NextCases, CloseStep

LEMMA LinkInvariant == Spec => [](TypeOK /\ LinkInv)
<1>1. TypeOK /\ LinkInv /\ [Next]_vars => TypeOK' /\ LinkInv'
  BY TypeStep, ConnHeardStep, CloserPlacedStep, ClosePhasesStep, DrainedStep DEF LinkInv
<1> QED
  BY <1>1, TypeInit, LinkInit, PTL DEF Spec

-----------------------------------------------------------------------------
(* The lock, the table of waiters, and the futures.                        *)

\* Who holds the lock, and which operations ask for what.
Holding(o) ==
  /\ at[o] \in {"waiting", "closing"} => lock = o
  /\ at[o] = "streaming" =>
       kind[o] \in {"upload", "thumbnail"} /\ (lock = o \/ kind[o] # "upload")
  /\ leg[o] # "request" => kind[o] = "upload"
Holders == \A o \in Ops : Holding(o)

\* The table holds one entry at most, that of the holder of the lock.
Table ==
  /\ \A e \in pending : e[1] = lock /\ e[2] = leg[e[1]]
  /\ uuidless \in pending \cup {None}

\* A future that is awaited is in the table.
Future(o) ==
  /\ waiter[o] # "none" => at[o] \in {"waiting", "streaming"}
  /\ at[o] = "streaming" => IF kind[o] = "upload" THEN leg[o] = "added" ELSE waiter[o] = "none"
  /\ waiter[o] = "pending" => <<o, leg[o]>> \in pending
Futures == \A o \in Ops : Future(o)

LEMMA ShapeHolders ==
  ASSUME TypeOK, Holders, NEW o \in Ops, Shape(o), kind' = kind
  PROVE  Holders'
<1> SUFFICES ASSUME NEW p \in Ops PROVE Holding(p)'
  BY DEF Holders
<1> USE DEF Holders, Holding
<1>0. "none" \notin Ops
  BY OpsAssumption
<1>1. CASE Leaves(o)
  BY <1>1 DEF Leaves, Ends, Goes, Unlocks, TypeOK
<1>2. CASE Asking(o)
  <2>1. PICK l \in Legs :
          /\ Asks(o, l)
          /\ \/ lock = "none" /\ lock' = o /\ l = First(o)
             \/ at[o] = "waiting" /\ leg[o] = "version" /\ lock' = lock
    BY <1>2 DEF Asking
  <2>2. /\ at' = [at EXCEPT ![o] = "waiting"]
        /\ leg' = [leg EXCEPT ![o] = l]
    BY <2>1 DEF Asks, Goes, Registers
  <2>3. l # "request" => kind[o] = "upload"
    BY <2>1 DEF First
  <2> QED
    BY <1>0, <2>1, <2>2, <2>3 DEF TypeOK
<1>3. CASE Streaming(o)
  BY <1>3 DEF Streaming, StreamsUp, StreamsDown, Streams, Goes, Registers, Unlocks, TypeOK
<1>4. CASE Streamed(o)
  BY <1>4 DEF Streamed, Goes, tableVars, TypeOK
<1>5. CASE Closes(o)
  BY <1>5 DEF Closes, ClosesIn, Goes, TypeOK
<1>6. CASE ClosesAgain(o)
  BY <1>6 DEF ClosesAgain
<1> QED
  BY <1>1, <1>2, <1>3, <1>4, <1>5, <1>6 DEF Shape

LEMMA HoldersStep == TypeOK /\ Holders /\ [Next]_vars => Holders'
<1> SUFFICES ASSUME TypeOK, Holders, [Next]_vars PROVE Holders'
  OBVIOUS
<1>1. kind' = kind
  BY StepCases DEF vars
<1>2. CASE \E o \in Ops : Shape(o)
  BY <1>1, <1>2, ShapeHolders
<1>3. CASE \E o \in Ops : Start(o)
  BY <1>1, <1>3 DEF Start, Goes, tableVars, Holders, Holding, TypeOK
<1>4. CASE UNCHANGED <<at, leg, lock>>
  BY <1>1, <1>4 DEF Holders, Holding
<1>5. \/ \E o \in Ops : Shape(o)
      \/ \E o \in Ops : Start(o)
      \/ UNCHANGED <<at, leg, lock>>
  BY StepCases DEF NextCases, CancelledByCaller, CloseBegins, TvAnswers, ReceiverEnds,
     ReceiverFinished, Open, CloseStep, TransfersDrained, ReceiverDrained, SessionClosed,
     SessionCloses, SessionCloseExpires, opVars, tableVars, vars
<1> QED
  BY <1>2, <1>3, <1>4, <1>5

LEMMA ShapeTable ==
  ASSUME TypeOK, Holders, Table, NEW o \in Ops, Shape(o)
  PROVE  Table'
<1> USE DEF Table
<1>0. "none" \notin Ops /\ \A e \in pending : e[1] \in Ops
  BY OpsAssumption DEF TypeOK, Entries
<1>1. CASE Leaves(o)
  BY <1>0, <1>1 DEF Leaves, Ends, Forgets, Unlocks, None
<1>2. CASE Asking(o)
  <2>1. PICK l \in Legs :
          /\ Asks(o, l)
          /\ \/ lock = "none" /\ lock' = o
             \/ at[o] = "waiting" /\ lock' = lock
    BY <1>2 DEF Asking
  <2>2. \A e \in pending : e[1] = o /\ lock' = o
    BY <1>0, <2>1 DEF Holders, Holding
  <2>3. lock' = o
    BY <2>1 DEF Holders, Holding
  <2>4. /\ pending' = {e \in pending : e[1] # o} \cup {<<o, l>>}
        /\ uuidless' \in {<<o, l>>, None} \/ (uuidless' = uuidless /\ uuidless[1] # o)
        /\ leg' = [leg EXCEPT ![o] = l]
    BY <2>1 DEF Asks, Registers
  <2>5. pending' = {<<o, l>>} /\ leg'[o] = l
    BY <2>2, <2>4 DEF TypeOK
  <2>6. uuidless' \in {<<o, l>>, None}
    BY <2>2, <2>4
  <2> QED
    BY <2>3, <2>5, <2>6
<1>3. CASE Streaming(o)
  <2>1. lock = o
    BY <1>3 DEF Streaming, Holders, Holding
  <2>2. CASE StreamsUp(o)
    <3>1. /\ pending' = {<<o, "added">>} /\ uuidless' = <<o, "added">>
          /\ leg' = [leg EXCEPT ![o] = "added"] /\ lock' = lock
      BY <2>1, <2>2 DEF StreamsUp, Registers
    <3> QED
      BY <2>1, <3>1 DEF TypeOK
  <2>3. CASE StreamsDown(o)
    BY <2>1, <2>3 DEF StreamsDown, Forgets, None
  <2> QED
    BY <1>3, <2>2, <2>3 DEF Streaming
<1>4. CASE Streamed(o)
  BY <1>4 DEF Streamed, tableVars
<1>5. CASE Closes(o)
  BY <1>5 DEF Closes, ClosesIn, Forgets
<1>6. CASE ClosesAgain(o)
  BY <1>6 DEF ClosesAgain, FailPending
<1> QED
  BY <1>1, <1>2, <1>3, <1>4, <1>5, <1>6 DEF Shape

LEMMA TableStep == TypeOK /\ Holders /\ Table /\ [Next]_vars => Table'
<1> SUFFICES ASSUME TypeOK, Holders, Table, [Next]_vars PROVE Table'
  OBVIOUS
<1>1. CASE \E o \in Ops : Shape(o)
  BY <1>1, ShapeTable
<1>2. CASE UNCHANGED <<leg, tableVars>>
  BY <1>2 DEF Table, tableVars
<1>3. CASE FailPending
  BY <1>3 DEF Table, FailPending
<1>4. \/ \E o \in Ops : Shape(o)
      \/ UNCHANGED <<leg, tableVars>>
      \/ FailPending
  BY StepCases DEF NextCases, Start, CancelledByCaller, CloseBegins, TvAnswers, ReceiverEnds,
     ReceiverFinished, Open, CloseStep, TransfersDrained, ReceiverDrained, SessionClosed,
     SessionCloses, SessionCloseExpires, opVars, vars
<1> QED
  BY <1>1, <1>2, <1>3, <1>4

\* No future is resolved that was not awaited.
LEMMA FailedFutures ==
  ASSUME TypeOK, Futures, FailPending, UNCHANGED <<kind, at, leg>>
  PROVE  Futures'
BY DEF FailPending, Futures, Future, TypeOK

LEMMA ShapeFutures ==
  ASSUME TypeOK, Holders, Futures, NEW o \in Ops, Shape(o), kind' = kind
  PROVE  Futures'
<1> SUFFICES ASSUME NEW p \in Ops PROVE Future(p)'
  BY DEF Futures
<1> USE DEF Futures, Future
<1>1. CASE Leaves(o)
  BY <1>1 DEF Leaves, Ends, Goes, Forgets, TypeOK
<1>2. CASE Asking(o)
  <2>1. PICK l \in Legs : Asks(o, l)
    BY <1>2 DEF Asking
  <2>2. /\ at' = [at EXCEPT ![o] = "waiting"]
        /\ leg' = [leg EXCEPT ![o] = l] /\ waiter' = [waiter EXCEPT ![o] = "pending"]
        /\ pending' = {e \in pending : e[1] # o} \cup {<<o, l>>}
    BY <2>1 DEF Asks, Goes, Registers
  <2> QED
    BY <2>2 DEF TypeOK
<1>3. CASE Streaming(o)
  <2>1. CASE leg[o] = "ready" /\ StreamsUp(o)
    <3>1. /\ at' = [at EXCEPT ![o] = "streaming"]
          /\ leg' = [leg EXCEPT ![o] = "added"] /\ waiter' = [waiter EXCEPT ![o] = "pending"]
          /\ pending' = {e \in pending : e[1] # o} \cup {<<o, "added">>}
      BY <2>1 DEF StreamsUp, Streams, Goes, Registers
    <3>2. kind[o] = "upload"
      BY <2>1 DEF Holders, Holding
    <3> QED
      BY <3>1, <3>2 DEF TypeOK
  <2>2. CASE kind[o] = "thumbnail" /\ StreamsDown(o)
    BY <2>2 DEF StreamsDown, Streams, Goes, Forgets, TypeOK
  <2> QED
    BY <1>3, <2>1, <2>2 DEF Streaming
<1>4. CASE Streamed(o)
  BY <1>4 DEF Streamed, Goes, tableVars, TypeOK
<1>5. CASE Closes(o)
  BY <1>5 DEF Closes, ClosesIn, Goes, Forgets, TypeOK
<1>6. CASE ClosesAgain(o)
  BY <1>6, FailedFutures DEF ClosesAgain
<1> QED
  BY <1>1, <1>2, <1>3, <1>4, <1>5, <1>6 DEF Shape

\* An answer resolves awaited futures only, and each of an entry of the table
\* that it addresses.
LEMMA TvResolves ==
  ASSUME TypeOK, NEW q \in asked, NEW bad \in BOOLEAN, NEW withId \in BOOLEAN,
         TvAnswers(q, bad, withId)
  PROVE  /\ UNCHANGED <<at, leg, pending>>
         /\ asked' = asked \ {q}
         /\ \A o \in Ops :
              \/ waiter'[o] = waiter[o] /\ heard'[o] = heard[o]
              \/ /\ waiter[o] = "pending" /\ waiter'[o] \in {"error", "value"}
                 /\ heard'[o] = heard[o] \cup {q[1]}
                 /\ \E e \in Addressee(q, bad, withId) : e[1] = o
<1>1. /\ UNCHANGED <<at, leg, pending>> /\ asked' = asked \ {q}
  BY DEF TvAnswers, tableVars
<1> DEFINE who == {e[1] : e \in {a \in Addressee(q, bad, withId) : waiter[a[1]] = "pending"}}
<1>2. /\ waiter' = [o \in Ops |-> IF o \notin who THEN waiter[o]
                                   ELSE IF bad THEN "error" ELSE "value"]
      /\ heard' = [o \in Ops |-> IF o \in who THEN heard[o] \cup {q[1]} ELSE heard[o]]
  BY DEF TvAnswers
<1>3. ASSUME NEW o \in Ops, o \in who
      PROVE  waiter[o] = "pending" /\ \E e \in Addressee(q, bad, withId) : e[1] = o
  BY <1>3
<1> HIDE DEF who
<1>4. ASSUME NEW o \in Ops
      PROVE  \/ waiter'[o] = waiter[o] /\ heard'[o] = heard[o]
             \/ /\ waiter[o] = "pending" /\ waiter'[o] \in {"error", "value"}
                /\ heard'[o] = heard[o] \cup {q[1]}
                /\ \E e \in Addressee(q, bad, withId) : e[1] = o
  <2>1. CASE o \in who
    BY <1>2, <1>3, <2>1
  <2>2. CASE o \notin who
    BY <1>2, <2>2
  <2> QED
    BY <2>1, <2>2
<1> QED
  BY <1>1, <1>4

LEMMA FuturesStep == TypeOK /\ Holders /\ Futures /\ [Next]_vars => Futures'
<1> SUFFICES ASSUME TypeOK, Holders, Futures, [Next]_vars PROVE Futures'
  OBVIOUS
<1>1. kind' = kind
  BY StepCases DEF vars
<1>2. CASE \E o \in Ops : Shape(o)
  BY <1>1, <1>2, ShapeFutures
<1>3. CASE \E o \in Ops : Start(o)
  BY <1>1, <1>3 DEF Start, Goes, tableVars, Futures, Future, TypeOK
<1>4. CASE \E q \in asked, bad, withId \in BOOLEAN : TvAnswers(q, bad, withId)
  <2>1. PICK q \in asked, bad \in BOOLEAN, withId \in BOOLEAN : TvAnswers(q, bad, withId)
    BY <1>4
  <2>2. UNCHANGED <<at, leg, pending>>
    BY <2>1, TvResolves
  <2>3. ASSUME NEW o \in Ops
        PROVE  waiter'[o] = waiter[o] \/ (waiter[o] = "pending" /\ waiter'[o] \in {"error", "value"})
    BY <2>1, TvResolves
  <2> QED
    BY <1>1, <2>2, <2>3 DEF Futures, Future
<1>5. CASE FailPending /\ UNCHANGED <<at, leg>>
  BY <1>1, <1>5, FailedFutures
<1>6. CASE UNCHANGED <<at, leg, waiter, pending>>
  BY <1>1, <1>6 DEF Futures, Future
<1>7. \/ \E o \in Ops : Shape(o)
      \/ \E o \in Ops : Start(o)
      \/ \E q \in asked, bad, withId \in BOOLEAN : TvAnswers(q, bad, withId)
      \/ FailPending /\ UNCHANGED <<at, leg>>
      \/ UNCHANGED <<at, leg, waiter, pending>>
  BY StepCases DEF NextCases, CancelledByCaller, CloseBegins, ReceiverEnds,
     ReceiverFinished, Open, CloseStep, TransfersDrained, ReceiverDrained, SessionClosed,
     SessionCloses, SessionCloseExpires, opVars, tableVars, vars
<1> QED
  BY <1>2, <1>3, <1>4, <1>5, <1>6, <1>7

TableInv == Holders /\ Table /\ Futures

LEMMA TableInit == Init => TableInv
<1> SUFFICES ASSUME Init PROVE TableInv
  OBVIOUS
<1>1. \A o \in Ops : at[o] = "idle" /\ leg[o] = "request" /\ waiter[o] = "none"
  BY DEF Init
<1>2. Holders /\ Futures
  BY <1>1 DEF Holders, Holding, Futures, Future
<1>3. Table
  BY DEF Init, Table
<1> QED
  BY <1>2, <1>3 DEF TableInv

LEMMA TableInvariant == Spec => [](TypeOK /\ LinkInv /\ TableInv)
<1>1. TypeOK /\ TableInv /\ [Next]_vars => TableInv'
  BY HoldersStep, TableStep, FuturesStep DEF TableInv
<1> QED
  BY <1>1, TableInit, LinkInvariant, PTL DEF Spec

-----------------------------------------------------------------------------
(* Who serves those that wait.                                             *)

Served(o) ==
  waiter[o] = "pending" \/ (at[o] = "waiting" /\ waiter[o] \in {"value", "error"} /\ leg[o] # "added") =>
    receiver # "none" \/ closer.by # "none"
AllServed == \A o \in Ops : Served(o)

\* Whoever awaits an answer holds the lock, and so does a closer.
LEMMA OneAtWork ==
  ASSUME Holders, Futures, NEW o \in Ops, NEW p \in Ops,
         waiter[o] = "pending" \/ at[o] \in {"waiting", "closing"}, at[p] = "closing"
  PROVE  o = p
<1>1. lock = p
  BY DEF Holders, Holding
<1>2. lock = o
  BY DEF Holders, Holding, Futures, Future
<1> QED
  BY <1>1, <1>2

LEMMA ShapeServed ==
  ASSUME TypeOK, LinkInv, TableInv, AllServed, NEW o \in Ops, Shape(o), kind' = kind
  PROVE  AllServed'
<1> SUFFICES ASSUME NEW p \in Ops PROVE Served(p)'
  BY DEF AllServed
<1> USE DEF TableInv
<1>1. conn' = conn /\ receiver' = receiver
  BY ShapeLink
<1>2. CASE closer' # closer
  <2>1. closer.by = o /\ closer.phase = "socket" /\ at[o] = "closing"
    BY <1>2, ShapeLink DEF LinkInv, CloserPlaced
  <2>2. CASE p # o
    <3>1. waiter[p] # "pending" /\ at[p] # "waiting"
      BY <2>1, <2>2, OneAtWork
    <3>2. Leaves(o) \/ ClosesAgain(o)
      BY <1>2, <2>1 DEF Shape, Asking, Streaming, Streamed, Closes, Unlinked, closeVars
    <3>3. waiter'[p] # "pending" /\ at'[p] = at[p]
      BY <2>2, <3>1, <3>2 DEF Leaves, Ends, Goes, ClosesAgain, FailPending, TypeOK
    <3> QED
      BY <3>1, <3>3 DEF Served
  <2>3. CASE p = o
    <3>1. waiter[o] = "none"
      BY <2>1 DEF Futures, Future
    <3>2. Leaves(o) \/ ClosesAgain(o)
      BY <1>2, <2>1 DEF Shape, Asking, Streaming, Streamed, Closes, Unlinked, closeVars
    <3>3. waiter'[o] = "none"
      BY <3>1, <3>2 DEF Leaves, Ends, ClosesAgain, FailPending, TypeOK
    <3> QED
      BY <2>3, <3>3 DEF Served
  <2> QED
    BY <2>2, <2>3
<1>3. CASE closer' = closer
  <2>1. Served(p)
    BY DEF AllServed
  <2>2. CASE Leaves(o)
    BY <1>1, <1>3, <2>1, <2>2 DEF Served, Leaves, Ends, Goes, TypeOK
  <2>3. CASE Asking(o)
    <3>1. receiver # "none"
      BY <2>3 DEF Asking, LinkInv, ConnHeard
    <3> QED
      BY <1>1, <3>1 DEF Served
  <2>4. CASE Streaming(o)
    <3>1. CASE leg[o] = "ready" /\ StreamsUp(o)
      <4>1. Served(o) /\ at[o] = "waiting" /\ waiter[o] = "value"
        BY <2>4 DEF AllServed, Streaming
      <4>2. receiver # "none" \/ closer.by # "none"
        BY <3>1, <4>1 DEF Served
      <4> QED
        BY <1>1, <1>3, <4>2 DEF Served
    <3>2. CASE StreamsDown(o)
      BY <1>1, <1>3, <2>1, <3>2 DEF Served, StreamsDown, Streams, Goes, TypeOK
    <3> QED
      BY <2>4, <3>1, <3>2 DEF Streaming
  <2>5. CASE Streamed(o)
    <3>1. leg[o] = "added"
      BY <2>5 DEF Streamed, Futures, Future
    <3> QED
      BY <1>1, <1>3, <2>1, <2>5, <3>1 DEF Served, Streamed, Goes, TypeOK
  <2>6. CASE Closes(o)
    BY <1>1, <1>3, <2>1, <2>6 DEF Served, Closes, ClosesIn, Goes, TypeOK
  <2>7. CASE ClosesAgain(o)
    BY <1>1, <1>3, <2>1, <2>7 DEF Served, ClosesAgain, FailPending, TypeOK
  <2> QED
    BY <2>2, <2>3, <2>4, <2>5, <2>6, <2>7 DEF Shape
<1> QED
  BY <1>2, <1>3

\* Failing the waiters, when nobody has still to wake up, leaves none behind.
LEMMA FailedServed ==
  ASSUME TypeOK, TableInv, WakeUpsServed, FailPending, at' = at, leg' = leg
  PROVE  AllServed'
<1> SUFFICES ASSUME NEW o \in Ops PROVE Served(o)'
  BY DEF AllServed
<1>1. waiter[o] = "pending" => waiter'[o] = "lost"
  BY DEF TableInv, Futures, Future, FailPending
<1>2. waiter[o] # "pending" => at[o] # "waiting" /\ waiter'[o] = waiter[o]
  BY DEF WakeUpsServed, FailPending
<1> QED
  BY <1>1, <1>2 DEF Served

LEMMA ServedStep == TypeOK /\ LinkInv /\ TableInv /\ AllServed /\ [Next]_vars => AllServed'
<1> SUFFICES ASSUME TypeOK, LinkInv, TableInv, AllServed, [Next]_vars PROVE AllServed'
  OBVIOUS
<1>1. kind' = kind
  BY StepCases DEF vars
<1>2. CASE \E o \in Ops : Shape(o)
  BY <1>1, <1>2, ShapeServed
<1>3. CASE \E o \in Ops : Start(o)
  BY <1>3 DEF Start, Goes, Unlinked, closeVars, AllServed, Served, TypeOK
<1>4. CASE receiver' # "none" \/ closer'.by # "none"
  BY <1>4 DEF AllServed, Served
<1>5. CASE ReceiverFinished \/ SessionClosed
  BY <1>5, FailedServed DEF ReceiverFinished, SessionClosed
<1>6. CASE UNCHANGED <<at, leg, waiter, receiver, closer>>
  BY <1>6 DEF AllServed, Served
<1>7. CASE TransfersDrained \/ ReceiverDrained
  <2>1. closer \in Closers
    BY DEF TypeOK, Closers
  <2>2. closer'.by = closer.by
    BY <1>7, <2>1 DEF TransfersDrained, ReceiverDrained, Closers
  <2>3. UNCHANGED <<at, leg, waiter>> /\ (receiver' = "none" => receiver = "none")
    BY <1>7 DEF TransfersDrained, ReceiverDrained, opVars
  <2> QED
    BY <2>2, <2>3 DEF AllServed, Served
<1>8. CASE \E c \in Ops \cup {"session"} : CloseBegins(c)
  <2>1. closer'.by # "none"
    BY <1>8, OpsAssumption DEF CloseBegins
  <2> QED
    BY <1>4, <2>1
<1>9. CASE \E q \in asked, bad, withId \in BOOLEAN : TvAnswers(q, bad, withId)
  BY <1>4, <1>9 DEF TvAnswers
<1>10. CASE ReceiverEnds \/ Open
  BY <1>4, <1>10 DEF ReceiverEnds, Open
<1>11. CASE \/ \E o \in Ops : CancelledByCaller(o)
            \/ SessionCloses \/ SessionCloseExpires \/ UNCHANGED vars
  BY <1>6, <1>11 DEF CancelledByCaller, SessionCloses, SessionCloseExpires, opVars, linkVars,
     closeVars, vars
<1> QED
  <2>1. \/ \E o \in Ops : Start(o)
        \/ \E o \in Ops : CancelledByCaller(o)
        \/ \E o \in Ops : Shape(o)
        \/ \E c \in Ops \cup {"session"} : CloseBegins(c)
        \/ \E q \in asked, bad, withId \in BOOLEAN : TvAnswers(q, bad, withId)
        \/ ReceiverEnds \/ ReceiverFinished \/ Open
        \/ TransfersDrained \/ ReceiverDrained \/ SessionClosed
        \/ SessionCloses \/ SessionCloseExpires \/ UNCHANGED vars
    BY StepCases DEF NextCases, CloseStep
  <2> QED
    BY <1>2, <1>3, <1>5, <1>7, <1>8, <1>9, <1>10, <1>11, <2>1

LEMMA ServedInvariant == Spec => [](TypeOK /\ LinkInv /\ TableInv /\ AllServed)
<1>1. Init => AllServed
  BY DEF Init, AllServed, Served
<1> QED
  BY <1>1, ServedStep, TableInvariant, PTL DEF Spec

(* A waiter belongs to the operation that holds the lock, and whoever waits *)
(* has a receiver or a close that will end its wait.                        *)
THEOREM NobodyWaitsInVain == Spec => []WaitersServed
<1>1. TypeOK /\ LinkInv /\ TableInv /\ AllServed => WaitersServed
  BY DEF LinkInv, CloserPlaced, TableInv, Table, Futures, Future, AllServed, Served, WaitersServed
<1> QED
  BY <1>1, ServedInvariant, PTL

-----------------------------------------------------------------------------
(* One connection for each operation.                                      *)

LEMMA ShapeConnection ==
  ASSUME TypeOK, TableInv, OneConnectionEach, NEW o \in Ops, Shape(o), kind' = kind
  PROVE  OneConnectionEach'
<1> USE DEF OneConnectionEach
<1>1. Live' \subseteq Live /\ opened' = opened
  BY ShapeLive, ShapeLink
<1>2. ASSUME NEW p \in Ops, on'[p] = on[p], at'[p] = at[p]
      PROVE  /\ at'[p] \in {"waiting", "closing"} => on'[p] = opened'
             /\ p \in Live' => on'[p] = opened'
  BY <1>1, <1>2
<1>3. ASSUME NEW where \in Ats, at' = [at EXCEPT ![o] = where],
             on' = on \/ on' = [on EXCEPT ![o] = IF o \in Transfers THEN @ ELSE opened],
             (where \in {"waiting", "closing"} => on'[o] = opened)
      PROVE  OneConnectionEach'
  <2>1. \A p \in Ops : p # o => on'[p] = on[p] /\ at'[p] = at[p]
    BY <1>3 DEF TypeOK
  <2>2. at'[o] = where
    BY <1>3 DEF TypeOK
  <2>3. o \in Live => on'[o] = opened
    BY <1>3 DEF Live, TypeOK
  <2> QED
    BY <1>1, <1>2, <1>3, <2>1, <2>2, <2>3
<1>4. CASE Leaves(o)
  BY <1>3, <1>4 DEF Leaves, Ends, Goes, Ats
<1>5. CASE Asking(o)
  <2>1. at' = [at EXCEPT ![o] = "waiting"]
    BY <1>5 DEF Asking, Asks, Goes
  <2>2. CASE at[o] = "queued" /\ on' = [on EXCEPT ![o] = IF o \in Transfers THEN @ ELSE opened]
    <3>1. o \in Transfers => on[o] = opened
      BY <2>2 DEF Live
    <3>2. on'[o] = opened
      BY <2>2, <3>1 DEF TypeOK
    <3> QED
      BY <1>3, <2>1, <2>2, <3>2 DEF Ats
  <2>3. CASE at[o] = "waiting" /\ on' = on
    BY <1>3, <2>1, <2>3 DEF Ats
  <2> QED
    BY <1>5, <2>2, <2>3 DEF Asking
<1>6. CASE Streaming(o)
  BY <1>3, <1>6 DEF Streaming, StreamsUp, StreamsDown, Streams, Goes, Ats
<1>7. CASE Streamed(o)
  <2>1. on[o] = opened
    BY <1>7 DEF Streamed, Live, Transfers
  <2> QED
    BY <1>3, <1>7, <2>1 DEF Streamed, Goes, Ats
<1>8. CASE Closes(o)
  <2>1. on[o] = opened
    BY <1>8 DEF Closes, Live, Transfers, TableInv, Holders, Holding
  <2> QED
    BY <1>3, <1>8, <2>1 DEF Closes, ClosesIn, Goes, Ats
<1>9. CASE ClosesAgain(o)
  BY <1>1, <1>2, <1>9 DEF ClosesAgain
<1> QED
  BY <1>4, <1>5, <1>6, <1>7, <1>8, <1>9 DEF Shape

LEMMA OpenConnection ==
  ASSUME TypeOK, LinkInv, AllServed, Open, kind' = kind
  PROVE  OneConnectionEach'
<1>1. receiver = "none" /\ closer.by = "none" /\ Live = {}
  BY DEF Open, HasLiveChildren, NoCloser
<1>2. \A o \in Ops : at[o] \notin {"waiting", "closing"}
  BY <1>1 DEF Open, WakeUpsServed, AllServed, Served
<1>3. at' = at /\ Live' = {}
  BY <1>1 DEF Open, opVars, Live, Transfers
<1> QED
  BY <1>2, <1>3 DEF OneConnectionEach

LEMMA ConnectionStep ==
  TypeOK /\ LinkInv /\ TableInv /\ AllServed /\ OneConnectionEach /\ [Next]_vars => OneConnectionEach'
<1> SUFFICES ASSUME TypeOK, LinkInv, TableInv, AllServed, OneConnectionEach, [Next]_vars
             PROVE  OneConnectionEach'
  OBVIOUS
<1>1. kind' = kind
  BY StepCases DEF vars
<1>2. CASE \E o \in Ops : Shape(o)
  BY <1>1, <1>2, ShapeConnection
<1>3. CASE Open
  BY <1>1, <1>3, OpenConnection
<1>4. CASE \E o \in Ops : Start(o)
  <2>1. PICK o \in Ops : Start(o)
    BY <1>4
  <2>2. /\ at[o] = "idle" /\ at' = [at EXCEPT ![o] = IF MayStart(o) THEN "queued" ELSE "ended"]
        /\ on' = [on EXCEPT ![o] = opened] /\ opened' = opened
    BY <2>1 DEF Start, Goes, Unlinked
  <2>3. ASSUME NEW p \in Ops
        PROVE  /\ at'[p] \in {"waiting", "closing"} => on'[p] = opened'
               /\ p \in Live' => on'[p] = opened'
    BY <1>1, <2>2 DEF OneConnectionEach, Live, Transfers, TypeOK
  <2> QED
    BY <2>3 DEF OneConnectionEach
<1>5. CASE UNCHANGED <<at, on, opened>>
  BY <1>1, <1>5 DEF OneConnectionEach, Live, Transfers
<1>6. \/ \E o \in Ops : Shape(o)
      \/ Open
      \/ \E o \in Ops : Start(o)
      \/ UNCHANGED <<at, on, opened>>
  BY StepCases DEF NextCases, CancelledByCaller, CloseBegins, TvAnswers, ReceiverEnds,
     ReceiverFinished, CloseStep, TransfersDrained, ReceiverDrained, SessionClosed,
     SessionCloses, SessionCloseExpires, opVars, linkVars, vars
<1> QED
  BY <1>2, <1>3, <1>4, <1>5, <1>6

(* No connection is opened over an operation of an earlier one: not while a *)
(* transfer streams, nor before the last close of an operation.             *)
THEOREM OneConnectionAtATime == Spec => []OneConnectionEach
<1>1. Init => OneConnectionEach
  BY DEF Init, OneConnectionEach, Live, Transfers
<1> QED
  BY <1>1, ConnectionStep, ServedInvariant, PTL DEF Spec

(* A close of the session's that reports success has left no transfer,     *)
(* receiver, socket or waiter behind.                                      *)
THEOREM CloseIsComplete == Spec => CloseLeavesNothing
<1> DEFINE Complete ==
      session = "closing" /\ closer.by = "session" /\ session' = "idle" /\ ~closer.alive =>
        Live' = {} /\ receiver' = "none" /\ conn' = 0 /\ pending' = {}
<1>1. TypeOK /\ LinkInv /\ [Next]_vars => Complete
  <2> SUFFICES ASSUME TypeOK, LinkInv, [Next]_vars,
                      session = "closing", closer.by = "session", session' = "idle", ~closer.alive
               PROVE  Live' = {} /\ receiver' = "none" /\ conn' = 0 /\ pending' = {}
    OBVIOUS
  <2>0. "session" \notin Ops
    BY OpsAssumption
  <2>1. SessionClosed
    <3>1. CASE \E o \in Ops : Shape(o)
      BY <2>0, <3>1 DEF Shape, Leaves, Asking, Streaming, Streamed, Closes, ClosesAgain,
         Unlinked, closeVars
    <3>2. CASE ~\E o \in Ops : Shape(o)
      BY <3>2, StepCases DEF NextCases, Start, CancelledByCaller, CloseBegins, TvAnswers,
         ReceiverEnds, ReceiverFinished, Open, CloseStep, TransfersDrained, ReceiverDrained,
         SessionCloses, SessionCloseExpires, Unlinked, closeVars, vars
    <3> QED
      BY <3>1, <3>2
  <2>2. Live = {} /\ receiver = "none" /\ conn = 0
    BY <2>1 DEF SessionClosed, LinkInv, Drained, ClosePhases, ConnHeard
  <2>3. kind' = kind
    BY StepCases DEF vars
  <2> QED
    BY <2>1, <2>2, <2>3 DEF SessionClosed, FailPending, linkVars, Live, Transfers
<1> QED
  BY <1>1, LinkInvariant, PTL DEF Spec, CloseLeavesNothing

-----------------------------------------------------------------------------
(* Whose answer ends whom.                                                 *)

CancelledAbandoned == \A o \in Ops : cancelled[o] => o \in abandoned

\* What the TV may still answer, while somebody listens: a request that is
\* awaited, one whose operation is closing the socket, or one of an
\* operation that AnswerIsOwn allows for.
Awaited(q) ==
  \/ waiter[q[1]] = "pending" /\ leg[q[1]] = q[2]
  \/ at[q[1]] = "closing"
  \/ q[1] \in GivenUp
  \/ ~(heard[q[1]] \subseteq {q[1]})
AskedInv == receiver = "running" => \A q \in asked : Awaited(q)

LEMMA HistoryGrows ==
  ASSUME TypeOK, Next
  PROVE  GivenUp \subseteq GivenUp' /\ \A o \in Ops : heard[o] \subseteq heard'[o]
<1>1. kind' = kind
  BY StepCases
<1>2. abandoned \subseteq abandoned' /\ \A o \in Ops : heard[o] \subseteq heard'[o]
  <2>1. CASE \E o \in Ops : Shape(o)
    BY <2>1 DEF Shape, Leaves, Ends, Asking, Asks, Streaming, StreamsUp, StreamsDown, Streams,
       Streamed, Closes, ClosesIn, ClosesAgain, Unlinked
  <2>2. CASE \E q \in asked, bad, withId \in BOOLEAN : TvAnswers(q, bad, withId)
    <3>1. PICK q \in asked, bad \in BOOLEAN, withId \in BOOLEAN : TvAnswers(q, bad, withId)
      BY <2>2
    <3>2. \A o \in Ops : heard[o] \subseteq heard'[o]
      BY <3>1, TvResolves
    <3>3. abandoned' = abandoned
      BY <3>1 DEF TvAnswers
    <3> QED
      BY <3>2, <3>3
  <2>3. CASE heard' = heard /\ abandoned \subseteq abandoned'
    BY <2>3
  <2>4. \/ \E o \in Ops : Shape(o)
        \/ \E q \in asked, bad, withId \in BOOLEAN : TvAnswers(q, bad, withId)
        \/ heard' = heard /\ abandoned \subseteq abandoned'
    BY StepCases DEF NextCases, Start, CancelledByCaller, CloseBegins, ReceiverEnds,
       ReceiverFinished, Open, CloseStep, TransfersDrained, ReceiverDrained, SessionClosed,
       SessionCloses, SessionCloseExpires, Unlinked, opVars
  <2> QED
    BY <2>1, <2>2, <2>3, <2>4
<1> QED
  BY <1>1, <1>2 DEF GivenUp

LEMMA CancelledStep == TypeOK /\ CancelledAbandoned /\ [Next]_vars => CancelledAbandoned'
<1> SUFFICES ASSUME TypeOK, CancelledAbandoned, [Next]_vars PROVE CancelledAbandoned'
  OBVIOUS
<1> USE DEF CancelledAbandoned
<1>1. CASE \E o \in Ops : Shape(o)
  <2>1. PICK o \in Ops : Shape(o)
    BY <1>1
  <2>2. abandoned \subseteq abandoned'
    BY <2>1 DEF Shape, Leaves, Asking, Streaming, Streamed, Closes, ClosesAgain, Unlinked
  <2>3. cancelled' = cancelled \/ cancelled' = [cancelled EXCEPT ![o] = FALSE]
    BY <2>1 DEF Shape, Leaves, Ends, Asking, Asks, Streaming, StreamsUp, StreamsDown, Streams,
       Streamed, Closes, ClosesIn, ClosesAgain
  <2>4. ASSUME NEW p \in Ops, cancelled'[p] PROVE cancelled[p]
    BY <2>3, <2>4 DEF TypeOK
  <2> QED
    BY <2>2, <2>4
<1>2. CASE \E o \in Ops : CancelledByCaller(o)
  BY <1>2 DEF CancelledByCaller, TypeOK
<1>3. CASE \E c \in Ops \cup {"session"} : CloseBegins(c)
  BY <1>3 DEF CloseBegins, TypeOK
<1>4. CASE UNCHANGED <<cancelled, abandoned>>
  BY <1>4
<1>5. \/ \E o \in Ops : Shape(o)
      \/ \E o \in Ops : CancelledByCaller(o)
      \/ \E c \in Ops \cup {"session"} : CloseBegins(c)
      \/ UNCHANGED <<cancelled, abandoned>>
  BY StepCases DEF NextCases, Start, TvAnswers, ReceiverEnds, ReceiverFinished, Open, CloseStep,
     TransfersDrained, ReceiverDrained, SessionClosed, SessionCloses, SessionCloseExpires,
     Unlinked, vars
<1> QED
  BY <1>1, <1>2, <1>3, <1>4, <1>5

LEMMA ShapeAsked ==
  ASSUME TypeOK, LinkInv, TableInv, CancelledAbandoned, AskedInv, Next, NEW o \in Ops, Shape(o)
  PROVE  AskedInv'
<1> SUFFICES ASSUME receiver' = "running", NEW q \in asked' PROVE Awaited(q)'
  BY DEF AskedInv
<1>1. conn # 0 /\ receiver = "running" /\ closer' = closer /\ closer.phase # "socket"
  BY ShapeLink DEF LinkInv, ConnHeard, ClosePhases
<1>2. /\ GivenUp \subseteq GivenUp' /\ \A p \in Ops : heard[p] \subseteq heard'[p]
      /\ kind' = kind
  BY HistoryGrows, StepCases
<1>3. \A e \in asked : e[1] \in Ops
  BY DEF TypeOK, Entries
\* What is no longer awaited is allowed for.
<1>4. ASSUME q \in asked, q[1] = o, ~(waiter[o] = "pending" /\ leg[o] = q[2]),
             at[o] # "closing" \/ o \in GivenUp'
      PROVE  Awaited(q)'
  BY <1>1, <1>2, <1>3, <1>4 DEF AskedInv, Awaited
<1>5. CASE q \in asked /\ q[1] # o
  <2>1. Awaited(q) /\ q[1] \in Ops
    BY <1>1, <1>3, <1>5 DEF AskedInv
  <2>2. \A p \in Ops \ {o} : waiter'[p] = waiter[p] /\ leg'[p] = leg[p] /\ at'[p] = at[p]
    BY <1>1 DEF Shape, Leaves, Ends, Asking, Asks, Streaming, StreamsUp, StreamsDown, Streams,
       Registers, Streamed, Closes, ClosesIn, ClosesAgain, Goes, TypeOK
  <2> QED
    BY <1>2, <1>5, <2>1, <2>2 DEF Awaited
<1>6. CASE q \notin asked \/ q[1] = o
  <2>1. CASE Leaves(o)
    <3>1. asked' = asked
      BY <2>1 DEF Leaves, linkVars
    <3>2. o \in GivenUp' \/ (waiter[o] # "pending" /\ at[o] # "closing")
      <4>1. CASE cancelled[o] \/ o \in GivenUp'
        BY <1>2, <4>1 DEF CancelledAbandoned, GivenUp
      <4>2. CASE at[o] = "queued" \/ (at[o] = "waiting" /\ waiter[o] # "pending")
                 \/ (at[o] = "streaming" /\ kind[o] # "upload")
        BY <4>2 DEF TableInv, Futures, Future
      <4> QED
        BY <1>1, <2>1, <4>1, <4>2 DEF Leaves
    <3>3. CASE o \in GivenUp'
      BY <1>6, <3>1, <3>3 DEF Awaited
    <3>4. CASE waiter[o] # "pending" /\ at[o] # "closing"
      BY <1>4, <1>6, <3>1, <3>4
    <3> QED
      BY <3>2, <3>3, <3>4
  <2>2. CASE Asking(o)
    <3>1. PICK l \in Legs : Asks(o, l)
      BY <2>2 DEF Asking
    <3>2. /\ asked' \subseteq asked \cup {<<o, l>>}
          /\ leg' = [leg EXCEPT ![o] = l] /\ waiter' = [waiter EXCEPT ![o] = "pending"]
      BY <3>1 DEF Asks, Registers
    <3>3. waiter[o] # "pending" /\ at[o] # "closing"
      BY <2>2 DEF Asking, TableInv, Futures, Future
    <3>4. CASE q = <<o, l>>
      BY <3>2, <3>4 DEF Awaited, TypeOK
    <3>5. CASE q # <<o, l>>
      BY <1>4, <1>6, <3>2, <3>3, <3>5
    <3> QED
      BY <3>4, <3>5
  <2>3. CASE Streaming(o)
    <3>1. waiter[o] # "pending" /\ at[o] # "closing"
      BY <2>3 DEF Streaming
    <3>2. CASE StreamsUp(o)
      <4>1. /\ asked' \subseteq asked \cup {<<o, "added">>}
            /\ leg' = [leg EXCEPT ![o] = "added"] /\ waiter' = [waiter EXCEPT ![o] = "pending"]
        BY <3>2 DEF StreamsUp, Registers
      <4>2. CASE q = <<o, "added">>
        BY <4>1, <4>2 DEF Awaited, TypeOK
      <4>3. CASE q # <<o, "added">>
        BY <1>4, <1>6, <3>1, <4>1, <4>3
      <4> QED
        BY <4>2, <4>3
    <3>3. CASE StreamsDown(o)
      BY <1>4, <1>6, <3>1, <3>3 DEF StreamsDown
    <3> QED
      BY <2>3, <3>2, <3>3 DEF Streaming
  <2>4. CASE Streamed(o)
    <3>1. asked' = asked /\ leg' = leg /\ waiter' = waiter /\ at[o] # "closing"
      BY <2>4 DEF Streamed
    <3>2. CASE waiter[o] = "pending" /\ leg[o] = q[2]
      BY <1>6, <3>1, <3>2 DEF Awaited
    <3> QED
      BY <1>4, <1>6, <3>1, <3>2
  <2>5. CASE Closes(o)
    <3>1. asked' = asked /\ at'[o] = "closing"
      BY <2>5 DEF Closes, ClosesIn, Goes, TypeOK
    <3> QED
      BY <1>6, <3>1 DEF Awaited
  <2>6. CASE ClosesAgain(o)
    BY <1>1, <2>6 DEF ClosesAgain
  <2> QED
    BY <2>1, <2>2, <2>3, <2>4, <2>5, <2>6 DEF Shape
<1> QED
  BY <1>5, <1>6

LEMMA TvAsked ==
  ASSUME TypeOK, AskedInv, Next, NEW r \in asked, NEW bad \in BOOLEAN, NEW withId \in BOOLEAN,
         TvAnswers(r, bad, withId)
  PROVE  AskedInv'
<1> SUFFICES ASSUME receiver' = "running", NEW q \in asked' PROVE Awaited(q)'
  BY DEF AskedInv
<1>1. receiver = "running" /\ UNCHANGED <<at, leg>> /\ asked' = asked \ {r}
  BY TvResolves DEF TvAnswers
<1>2. GivenUp \subseteq GivenUp' /\ \A p \in Ops : heard[p] \subseteq heard'[p]
  BY HistoryGrows
<1>3. q \in Entries /\ r \in Entries
  BY <1>1 DEF TypeOK
<1>4. q[1] \in Ops /\ (q[1] = r[1] /\ q[2] = r[2] => q = r)
  BY <1>3 DEF Entries
<1>5. Awaited(q) /\ Awaited(r) /\ q # r
  BY <1>1 DEF AskedInv
<1>6. CASE waiter'[q[1]] = waiter[q[1]]
  BY <1>1, <1>2, <1>4, <1>5, <1>6 DEF Awaited
<1>7. CASE waiter'[q[1]] # waiter[q[1]]
  <2>1. r[1] \in heard'[q[1]]
    BY <1>4, <1>7, TvResolves
  <2>2. CASE r[1] # q[1]
    BY <2>1, <2>2 DEF Awaited
  <2>3. CASE r[1] = q[1]
    BY <1>1, <1>2, <1>4, <1>5, <2>3 DEF Awaited
  <2> QED
    BY <2>2, <2>3
<1> QED
  BY <1>6, <1>7

LEMMA AskedStep ==
  TypeOK /\ LinkInv /\ TableInv /\ CancelledAbandoned /\ AskedInv /\ [Next]_vars => AskedInv'
<1> SUFFICES ASSUME TypeOK, LinkInv, TableInv, CancelledAbandoned, AskedInv, [Next]_vars
             PROVE  AskedInv'
  OBVIOUS
<1>1. CASE UNCHANGED vars
  BY <1>1 DEF vars, opVars, linkVars, AskedInv, Awaited, GivenUp
<1>2. CASE Next /\ \E o \in Ops : Shape(o)
  BY <1>2, ShapeAsked
<1>3. CASE Next /\ \E q \in asked, bad, withId \in BOOLEAN : TvAnswers(q, bad, withId)
  BY <1>3, TvAsked
<1>4. CASE receiver' # "running" \/ asked' = {}
  BY <1>4 DEF AskedInv
<1>5. CASE /\ Next /\ UNCHANGED <<leg, waiter, heard, asked, receiver>>
           /\ \A p \in Ops : at[p] = "closing" => at'[p] = "closing"
  <2>1. \A e \in asked : e[1] \in Ops
    BY DEF TypeOK, Entries
  <2> QED
    BY <1>5, <2>1, HistoryGrows DEF AskedInv, Awaited
<1>6. CASE SessionClosed
  BY <1>4, <1>6 DEF SessionClosed, LinkInv, ClosePhases, linkVars
<1>7. CASE Next /\ \E o \in Ops : Start(o) \/ CancelledByCaller(o)
  BY <1>5, <1>7 DEF Start, CancelledByCaller, Unlinked, Goes, opVars, linkVars, TypeOK
<1>8. CASE Next /\ ((\E c \in Ops \cup {"session"} : CloseBegins(c)) \/ SessionCloses \/ SessionCloseExpires)
  BY <1>5, <1>8 DEF CloseBegins, SessionCloses, SessionCloseExpires, opVars, linkVars
<1>9. CASE ReceiverEnds \/ ReceiverFinished \/ Open \/ TransfersDrained \/ ReceiverDrained
  BY <1>4, <1>9 DEF ReceiverEnds, ReceiverFinished, Open, TransfersDrained, ReceiverDrained
<1> QED
  BY <1>1, <1>2, <1>3, <1>6, <1>7, <1>8, <1>9, StepCases DEF NextCases, CloseStep

\* An answer that is taken by another operation than its own.
LEMMA Mistaken ==
  ASSUME TypeOK, TableInv, AskedInv, NEW r \in asked, NEW bad \in BOOLEAN, NEW withId \in BOOLEAN,
         TvAnswers(r, bad, withId), NEW o \in Ops, NEW e \in Addressee(r, bad, withId), e[1] = o,
         r[1] # o
  PROVE  r[1] \in GivenUp \/ ~(heard[r[1]] \subseteq {r[1]})
<1>1. e = uuidless /\ e # None
  BY DEF Addressee
<1>2. lock = o
  BY <1>1 DEF TableInv, Table
<1>3. r[1] \in Ops /\ Awaited(r)
  BY DEF TypeOK, Entries, TvAnswers, AskedInv
<1>4. waiter[r[1]] # "pending" /\ at[r[1]] # "closing"
  BY <1>2, <1>3 DEF TableInv, Holders, Holding, Futures, Future
<1> QED
  BY <1>3, <1>4 DEF Awaited

LEMMA OwnStep ==
  TypeOK /\ TableInv /\ AskedInv /\ AnswerIsOwn /\ [Next]_vars => AnswerIsOwn'
<1> SUFFICES ASSUME TypeOK, TableInv, AskedInv, AnswerIsOwn, [Next]_vars,
                    NEW o \in Ops, NEW p \in heard'[o] \ {o}
             PROVE  p \in GivenUp' \/ ~(heard'[p] \subseteq {p})
  BY DEF AnswerIsOwn
<1>1. CASE UNCHANGED vars
  BY <1>1 DEF vars, opVars, GivenUp, AnswerIsOwn
<1>2. CASE Next
  <2>1. GivenUp \subseteq GivenUp' /\ \A x \in Ops : heard[x] \subseteq heard'[x]
    BY <1>2, HistoryGrows
  <2>2. ASSUME p \in Ops, p \in GivenUp \/ ~(heard[p] \subseteq {p})
        PROVE  p \in GivenUp' \/ ~(heard'[p] \subseteq {p})
    BY <2>1, <2>2
  <2>3. CASE p \in heard[o]
    BY <2>2, <2>3 DEF AnswerIsOwn, TypeOK
  <2>4. CASE p \notin heard[o]
    <3>1. \E q \in asked, bad, withId \in BOOLEAN : TvAnswers(q, bad, withId)
      <4>1. heard' # heard
        BY <2>4
      <4> QED
        BY <1>2, <4>1, StepCases DEF NextCases, Start, CancelledByCaller, CloseBegins,
           ReceiverEnds, ReceiverFinished, Open, CloseStep, TransfersDrained, ReceiverDrained,
           SessionClosed, SessionCloses, SessionCloseExpires, opVars, Shape, Leaves, Ends, Asking,
           Asks, Streaming, StreamsUp, StreamsDown, Streams, Streamed, Closes, ClosesIn,
           ClosesAgain
    <3>2. PICK r \in asked, bad \in BOOLEAN, withId \in BOOLEAN : TvAnswers(r, bad, withId)
      BY <3>1
    <3>3. p = r[1] /\ \E e \in Addressee(r, bad, withId) : e[1] = o
      BY <2>4, <3>2, TvResolves
    <3>4. p \in Ops
      BY <3>3 DEF TypeOK, Entries
    <3> QED
      BY <2>2, <3>2, <3>3, <3>4, Mistaken
  <2> QED
    BY <2>3, <2>4
<1> QED
  BY <1>1, <1>2

(* An answer is taken by the operation that asked for it, or its own one    *)
(* was given up on an open socket or was ended by somebody else's answer.   *)
THEOREM AnswersAreOwn == Spec => []AnswerIsOwn
<1>1. Init => CancelledAbandoned /\ AskedInv /\ AnswerIsOwn
  BY DEF Init, CancelledAbandoned, AskedInv, AnswerIsOwn
<1> QED
  BY <1>1, CancelledStep, AskedStep, OwnStep, TableInvariant, PTL DEF Spec
=============================================================================
