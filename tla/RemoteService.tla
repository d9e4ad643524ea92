---------------------------- MODULE RemoteService ----------------------------
(***************************************************************************)
(* What the remote control promises to its callers and to the TV, without  *)
(* its websocket, its locks and its deadlines: operations are carried out  *)
(* one at a time; each sends its commands in their order, may begin them   *)
(* again, and sends none of them more than twice; success means that the   *)
(* last round was sent to its end.  None begins once admission is closed,  *)
(* the entry unloads its platforms only in silence, and a stopped device   *)
(* stays silent.                                                           *)
(***************************************************************************)
EXTENDS Naturals

CONSTANTS Ops, Commands

VARIABLES
  call,   \* "none", "waiting", "working", or how the operation ended
  sent,   \* how often the TV has got each command of each operation
  last,   \* the command of each operation that it got last; 0 before the first
  gate    \* admission: "open", "closing", "silent", "stopped"

serviceVars == <<call, sent, last, gate>>

Becomes(o, what) == call' = [call EXCEPT ![o] = what] /\ UNCHANGED <<sent, last, gate>>
Nobody == \A o \in Ops : call[o] # "working"

Init ==
  /\ call = [o \in Ops |-> "none"]
  /\ sent = [o \in Ops |-> [c \in 1..Commands |-> 0]] /\ last = [o \in Ops |-> 0]
  /\ gate = "open"

Admit(o) == call[o] = "none" /\ gate = "open" /\ Becomes(o, "waiting")
Refuse(o) == call[o] \in {"none", "waiting"} /\ gate # "open" /\ Becomes(o, "failed")
Begin(o) == call[o] = "waiting" /\ gate = "open" /\ Nobody /\ Becomes(o, "working")
\* The next command of this round, or the first one of another round.
Deliver(o, c) ==
  /\ call[o] = "working" /\ gate \in {"open", "closing"}
  /\ c \in {1, last[o] + 1} /\ sent[o][c] < 2
  /\ sent' = [sent EXCEPT ![o][c] = @ + 1]
  /\ last' = [last EXCEPT ![o] = c]
  /\ UNCHANGED <<call, gate>>
Succeed(o) ==
  call[o] = "working" /\ gate = "open" /\ last[o] = Commands /\ Becomes(o, "ok")
Fail(o) == call[o] = "working" /\ Becomes(o, "failed")

\* Admission closes while an operation may be working; a stop follows a silence.
Close == gate \in {"open", "silent"} /\ gate' = "closing" /\ UNCHANGED <<call, sent, last>>
Silence == gate \in {"open", "closing"} /\ Nobody /\ gate' = "silent" /\ UNCHANGED <<call, sent, last>>
Reopen == gate \in {"closing", "silent"} /\ gate' = "open" /\ UNCHANGED <<call, sent, last>>
Stop == gate = "closing" /\ gate' = "stopped" /\ UNCHANGED <<call, sent, last>>

Next ==
  \/ \E o \in Ops : \/ Admit(o) \/ Refuse(o) \/ Begin(o) \/ Succeed(o) \/ Fail(o)
                    \/ \E c \in 1..Commands : Deliver(o, c)
  \/ Close \/ Silence \/ Reopen \/ Stop

Spec == Init /\ [][Next]_serviceVars
=============================================================================
