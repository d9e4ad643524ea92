---------------------------- MODULE MCArtSession ----------------------------
(* ArtSession on a small instance, with the delays of const.py.            *)
EXTENDS ArtSession, TLC

MCRetryDelays == <<30, 60, 120, 300>>
MCHostRetryDelays == <<60, 120, 300>>

(* The schedules without slack, which the runs that refute a claim use: a  *)
(* free lock is taken, and a request whose receiver has ended fails, before*)
(* anything else happens.                                                  *)
Orphaned(o) == o \notin Transfers /\ op[o] = "using" /\ receiver = "none"
PromptNext ==
  IF holder = "free" /\ waiters # << >>
  THEN ConnectAcquire \/ ConnectCancelled \/ CloseAcquire
         \/ \E o \in Ops : OpCloseAcquire(o)
  ELSE IF \E o \in Ops : Orphaned(o)
       THEN \E o \in Ops : Orphaned(o) /\ OpFails(o)
       ELSE Next
PromptSpec == Init /\ [][PromptNext]_vars
=============================================================================
