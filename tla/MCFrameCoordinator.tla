------------------------- MODULE MCFrameCoordinator -------------------------
(***************************************************************************)
(* FrameCoordinator on a small instance: every schedule of the heartbeat   *)
(* alone with lost answers, failed reads and expired polls, and every      *)
(* schedule of the heartbeat and a forced poll without them.  A forced     *)
(* poll and a fault can always be done without, so that no step the        *)
(* fairness needs is left out.                                             *)
(***************************************************************************)
EXTENDS FrameCoordinator

FaultsOrRequests ==
  used.requests = 0 \/ (used.faults = 0 /\ ~confirmed /\ tv \in {"watching", "art"})

MCSpec == Init /\ [][Next /\ FaultsOrRequests']_vars /\ Fairness
=============================================================================
