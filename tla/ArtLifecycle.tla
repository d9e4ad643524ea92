---------------------------- MODULE ArtLifecycle ----------------------------
(***************************************************************************)
(* What the runtime promises of the Art websocket of one config entry: at  *)
(* most one handshake or connection at a time, every connection retired    *)
(* completely before the next handshake, with the transfers that began on  *)
(* it, which begin on a live connection only; and no handshake and no      *)
(* transfer after the final stop.                                          *)
(***************************************************************************)

CONSTANT Users   \* the operations that may transfer

VARIABLES
  link,       \* "down", "opening" (a handshake), "up", "retiring"
  transfers,  \* the transfers under way
  stopped     \* the entry is unloaded

lifecycleVars == <<link, transfers, stopped>>

Init == link = "down" /\ transfers = {} /\ stopped = FALSE

Open == /\ ~stopped /\ link = "down" /\ transfers = {}
        /\ link' = "opening" /\ UNCHANGED <<transfers, stopped>>
\* Those that waited for the connection may begin at once.
Establish == /\ ~stopped /\ link = "opening"
             /\ link' = "up" /\ transfers' \in SUBSET Users /\ UNCHANGED stopped
Abandon == link = "opening" /\ link' = "down" /\ UNCHANGED <<transfers, stopped>>
Begin == /\ ~stopped /\ link = "up"
         /\ transfers \subseteq transfers' /\ transfers' \subseteq Users
         /\ UNCHANGED <<link, stopped>>
End == transfers' \subseteq transfers /\ UNCHANGED <<link, stopped>>
Retire == link = "up" /\ link' = "retiring" /\ UNCHANGED <<transfers, stopped>>
Drained == link = "retiring" /\ link' = "down" /\ UNCHANGED <<transfers, stopped>>
Shut == ~stopped /\ stopped' = TRUE /\ UNCHANGED <<link, transfers>>

Next == Open \/ Establish \/ Abandon \/ Begin \/ End \/ Retire \/ Drained \/ Shut

Spec == Init /\ [][Next]_lifecycleVars
=============================================================================
