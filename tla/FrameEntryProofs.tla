-------------------------- MODULE FrameEntryProofs --------------------------
(***************************************************************************)
(* Theorems about FrameEntry and Pairing, for every number of TVs, set-ups *)
(* and cancellations: types, the one active device of an entry, admission  *)
(* within the callbacks, a pairing that leaves no websocket, and an unload *)
(* that reports only what has been stopped.                                *)
(***************************************************************************)
EXTENDS FrameEntry, TLAPS

-----------------------------------------------------------------------------
(* The pairing.                                                            *)

Sockets == {"none", "opening", "handshake", "discarding", "open", "closing"}
Opening == {"opening", "handshake", "discarding"}

(* Which websockets may exist where: at most the one being opened, beside  *)
(* the open remote while the Art one is tried; and whatever the cleanup    *)
(* has still to do is marked as running.                                   *)
PairingInv ==
  /\ flow \in {"idle", "rest", "ssl", "remote", "art", "cleanup", "returned"}
  /\ outcome \in {"none", "ok", "failed", "cancelled"}
  /\ tv \in Tvs \cup {NoTv}
  /\ temp \in [Clients -> Sockets]
  /\ cleanup \in [Clients -> {"none", "running", "done"}]
  /\ flow \in {"idle", "rest", "ssl", "returned"} =>
       temp["remote"] = "none" /\ temp["art"] = "none"
  /\ flow = "remote" => temp["remote"] \in Opening /\ temp["art"] = "none"
  /\ flow = "art" => temp["remote"] = "open" /\ temp["art"] \in Opening
  /\ flow # "cleanup" => \A c \in Clients : cleanup[c] = "none"
  /\ flow = "cleanup" =>
       /\ \A c \in Clients : temp[c] \in {"none", "open", "closing"}
       /\ \A c \in Clients : cleanup[c] # "running" => temp[c] = "none"

(* What the entry leaves of the pairing: a result taken, or a form shown.  *)
PairingStep ==
  \/ Progress \/ Cancelled \/ Submit
  \/ /\ flow = "returned" /\ flow' = "idle" /\ outcome' = "none" /\ tv' = NoTv
     /\ UNCHANGED <<temp, cleanup>>

LEMMA ClientsTwo == Clients = {"remote", "art"} /\ "remote" \in Clients /\ "art" \in Clients
BY DEF Clients

LEMMA LeavesKeeps ==
  ASSUME PairingInv, NEW result \in {"ok", "failed", "cancelled"}, Leaves(result),
         flow \in {"rest", "ssl"}
  PROVE  PairingInv'
BY DEF PairingInv, Leaves

LEMMA CleansUpKeeps ==
  ASSUME PairingInv, NEW result \in {"none", "ok", "failed", "cancelled"},
         NEW sockets \in [Clients -> Sockets], CleansUp(result, sockets),
         \A c \in Clients : sockets[c] \in {"none", "open", "closing"},
         flow # "art" => sockets["art"] = "none"
  PROVE  PairingInv'
<1>1. cleanup' \in [Clients -> {"none", "running", "done"}]
  BY DEF CleansUp
<1>2. \A c \in Clients : cleanup'[c] # "running" => temp'[c] = "none"
  BY DEF CleansUp
<1> QED
  BY <1>1, <1>2 DEF CleansUp, PairingInv

LEMMA PairingKept ==
  ASSUME PairingInv, PairingStep
  PROVE  PairingInv'
<1> USE ClientsTwo
<1>1. CASE Submit \/ RestAnswers
  BY <1>1 DEF PairingInv, Submit, RestAnswers
<1>2. CASE RestRefuses \/ CancelledBeforeSockets
  BY <1>2, LeavesKeeps DEF RestRefuses, CancelledBeforeSockets
<1>3. CASE SslReady
  BY <1>3 DEF PairingInv, SslReady, Sockets, Opening
<1>4. CASE \E c \in Clients : Connects(c)
  BY <1>4 DEF PairingInv, Connects, Sockets, Opening
<1>5. CASE RemoteAllowed
  <2>1. temp' = [c \in Clients |-> IF c = "remote" THEN "open" ELSE "opening"]
    BY <1>5 DEF RemoteAllowed, Clients
  <2> QED
    BY <1>5, <2>1 DEF PairingInv, RemoteAllowed, Sockets, Opening
<1>6. CASE \E c \in Clients : ConnectFails(c) \/ CancelledConnecting(c)
  <2> PICK c \in Clients : ConnectFails(c) \/ CancelledConnecting(c)
    BY <1>6
  <2> DEFINE sockets == [temp EXCEPT ![c] = "none"]
  <2>1. /\ sockets \in [Clients -> Sockets]
        /\ \A k \in Clients : sockets[k] \in {"none", "open", "closing"}
        /\ flow # "art" => sockets["art"] = "none"
    BY DEF PairingInv, ConnectFails, CancelledConnecting, Sockets, Opening
  <2>2. CleansUp("failed", sockets) \/ CleansUp("cancelled", sockets)
    BY DEF ConnectFails, CancelledConnecting
  <2> QED
    BY <2>1, <2>2, CleansUpKeeps
<1>7. CASE \E c \in Clients : Discarded(c) \/ CancelledDiscarding(c)
  <2> PICK c \in Clients : Discarded(c) \/ CancelledDiscarding(c)
    BY <1>7
  <2> DEFINE sockets == [temp EXCEPT ![c] = "none"]
  <2>1. temp[c] = "discarding"
    BY DEF Discarded, CancelledDiscarding
  <2>2. /\ sockets \in [Clients -> Sockets]
        /\ \A k \in Clients : sockets[k] \in {"none", "open", "closing"}
        /\ flow # "art" => sockets["art"] = "none"
    BY <2>1 DEF PairingInv, Sockets, Opening
  <2>3. CASE CleansUp(outcome, sockets) \/ CleansUp("cancelled", sockets)
    BY <2>2, <2>3, CleansUpKeeps DEF PairingInv
  <2>4. CASE outcome' = "cancelled" /\ UNCHANGED <<flow, tv, temp, cleanup>>
    BY <2>4 DEF PairingInv
  <2> QED
    BY <2>3, <2>4 DEF Discarded, CancelledDiscarding
<1>8. CASE RemoteWithoutToken \/ ArtReady
  <2> PICK c \in Clients : /\ temp[c] = "handshake"
                           /\ \/ CleansUp("failed", [temp EXCEPT ![c] = "open"]) /\ c = "remote"
                              \/ CleansUp("ok", [temp EXCEPT ![c] = "open"]) /\ c = "art"
    BY <1>8 DEF RemoteWithoutToken, ArtReady
  <2> DEFINE sockets == [temp EXCEPT ![c] = "open"]
  <2>1. /\ sockets \in [Clients -> Sockets]
        /\ \A k \in Clients : sockets[k] \in {"none", "open", "closing"}
        /\ flow # "art" => sockets["art"] = "none"
    BY DEF PairingInv, Sockets, Opening
  <2>2. CleansUp("failed", sockets) \/ CleansUp("ok", sockets)
    OBVIOUS
  <2> QED
    BY <2>1, <2>2, CleansUpKeeps
<1>9. CASE \E c \in Clients : HandshakeFails(c) \/ CancelledHandshake(c)
  BY <1>9 DEF PairingInv, HandshakeFails, CancelledHandshake, Sockets, Opening
<1>10. CASE \E c \in Clients : CleanupStarts(c) \/ Closed(c) \/ CloseFails(c)
  <2> PICK c \in Clients : CleanupStarts(c) \/ Closed(c) \/ CloseFails(c)
    BY <1>10
  <2>1. CASE CleanupStarts(c)
    BY <2>1 DEF PairingInv, CleanupStarts, Sockets, Opening
  <2>2. CASE Closed(c) \/ CloseFails(c)
    BY <2>2 DEF PairingInv, Closed, CloseFails, CleanupDone, Sockets, Opening
  <2> QED
    BY <2>1, <2>2
<1>11. CASE CancelledCleanup
  BY <1>11 DEF PairingInv, CancelledCleanup
<1>12. CASE CleanedUp
  BY <1>12 DEF PairingInv, CleanedUp, CleanupOver
<1>13. CASE /\ flow = "returned" /\ flow' = "idle" /\ outcome' = "none" /\ tv' = NoTv
            /\ UNCHANGED <<temp, cleanup>>
  BY <1>13 DEF PairingInv
<1> QED
  BY <1>1, <1>2, <1>3, <1>4, <1>5, <1>6, <1>7, <1>8, <1>9, <1>10, <1>11, <1>12, <1>13
  DEF PairingStep, Progress, Cancelled

-----------------------------------------------------------------------------
(* The entry and its devices.                                              *)

EntryTypes ==
  /\ data \in [mac : Tvs \cup {NoTv}, token : Tvs \cup {NoTv}]
  /\ phase \in Settled \cup Joining \cup {"preparing", "refreshing",
                 "forwarding", "draining", "unloadingPlatforms"}
  /\ current \in 0..MaxSetups
  /\ accepting \in [Devices -> BOOLEAN] /\ callbacks \in [Devices -> SUBSET Callbacks]
  /\ art \in [Devices -> {"none", "running", "requested", "stopping", "ended"}]
  /\ remote \in [Devices -> {"none", "admitting", "quiescing", "ended"}]
  /\ stopTask \in [Devices -> {"none", "running", "done"}]
  /\ cancels \in 0..MaxCancels

(* Where the device built last has been told to stop, or none has been.    *)
Stopped == {"absent", "unloaded", "preparing", "cleaning", "stopping"}
(* Where it has not.                                                       *)
Unstopped == {"refreshing", "forwarding", "loaded", "draining", "unloadingPlatforms"}

(* None of the callbacks that are withdrawn is set.                        *)
Withdrawn(d) == callbacks[d] \cap Withdrawable = {}

USE DEF Withdrawn, Withdrawable, Callbacks

(* The phase of the entry says how far the current device has come, its    *)
(* stop task how far its stop has; the devices before and after it do not  *)
(* act.                                                                    *)
DeviceInv ==
  /\ phase = "preparing" => current < MaxSetups
  /\ phase \notin {"absent", "unloaded", "preparing"} => current \in Devices
  /\ \A d \in Devices :
       /\ d # current => ~accepting[d] /\ Withdrawn(d) /\ art[d] \notin {"running", "requested"}
       /\ d = current /\ phase \in Stopped =>
            ~accepting[d] /\ Withdrawn(d) /\ art[d] # "running"
       /\ d = current /\ phase \in Unstopped => stopTask[d] = "none"
       /\ d = current /\ phase = "unloadingPlatforms" => Withdrawn(d)
       /\ d = current /\ phase \in {"draining", "unloadingPlatforms"} => remote[d] # "admitting"
       /\ d > current => stopTask[d] = "none"
       /\ stopTask[d] = "done" => art[d] = "ended" /\ remote[d] = "ended"
       /\ accepting[d] /\ remote[d] = "admitting" => {"token", "reauth"} \subseteq callbacks[d]

EntryInv == EntryTypes /\ DeviceInv

LEMMA DevicesNat == MaxSetups \in Nat /\ MaxCancels \in Nat /\ \A d \in Devices : d \in Nat
BY SetupsAssumption DEF Devices

LEMMA EntryHolds == Init => EntryInv
<1> SUFFICES ASSUME Init PROVE EntryInv
  OBVIOUS
<1>1. EntryTypes
  BY DevicesNat, TvsAssumption DEF Init, EntryTypes, Settled
<1>2. DeviceInv
  BY DevicesNat DEF Init, DeviceInv, Unstopped
<1> QED
  BY <1>1, <1>2 DEF EntryInv

LEMMA EntryMoves ==
  ASSUME EntryInv, AsyncSetupEntry \/ Refreshed \/ Forwarded \/ PreparingCancelled
                   \/ JoinReturns \/ CleanupExpires \/ StopJoinCancelled
  PROVE  EntryInv'
<1>1. EntryTypes'
  BY DevicesNat DEF EntryInv, EntryTypes, AsyncSetupEntry, Refreshed, Forwarded, PreparingCancelled,
     JoinReturns, CleanupExpires, StopJoinCancelled, deviceVars, Settled, Joining
<1>2. DeviceInv'
  BY DevicesNat DEF EntryInv, EntryTypes, DeviceInv, AsyncSetupEntry, Refreshed, Forwarded,
     PreparingCancelled, JoinReturns, CleanupExpires, StopJoinCancelled, deviceVars, Stopped,
     Unstopped, Joining
<1> QED
  BY <1>1, <1>2 DEF EntryInv

LEMMA EntryBuilds ==
  ASSUME EntryInv, DeviceBuilt
  PROVE  EntryInv'
<1>1. current + 1 \in Devices /\ current \in Nat
  BY DevicesNat DEF EntryInv, EntryTypes, DeviceInv, DeviceBuilt, Devices
<1>2. EntryTypes'
  BY <1>1, DevicesNat DEF EntryInv, EntryTypes, DeviceBuilt, Devices
<1>3. \A d \in Devices : d # current => ~accepting[d] /\ Withdrawn(d) /\ art[d] \notin {"running", "requested"}
  BY DEF EntryInv, DeviceInv
<1>4. \A d \in Devices : ~accepting[d] /\ Withdrawn(d) /\ art[d] \notin {"running", "requested"}
  BY <1>3 DEF EntryInv, DeviceInv, DeviceBuilt, StopsRequested, Stopped
<1>5. DeviceInv'
  BY <1>1, <1>4, DevicesNat DEF EntryInv, EntryTypes, DeviceInv, DeviceBuilt, Stopped, Unstopped
<1> QED
  BY <1>2, <1>5 DEF EntryInv

LEMMA EntryFailsOrUnloads ==
  ASSUME EntryInv, SetupFails \/ PlatformsUnloaded
  PROVE  EntryInv'
<1>1. current \in Devices
  BY DEF EntryInv, DeviceInv, SetupFails, PlatformsUnloaded
<1>2. EntryTypes'
  <2>1. callbacks' \in [Devices -> SUBSET Callbacks]
    BY <1>1 DEF EntryInv, EntryTypes, SetupFails, PlatformsUnloaded
  <2>2. UNCHANGED <<data, current, cancels>> /\ phase' \in Joining
    BY DEF SetupFails, PlatformsUnloaded, Joining
  <2>3. /\ accepting' \in [Devices -> BOOLEAN]
        /\ art' \in [Devices -> {"none", "running", "requested", "stopping", "ended"}]
        /\ remote' \in [Devices -> {"none", "admitting", "quiescing", "ended"}]
        /\ stopTask' \in [Devices -> {"none", "running", "done"}]
    BY <1>1 DEF EntryInv, EntryTypes, SetupFails, PlatformsUnloaded, StopBegins
  <2> QED
    BY <2>1, <2>2, <2>3 DEF EntryInv, EntryTypes
<1>3. DeviceInv'
  BY <1>1, DevicesNat DEF EntryInv, EntryTypes, DeviceInv, SetupFails, PlatformsUnloaded,
     StopBegins, Stopped, Unstopped
<1> QED
  BY <1>2, <1>3 DEF EntryInv

LEMMA EntryDrains ==
  ASSUME EntryInv, AsyncUnloadEntry \/ Quiesced \/ UnloadRaises \/ PlatformsRefuse
  PROVE  EntryInv'
<1>1. current \in Devices
  BY DEF EntryInv, DeviceInv, AsyncUnloadEntry, Quiesced, UnloadRaises, PlatformsRefuse
<1>2. EntryTypes'
  BY <1>1 DEF EntryInv, EntryTypes, AsyncUnloadEntry, Quiesced, UnloadRaises, PlatformsRefuse,
     RestoresAndResumes, Settled
<1>3. DeviceInv'
  BY <1>1, DevicesNat DEF EntryInv, EntryTypes, DeviceInv, AsyncUnloadEntry, Quiesced,
     UnloadRaises, PlatformsRefuse, RestoresAndResumes, Stopped, Unstopped
<1> QED
  BY <1>2, <1>3 DEF EntryInv

LEMMA EntryStops ==
  ASSUME EntryInv, NEW d \in Devices, StopStep(d) \/ OwnerCancelsStop(d)
  PROVE  EntryInv'
<1>1. EntryTypes'
  BY DevicesNat DEF EntryInv, EntryTypes, StopStep, OwnerCancelsStop, ArtStopStarts, ArtStopEnds,
     RemoteStopEnds, StopTaskEnds, deviceVars
<1>2. DeviceInv'
  BY DevicesNat DEF EntryInv, EntryTypes, DeviceInv, StopStep, OwnerCancelsStop, ArtStopStarts,
     ArtStopEnds, RemoteStopEnds, StopTaskEnds, deviceVars, Stopped, Unstopped
<1> QED
  BY <1>1, <1>2 DEF EntryInv

LEMMA EntryKept ==
  ASSUME EntryInv, EntryNext
  PROVE  EntryInv'
BY EntryMoves, EntryBuilds, EntryFailsOrUnloads, EntryDrains, EntryStops
DEF EntryNext, SetupStep, UnloadStep, JoinStep

(* A flow changes the data of the entry, or makes a new one.               *)
LEMMA FlowKept ==
  ASSUME EntryInv, PairingInv, FlowStarts \/ FlowConcludes \/ FlowCancelled
  PROVE  EntryInv'
<1>1. data' \in [mac : Tvs \cup {NoTv}, token : Tvs \cup {NoTv}]
  BY DEF EntryInv, EntryTypes, PairingInv, FlowStarts, FlowConcludes, FlowCancelled, FlowFails,
     AlreadyConfigured, EntryCreated, UniqueIdMismatch, EntryUpdated, FlowOver
<1>2. UNCHANGED <<current, deviceVars>>
  BY DEF FlowStarts, FlowConcludes, FlowCancelled, FlowFails, AlreadyConfigured, EntryCreated,
     UniqueIdMismatch, EntryUpdated, FlowOver, deviceVars
<1>3. cancels' \in 0..MaxCancels
  BY DevicesNat DEF EntryInv, EntryTypes, FlowStarts, FlowConcludes, FlowCancelled, FlowFails,
     AlreadyConfigured, EntryCreated, UniqueIdMismatch, EntryUpdated, FlowOver
<1>4. phase' = phase \/ (phase = "absent" /\ phase' = "unloaded")
  BY DEF FlowStarts, FlowConcludes, FlowCancelled, FlowFails, AlreadyConfigured, EntryCreated,
     UniqueIdMismatch, EntryUpdated
<1>5. EntryTypes'
  BY <1>1, <1>2, <1>3, <1>4 DEF EntryInv, EntryTypes, deviceVars, Settled
<1>6. DeviceInv'
  BY <1>2, <1>4 DEF EntryInv, DeviceInv, deviceVars, Stopped, Unstopped
<1> QED
  BY <1>5, <1>6 DEF EntryInv

-----------------------------------------------------------------------------
(* The theorems.                                                           *)

IInv == PairingInv /\ EntryInv

LEMMA Invariant == Spec => []IInv
<1>1. Init => IInv
  BY EntryHolds DEF IInv, Init, PairingInit, PairingInv, Sockets, Opening, Clients
<1>2. IInv /\ [Next]_vars => IInv'
  <2> SUFFICES ASSUME IInv, [Next]_vars PROVE IInv'
    OBVIOUS
  <2>1. CASE EntryNext /\ UNCHANGED pairingVars
    BY <2>1, EntryKept DEF IInv, pairingVars, PairingInv
  <2>2. CASE PairingProgress
    <3>1. PairingInv'
      BY <2>2, PairingKept DEF IInv, PairingProgress, PairingStep
    <3>2. EntryInv'
      BY <2>2 DEF IInv, PairingProgress, entryVars, deviceVars, EntryInv, EntryTypes, DeviceInv
    <3> QED
      BY <3>1, <3>2 DEF IInv
  <2>3. CASE FlowStarts \/ FlowConcludes \/ FlowCancelled
    <3>1. PairingStep
      BY <2>3 DEF FlowStarts, FlowConcludes, FlowCancelled, FlowFails, AlreadyConfigured,
         EntryCreated, UniqueIdMismatch, EntryUpdated, FlowOver, PairingStep
    <3> QED
      BY <2>3, <3>1, PairingKept, FlowKept DEF IInv
  <2>4. CASE UNCHANGED vars
    BY <2>4 DEF IInv, vars, pairingVars, entryVars, deviceVars, EntryInv, EntryTypes, DeviceInv,
       PairingInv
  <2> QED
    BY <2>1, <2>2, <2>3, <2>4 DEF Next
<1> QED
  BY <1>1, <1>2, PTL DEF Spec

(* Every variable keeps its type (FrameEntry's TypeOK).                    *)
THEOREM TypeCorrect == Spec => []TypeOK
<1>1. IInv => TypeOK
  BY DEF IInv, PairingInv, EntryInv, EntryTypes, TypeOK, PairingTypeOK, Sockets
<1> QED
  BY <1>1, Invariant, PTL

(* An entry never has two active devices, however many set-ups fail and    *)
(* however long their devices take to stop (__init__.py).                  *)
THEOREM OneDeviceActs == Spec => []OneActiveDevice
<1>1. IInv => OneActiveDevice
  BY DEF IInv, EntryInv, DeviceInv, OneActiveDevice
<1> QED
  BY <1>1, Invariant, PTL

(* Remote operations are admitted only within the life of the callbacks    *)
(* that save their token and ask for pairing (async_unload_entry).         *)
THEOREM AdmittedWithCallbacks == Spec => []AdmissionHasCallbacks
<1>1. IInv => AdmissionHasCallbacks
  BY DEF IInv, EntryInv, DeviceInv, AdmissionHasCallbacks
<1> QED
  BY <1>1, Invariant, PTL

(* A pairing leaves no websocket, wherever it fails, expires or is         *)
(* cancelled, also while it cleans up (validate_and_pair).                 *)
THEOREM PairingsLeaveNothing == Spec => []PairingLeavesNothing
<1>1. IInv => PairingLeavesNothing
  BY DEF IInv, PairingInv, PairingLeavesNothing, Exists, Clients
<1> QED
  BY <1>1, Invariant, PTL
=============================================================================
