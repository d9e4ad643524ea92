----------------------------- MODULE FrameEntry -----------------------------
(***************************************************************************)
(* A config entry through all its set-ups (__init__.py), with the device   *)
(* of each set-up (async_stop of device.py) and the flows that pair it     *)
(* (config_flow.py, module Pairing).  A set-up that fails stops its device *)
(* under a deadline; the device may still be stopping when the next set-up *)
(* builds another one for the same TV.  ArtSession and RemoteControl are    *)
(* the two halves of each device's stop, and show that both end.           *)
(*                                                                         *)
(* Home Assistant serialises set-up, unload and reload of an entry, builds *)
(* the device only after an executor job, and starts the stop task eagerly.*)
(* A definition named after a defect is the faulty variant of the one      *)
(* after it; no action uses it.                                            *)
(***************************************************************************)
EXTENDS Naturals, Pairing

CONSTANTS
  OwnTv,       \* the TV of an entry that exists from the start
  MaxSetups,   \* bound: devices built in the life of the entry
  MaxCancels   \* bound: cancellations of a flow, of the entry, of a stop task

ASSUME TvsAssumption == OwnTv \in Tvs /\ NoTv \notin Tvs
ASSUME SetupsAssumption == MaxSetups \in Nat /\ MaxCancels \in Nat

Devices == 1..MaxSetups

VARIABLES
  data,        \* entry.data: the TV of its MAC, and the TV of its token
  phase,       \* where set-up or unload of the entry stands
  current,     \* the device built last; 0 before the first
  accepting,   \* ~_stopped of each device
  callbacks,   \* the callbacks into its coordinator that are set
  art,         \* async_stop of its Art session
  remote,      \* admission of remote operations, and _async_stop_remote
  stopTask,    \* its _stop_task
  cancels      \* cancellations so far

deviceVars == <<accepting, callbacks, art, remote, stopTask>>
entryVars == <<data, phase, current, deviceVars, cancels>>
vars == <<pairingVars, entryVars>>

\* The Art event callback, which nothing clears, and those that are withdrawn.
Withdrawable == {"sessionState", "token", "reauth"}
Callbacks == {"artEvent"} \cup Withdrawable

Settled == {"absent", "unloaded", "loaded", "failedUnload"}
Joining == {"cleaning", "stopping"}   \* awaits async_stop of the current device

-----------------------------------------------------------------------------
(* Set-up.                                                                 *)

\* Without a token ConfigEntryAuthFailed is raised before there is a device.
AsyncSetupEntry ==
  /\ phase = "unloaded" /\ current < MaxSetups
  /\ data.token # NoTv
  /\ phase' = "preparing"
  /\ UNCHANGED <<data, current, deviceVars, cancels>>

StopsRequested == \E d \in Devices : art[d] = "requested"

DeviceBuilt ==
  /\ phase = "preparing"
  /\ ~StopsRequested     \* the stop of an earlier device began ticks ago
  /\ phase' = "refreshing"
  /\ current' = current + 1
  /\ accepting' = [accepting EXCEPT ![current + 1] = TRUE]
  /\ callbacks' = [callbacks EXCEPT ![current + 1] = Callbacks]
  /\ art' = [art EXCEPT ![current + 1] = "running"]
  /\ remote' = [remote EXCEPT ![current + 1] = "admitting"]
  /\ UNCHANGED <<data, stopTask, cancels>>

Refreshed ==
  /\ phase = "refreshing"
  /\ phase' = "forwarding"
  /\ UNCHANGED <<data, current, deviceVars, cancels>>

Forwarded ==
  /\ phase = "forwarding"
  /\ phase' = "loaded"
  /\ UNCHANGED <<data, current, deviceVars, cancels>>

PreparingCancelled ==
  /\ phase = "preparing"
  /\ phase' = "unloaded"
  /\ UNCHANGED <<data, current, deviceVars, cancels>>

\* async_stop: the flags change with the creation of the task.
StopBegins ==
  /\ accepting' = [accepting EXCEPT ![current] = FALSE]
  /\ art' = [art EXCEPT ![current] = "requested"]
  /\ remote' = [remote EXCEPT ![current] = "quiescing"]
  /\ stopTask' = [stopTask EXCEPT ![current] = "running"]

SetupFailsUnstopped ==
  /\ phase \in {"refreshing", "forwarding"}
  /\ phase' = "unloaded"
  /\ callbacks' = [callbacks EXCEPT ![current] = @ \ Withdrawable]
  /\ UNCHANGED <<data, current, accepting, art, remote, stopTask,
                 cancels>>
\* The first refresh or a platform raises, or the set-up is cancelled.
SetupFails ==
  /\ phase \in {"refreshing", "forwarding"}
  /\ phase' = "cleaning"
  /\ callbacks' = [callbacks EXCEPT ![current] = @ \ Withdrawable]
  /\ StopBegins
  /\ UNCHANGED <<data, current, cancels>>

-----------------------------------------------------------------------------
(* Unload.                                                                 *)

AsyncUnloadEntry ==
  /\ phase = "loaded"
  /\ phase' = "draining"
  /\ remote' = [remote EXCEPT ![current] = "quiescing"]
  /\ UNCHANGED <<data, current, accepting, callbacks, art, stopTask,
                 cancels>>

Quiesced ==
  /\ phase = "draining"
  /\ phase' = "unloadingPlatforms"
  /\ callbacks' = [callbacks EXCEPT ![current] = @ \ Withdrawable]
  /\ UNCHANGED <<data, current, accepting, art, remote, stopTask,
                 cancels>>

ResumesOnly(next) ==
  /\ phase' = next
  /\ remote' = [remote EXCEPT ![current] = "admitting"]
  /\ UNCHANGED <<data, current, accepting, callbacks, art, stopTask,
                 cancels>>
\* _restore_callbacks, resume_remote.
RestoresAndResumes(next) ==
  /\ phase' = next
  /\ callbacks' = [callbacks EXCEPT ![current] = @ \cup Withdrawable]
  /\ remote' = [remote EXCEPT ![current] = "admitting"]
  /\ UNCHANGED <<data, current, accepting, art, stopTask, cancels>>

UnloadRaises ==
  /\ phase \in {"draining", "unloadingPlatforms"}
  /\ RestoresAndResumes("failedUnload")

PlatformsRefuse == phase = "unloadingPlatforms" /\ RestoresAndResumes("loaded")

PlatformsUnloaded ==
  /\ phase = "unloadingPlatforms"
  /\ phase' = "stopping"
  /\ StopBegins
  /\ UNCHANGED <<data, current, callbacks, cancels>>

-----------------------------------------------------------------------------
(* async_stop and its task.                                                *)

ArtStopStarts(d) ==
  /\ art[d] = "requested"
  /\ art' = [art EXCEPT ![d] = "stopping"]
  /\ UNCHANGED <<data, phase, current, accepting, callbacks, remote,
                 stopTask, cancels>>

ArtStopEnds(d) ==
  /\ art[d] = "stopping" /\ stopTask[d] = "running"
  /\ art' = [art EXCEPT ![d] = "ended"]
  /\ UNCHANGED <<data, phase, current, accepting, callbacks, remote,
                 stopTask, cancels>>

\* With or without an error: the gather keeps exceptions as results.
RemoteStopEnds(d) ==
  /\ remote[d] = "quiescing" /\ stopTask[d] = "running"
  /\ remote' = [remote EXCEPT ![d] = "ended"]
  /\ UNCHANGED <<data, phase, current, accepting, callbacks, art,
                 stopTask, cancels>>

StopTaskEnds(d) ==
  /\ stopTask[d] = "running"
  /\ art[d] = "ended" /\ remote[d] = "ended"
  /\ stopTask' = [stopTask EXCEPT ![d] = "done"]
  /\ UNCHANGED <<data, phase, current, accepting, callbacks, art, remote,
                 cancels>>

OwnerCancelsGather(d) ==
  /\ cancels < MaxCancels /\ cancels' = cancels + 1
  /\ stopTask[d] = "running"
  /\ stopTask' = [stopTask EXCEPT ![d] = "cancelled"]
  /\ UNCHANGED <<data, phase, current, accepting, callbacks, art, remote>>
\* Home Assistant cancels the entry's background tasks after a failed set-up
\* and after an unload: _async_stop_once waits on behind its shield.
OwnerCancelsStop(d) ==
  /\ cancels < MaxCancels /\ cancels' = cancels + 1
  /\ stopTask[d] = "running"
  /\ UNCHANGED <<data, phase, current, deviceVars>>

\* The entry goes on once the device has stopped.
JoinReturns ==
  /\ phase \in Joining /\ stopTask[current] = "done"
  /\ phase' = "unloaded"
  /\ UNCHANGED <<data, current, deviceVars, cancels>>

\* The stop after a failed set-up is bounded; its task goes on alone.
CleanupExpires ==
  /\ phase = "cleaning"
  /\ phase' = "unloaded"
  /\ UNCHANGED <<data, current, deviceVars, cancels>>

StopJoinCancelled ==
  /\ cancels < MaxCancels /\ cancels' = cancels + 1
  /\ phase = "stopping"
  /\ phase' = "failedUnload"
  /\ UNCHANGED <<data, current, deviceVars>>

-----------------------------------------------------------------------------
(* The config flow: what a pairing changes.                                *)

FlowStarts ==
  /\ Submit
  /\ UNCHANGED <<data, phase, current, deviceVars, cancels>>

FlowOver ==
  /\ flow = "returned"
  /\ flow' = "idle" /\ outcome' = "none"
  /\ tv' = NoTv
  /\ UNCHANGED <<temp, cleanup, current, deviceVars, cancels>>

\* An error on the form, or the cancellation of the flow.
FlowFails == FlowOver /\ outcome # "ok" /\ UNCHANGED <<data, phase>>

\* A second entry of another TV is another instance of this module.
AlreadyConfigured ==
  /\ outcome = "ok" /\ phase # "absent"
  /\ FlowOver
  /\ UNCHANGED <<data, phase>>

EntryCreated ==
  /\ outcome = "ok" /\ phase = "absent"
  /\ FlowOver
  /\ data' = [mac |-> tv, token |-> tv]
  /\ phase' = "unloaded"

UniqueIdMismatch ==
  /\ outcome = "ok" /\ phase # "absent" /\ tv # data.mac
  /\ FlowOver
  /\ UNCHANGED <<data, phase>>

\* async_update_reload_and_abort; the reload is an unload and a set-up.
EntryUpdated ==
  /\ outcome = "ok" /\ phase # "absent" /\ tv = data.mac
  /\ FlowOver
  /\ data' = [data EXCEPT !.token = tv]
  /\ UNCHANGED phase

FlowConcludes ==
  FlowFails \/ AlreadyConfigured \/ EntryCreated \/ UniqueIdMismatch \/ EntryUpdated

FlowCancelled ==
  /\ cancels < MaxCancels /\ cancels' = cancels + 1
  /\ Cancelled
  /\ UNCHANGED <<data, phase, current, deviceVars>>

-----------------------------------------------------------------------------
\* A new installation, or an entry that Home Assistant restores (one of an
\* older version may have no token).
Init ==
  /\ PairingInit
  /\ data \in {[mac |-> NoTv, token |-> NoTv], [mac |-> OwnTv, token |-> NoTv],
               [mac |-> OwnTv, token |-> OwnTv]}
  /\ phase = IF data.mac = NoTv THEN "absent" ELSE "unloaded"
  /\ current = 0
  /\ accepting = [d \in Devices |-> FALSE]
  /\ callbacks = [d \in Devices |-> {}]
  /\ art = [d \in Devices |-> "none"]
  /\ remote = [d \in Devices |-> "none"]
  /\ stopTask = [d \in Devices |-> "none"]
  /\ cancels = 0

SetupStep ==
  \/ DeviceBuilt \/ Refreshed \/ Forwarded
  \/ PreparingCancelled \/ SetupFails
UnloadStep == Quiesced \/ UnloadRaises \/ PlatformsRefuse \/ PlatformsUnloaded
StopStep(d) ==
  \/ ArtStopStarts(d) \/ ArtStopEnds(d) \/ RemoteStopEnds(d) \/ StopTaskEnds(d)
JoinStep == JoinReturns \/ CleanupExpires

EntryNext ==
  \/ AsyncSetupEntry \/ SetupStep
  \/ AsyncUnloadEntry \/ UnloadStep
  \/ \E d \in Devices : StopStep(d) \/ OwnerCancelsStop(d)
  \/ JoinStep \/ StopJoinCancelled

PairingProgress == Progress /\ UNCHANGED entryVars

Next ==
  \/ EntryNext /\ UNCHANGED pairingVars
  \/ PairingProgress \/ FlowStarts \/ FlowConcludes \/ FlowCancelled

Spec == Init /\ [][Next]_vars

(* Every task of the event loop takes its steps: the first refresh ends at *)
(* the poll deadline, the drain, both halves of the stop and the pairing   *)
(* at deadlines of their own (RemoteControl and ArtSession show that their *)
(* halves end).  Nothing obliges the user, Home Assistant or the TV.       *)
Fairness ==
  /\ WF_vars((SetupStep \/ UnloadStep \/ JoinStep) /\ UNCHANGED pairingVars)
  /\ \A d \in Devices : WF_vars(StopStep(d) /\ UNCHANGED pairingVars)
  /\ WF_vars(PairingProgress) /\ WF_vars(FlowConcludes)

FairSpec == Spec /\ Fairness

-----------------------------------------------------------------------------
(* Properties.                                                             *)

(* Every variable has its type, and a device exists only once it is built. *)
TypeOK ==
  /\ PairingTypeOK
  /\ data \in [mac : Tvs \cup {NoTv}, token : Tvs \cup {NoTv}]
  /\ phase \in Settled \cup Joining \cup {"preparing", "refreshing",
                 "forwarding", "draining", "unloadingPlatforms"}
  /\ current \in 0..MaxSetups
  /\ accepting \in [Devices -> BOOLEAN] /\ callbacks \in [Devices -> SUBSET Callbacks]
  /\ art \in [Devices -> {"none", "running", "requested", "stopping", "ended"}]
  /\ remote \in [Devices -> {"none", "admitting", "quiescing", "ended"}]
  /\ stopTask \in [Devices -> {"none", "running", "done"}]
  /\ cancels \in 0..MaxCancels

(* The entry has one device: every earlier one refuses operations, reports *)
(* no session state, token or refusal any more (only Art events still go   *)
(* to its own coordinator, the discarded one, until its transport is gone),*)
(* and its Art session never opens a connection again, even when its stop  *)
(* outlives the set-up that failed.                                        *)
OneActiveDevice ==
  \A d \in Devices : d # current =>
    /\ ~accepting[d] /\ callbacks[d] \cap Withdrawable = {}
    /\ art[d] \notin {"running", "requested"}

(* Remote operations are admitted only while the token they may be issued  *)
(* can be saved and a refusal can ask for pairing: the callbacks are set   *)
(* before admission reopens and cleared only once it is closed.            *)
AdmissionHasCallbacks ==
  \A d \in Devices :
    accepting[d] /\ remote[d] = "admitting" => {"token", "reauth"} \subseteq callbacks[d]

(* A stop that has begun is completed, whoever cancels it or stops waiting.*)
StopCompletes ==
  \A d \in Devices : stopTask[d] # "none" ~> stopTask[d] = "done"

(* Set-up, unload and pairing always come to an end, whatever fails.       *)
LifecycleEnds ==
  /\ phase \notin Settled ~> phase \in Settled
  /\ flow # "idle" ~> flow = "idle"
=============================================================================
