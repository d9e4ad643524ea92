------------------------------ MODULE Pairing ------------------------------
(***************************************************************************)
(* validate_and_pair of config_flow.py: a REST query, then a temporary     *)
(* remote websocket (on which the TV asks for permission and issues the    *)
(* token) and a temporary Art websocket (which proves the token), and the  *)
(* cleanup that closes both however the flow ends.                         *)
(*                                                                         *)
(* A websocket exists from the moment connect() returns until it is closed *)
(* or aborted.  A timeout is a step that is enabled whenever the wait it   *)
(* bounds is.  A definition named after a defect (CancelledCleanupLeaves,  *)
(* ...) is the faulty variant of the one after it; no action uses it.      *)
(***************************************************************************)

CONSTANTS
  Tvs,   \* the Frame TVs that may answer at the host of a flow
  NoTv   \* no TV: none has answered yet, or the entry does not exist

VARIABLES
  flow,      \* where validate_and_pair stands
  outcome,   \* how it will end, once that is decided
  tv,        \* the TV whose REST interface answered
  temp,      \* the temporary websockets
  cleanup    \* the cleanup tasks of _async_cleanup_pairing_clients

pairingVars == <<flow, outcome, tv, temp, cleanup>>

Clients == {"remote", "art"}
Exists(c) == temp[c] \in {"handshake", "discarding", "open", "closing"}

-----------------------------------------------------------------------------
(* The two ways out of the try block: nothing opened yet, or the finally.  *)

Leaves(result) ==
  /\ flow' = "returned"
  /\ outcome' = result
  /\ UNCHANGED <<tv, temp, cleanup>>

(* The remote exists by then; an Art client only once the token is known.  *)
CleansUp(result, sockets) ==
  /\ flow' = "cleanup"
  /\ outcome' = result
  /\ temp' = sockets
  /\ cleanup' = [c \in Clients |->
                   IF c = "art" /\ flow # "art" THEN "none" ELSE "running"]
  /\ UNCHANGED tv

-----------------------------------------------------------------------------
(* REST, TLS context, then one websocket after the other.                  *)

Submit ==
  /\ flow = "idle"
  /\ flow' = "rest"
  /\ UNCHANGED <<outcome, tv, temp, cleanup>>

RestAnswers ==
  /\ flow = "rest"
  /\ flow' = "ssl"
  /\ tv' \in Tvs
  /\ UNCHANGED <<outcome, temp, cleanup>>

\* No answer, or a device that is not a Frame.
RestRefuses == flow = "rest" /\ Leaves("failed")

SslReady ==
  /\ flow = "ssl"
  /\ flow' = "remote"
  /\ temp' = [temp EXCEPT !["remote"] = "opening"]
  /\ UNCHANGED <<outcome, tv, cleanup>>

Connects(c) ==
  /\ temp[c] = "opening"
  /\ temp' = [temp EXCEPT ![c] = "handshake"]
  /\ UNCHANGED <<flow, outcome, tv, cleanup>>

ConnectFails(c) ==
  /\ temp[c] = "opening"
  /\ CleansUp("failed", [temp EXCEPT ![c] = "none"])

\* The user allows the remote, and the TV issues a token.
RemoteAllowed ==
  /\ temp["remote"] = "handshake"
  /\ flow' = "art"
  /\ temp' = [remote |-> "open", art |-> "opening"]
  /\ UNCHANGED <<outcome, tv, cleanup>>

\* The TV accepts the remote without a token: CannotConnect, its socket open.
RemoteWithoutToken ==
  /\ temp["remote"] = "handshake"
  /\ CleansUp("failed", [temp EXCEPT !["remote"] = "open"])

ArtReady ==
  /\ temp["art"] = "handshake"
  /\ CleansUp("ok", [temp EXCEPT !["art"] = "open"])

\* Refused, lost, or late: open discards the websocket it never published.
HandshakeFails(c) ==
  /\ temp[c] = "handshake"
  /\ temp' = [temp EXCEPT ![c] = "discarding"]
  /\ outcome' = "failed"
  /\ UNCHANGED <<flow, tv, cleanup>>

Discarded(c) ==
  /\ temp[c] = "discarding"
  /\ CleansUp(outcome, [temp EXCEPT ![c] = "none"])

-----------------------------------------------------------------------------
(* _async_cleanup_pairing_clients: both clients at once, each bounded.     *)

CleanupStarts(c) ==
  /\ cleanup[c] = "running" /\ temp[c] = "open"
  /\ temp' = [temp EXCEPT ![c] = "closing"]
  /\ UNCHANGED <<flow, outcome, tv, cleanup>>

CleanupDone(c, socket) ==
  /\ temp' = [temp EXCEPT ![c] = socket]
  /\ cleanup' = [cleanup EXCEPT ![c] = "done"]
  /\ UNCHANGED <<flow, outcome, tv>>

Closed(c) ==
  /\ cleanup[c] = "running" /\ temp[c] \in {"none", "closing"}
  /\ CleanupDone(c, "none")

\* The close fails, expires or is cancelled: FrameRemote.async_stop aborts
\* its own socket, the Art socket is the one captured before the close.
CloseFails(c) ==
  /\ cleanup[c] = "running" /\ temp[c] = "closing"
  /\ CleanupDone(c, "none")

CleanupOverBoth == \A c \in Clients : cleanup[c] = "done"
CleanupOver == \A c \in Clients : cleanup[c] # "running"

\* The gather is awaited to its end, and the flow leaves the finally.
CleanedUp ==
  /\ flow = "cleanup" /\ CleanupOver
  /\ flow' = "returned"
  /\ cleanup' = [c \in Clients |-> "none"]
  /\ UNCHANGED <<outcome, tv, temp>>

-----------------------------------------------------------------------------
(* Cancellation of the caller, delivered where the flow stands.            *)

CancelledBeforeSockets == flow \in {"rest", "ssl"} /\ Leaves("cancelled")

CancelledConnecting(c) ==
  /\ temp[c] = "opening"
  /\ CleansUp("cancelled", [temp EXCEPT ![c] = "none"])

CancelledHandshake(c) ==
  /\ temp[c] = "handshake"
  /\ temp' = [temp EXCEPT ![c] = "discarding"]
  /\ outcome' = "cancelled"
  /\ UNCHANGED <<flow, tv, cleanup>>

\* FrameRemote aborts the socket at once, FrameArt first completes its close.
CancelledDiscarding(c) ==
  /\ temp[c] = "discarding"
  /\ IF c = "remote"
     THEN CleansUp("cancelled", [temp EXCEPT ![c] = "none"])
     ELSE /\ outcome' = "cancelled"
          /\ UNCHANGED <<flow, tv, temp, cleanup>>

CancelledCleanupLeaves ==
  /\ flow = "cleanup"
  /\ flow' = "returned"
  /\ outcome' = "cancelled"
  /\ cleanup' = [c \in Clients |-> "none"]
  /\ UNCHANGED <<tv, temp>>
\* The loop around the shield remembers the cancellation and waits on.
CancelledCleanup ==
  /\ flow = "cleanup"
  /\ outcome' = "cancelled"
  /\ UNCHANGED <<flow, tv, temp, cleanup>>

Cancelled ==
  \/ CancelledBeforeSockets \/ CancelledCleanup
  \/ \E c \in Clients :
       CancelledConnecting(c) \/ CancelledHandshake(c) \/ CancelledDiscarding(c)

-----------------------------------------------------------------------------
PairingInit ==
  /\ flow = "idle" /\ outcome = "none"
  /\ tv = NoTv
  /\ temp = [c \in Clients |-> "none"]
  /\ cleanup = [c \in Clients |-> "none"]

Progress ==
  \/ RestAnswers \/ RestRefuses \/ SslReady
  \/ RemoteAllowed \/ RemoteWithoutToken \/ ArtReady
  \/ CleanedUp
  \/ \E c \in Clients :
       \/ Connects(c) \/ ConnectFails(c) \/ HandshakeFails(c) \/ Discarded(c)
       \/ CleanupStarts(c) \/ Closed(c) \/ CloseFails(c)

PairingTypeOK ==
  /\ flow \in {"idle", "rest", "ssl", "remote", "art", "cleanup", "returned"}
  /\ outcome \in {"none", "ok", "failed", "cancelled"}
  /\ tv \in Tvs \cup {NoTv}
  /\ temp \in [Clients -> {"none", "opening", "handshake", "discarding",
                           "open", "closing"}]
  /\ cleanup \in [Clients -> {"none", "running", "done"}]

(* However the flow ends, it leaves neither websocket behind: the TV's one *)
(* Art channel is free before the entry is set up with the new token.      *)
PairingLeavesNothing ==
  flow \in {"idle", "returned"} => \A c \in Clients : ~Exists(c)
=============================================================================
