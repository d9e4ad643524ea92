-------------------------- MODULE FrameCoordinator --------------------------
(***************************************************************************)
(* The data update coordinator (coordinator.py) and the derivation of the  *)
(* TV mode (models.py), between a TV, the supervised art session and the   *)
(* entities that read the published FrameData.                             *)
(*                                                                         *)
(* A poll is a chain of awaits; every step below is what runs between two  *)
(* of them, and pushes, session changes and the other poll fall in the     *)
(* gaps.  Polls overlap: Home Assistant serialises the heartbeat and the   *)
(* requested refreshes with each other ("beat"), but each call of          *)
(* async_request_art_reconcile polls at once, beside the heartbeat and     *)
(* beside other such calls (the services of an entity run in parallel).    *)
(*                                                                         *)
(* Cached and published values carry the number of pushes that had been    *)
(* handled when they were sampled ("at"), so that a value can be told from *)
(* an older one.  The content of a picture, an app, a volume or a setting  *)
(* is left out; the optional snapshots (settings and slideshow) are known  *)
(* by the generation they were read in.                                    *)
(*                                                                         *)
(* A definition named after a defect (MayStoreAlways, ...) is the faulty   *)
(* variant of the one after it; no action uses it.                         *)
(***************************************************************************)
EXTENDS Integers

CONSTANTS
  Pollers,           \* the polls that can overlap: "beat", and forced ones
  Family,            \* "2022": art mode reports power "on"; "2025": "standby"
  OffDebounce,       \* OFF_DEBOUNCE_COUNT
  ArtFailUnknown,    \* ART_FAIL_UNKNOWN_COUNT
  MaxChanges,        \* bound: changes of the TV, and remote commands that confirm it
  MaxSessions,       \* bound: generations of the art session
  MaxFaults,         \* bound: lost REST answers, failed reads, expired polls
  MaxRequests        \* bound: forced reconciliations

ASSUME PollersAssumption == "beat" \in Pollers
ASSUME FamilyAssumption == Family \in {"2022", "2025"}
ASSUME LimitsAssumption == OffDebounce \in Nat \ {0} /\ ArtFailUnknown \in Nat \ {0}
ASSUME BoundsAssumption ==
  {MaxChanges, MaxSessions, MaxFaults, MaxRequests} \subseteq Nat

VARIABLES
  tv,            \* what the TV does
  events,        \* art events on their way
  ready, gen,    \* device.art_ready, device.art_generation
  windowOpen,    \* the clock has reached _next_art_reconcile
  artGen,        \* _art_generation
  artMode,       \* _art_mode
  image,         \* _current_art
  optGen,        \* _optional_art_generation, and of _art_settings and _slideshow
  rev,           \* _art_mode_revision, _current_art_revision, _art_live_push_revision
  latestPower,   \* _latest_rest_power_state
  wasReachable,  \* _was_reachable
  unreachable,   \* _unreachable_count, up to the limit it is compared with
  streak,        \* _art_fail_streak, likewise
  learned,       \* _art_implies_power_on
  confirmed,     \* device.remote_confirmed
  poll,          \* the await each poll is at, with its locals
  data,          \* the published FrameData
  used,          \* the bounds used up
  forced,        \* history: no reconciliation has begun since the last request
  begun          \* history: reconciliations begun in this window and generation

deviceVars == <<tv, events, ready, gen>>
windowVars == <<windowOpen, artGen, forced, begun>>
cacheVars == <<artMode, image, optGen, rev, learned>>
seenVars == <<latestPower, wasReachable, unreachable, streak, confirmed>>
vars == <<deviceVars, windowVars, cacheVars, seenVars, poll, data, used>>

-----------------------------------------------------------------------------
(* The environment: what the TV answers (external).                        *)

TvStates == {"off", "booting", "watching", "art", "dark"}
Answer(r, p) == [reachable |-> r, power |-> p]
Unreachable == Answer(FALSE, "none")
RestAnswer ==
  CASE tv = "off"      -> Unreachable
    [] tv = "booting"  -> Answer(TRUE, "none")
    [] tv = "watching" -> Answer(TRUE, "on")
    [] tv = "art"      -> Answer(TRUE, IF Family = "2022" THEN "on" ELSE "standby")
    [] tv = "dark"     -> Answer(TRUE, "standby")
\* A TV that goes dark may answer "on" for some time.
ArtAnswers ==
  CASE tv = "off"  -> {}
    [] tv = "art"  -> {"on"}
    [] tv = "dark" -> {"on", "off"}
    [] OTHER       -> {"off"}
Fault == used.faults < MaxFaults

-----------------------------------------------------------------------------
(* Definitions on the state.                                               *)

DeriveTvMode(reachable, art, power, standbyWins) ==
  IF ~reachable \/ (standbyWins /\ power = "standby") THEN "off"
  ELSE IF art = "on" THEN "art_mode"
  ELSE IF art = "off" /\ power = "on" THEN "watching"
  ELSE IF power = "standby" THEN "off"
  ELSE "unknown"

LastStable == IF data.mode = "nodata" THEN "unknown" ELSE data.mode
HoldUnlessKnown(mode) == IF mode = "unknown" THEN LastStable ELSE mode
SessionIsReady(g) == ready /\ gen = g
ShutdownStandby(power) == power = "standby" /\ learned

ReconcileDueOncePerSession(ans) ==
  /\ ans.reachable /\ ready /\ ans.power \in {"on", "standby"}
  /\ ~ShutdownStandby(ans.power)
  /\ gen # artGen
ReconcileDue(ans) ==
  /\ ans.reachable /\ ready /\ ans.power \in {"on", "standby"}
  /\ ~ShutdownStandby(ans.power)
  /\ gen # artGen \/ windowOpen

UpTo(n, limit) == IF n < limit THEN n ELSE limit

(* _reset_art_failure and _record_art_failure as _async_poll picks them.   *)
StreakAfter(l, due, live) ==
  IF l.edge \/ ~l.ans.reachable \/ l.ans.power # "on" THEN 0
  ELSE IF due /\ live THEN 0
  ELSE IF due \/ ~ready THEN UpTo(streak + 1, ArtFailUnknown)
  ELSE streak

PolledModeAtOnce(l, art) ==
  LET derived == DeriveTvMode(l.ans.reachable, art, l.ans.power, learned')
  IN IF streak' < ArtFailUnknown THEN HoldUnlessKnown(derived) ELSE derived
PolledModeHeld(l, art) ==
  LET derived == DeriveTvMode(l.ans.reachable, art, l.ans.power, learned')
  IN IF ~l.ans.reachable /\ unreachable' < OffDebounce THEN LastStable
     ELSE HoldUnlessKnown(derived)
(* The mode a poll computes: OFF is debounced, and the last stable mode is *)
(* held until the art channel has failed too often.                        *)
PolledMode(l, art) ==
  LET derived == DeriveTvMode(l.ans.reachable, art, l.ans.power, learned')
  IN IF ~l.ans.reachable /\ unreachable' < OffDebounce THEN LastStable
     ELSE IF streak' < ArtFailUnknown THEN HoldUnlessKnown(derived)
     ELSE derived

OptionalFresh == ready /\ optGen' = gen
(* The FrameData a poll returns.  The cached fields are read when it       *)
(* returns, art and mode are those it computed before its last awaits.     *)
Snapshot(ans, art, mode) ==
  [reachable |-> ans.reachable, power |-> ans.power, mode |-> mode,
   art |-> IF mode = "off" THEN [art EXCEPT !.v = "off"] ELSE art,
   image |-> IF mode = "off" THEN [image' EXCEPT !.v = "none"] ELSE image',
   optGen |-> IF OptionalFresh /\ mode # "off" THEN optGen' ELSE 0]
-----------------------------------------------------------------------------
(* Init.                                                                   *)

NoneBegun == [gen |-> 0, n |-> 0]
Stamped(v, at) == [v |-> v, at |-> at]
Idle == [at |-> "idle", ans |-> Unreachable, edge |-> FALSE, gen |-> 0,
         rev |-> [mode |-> 0, image |-> 0, live |-> 0],
         sample |-> "unknown", image |-> "none",
         mode |-> "unknown", art |-> Stamped("unknown", 0)]

Init ==
  /\ tv \in TvStates /\ events = {} /\ ready = FALSE /\ gen = 0
  /\ windowOpen = TRUE /\ artGen = -1 /\ forced = FALSE /\ begun = NoneBegun
  /\ artMode = Stamped("unknown", 0) /\ image = Stamped("none", 0)
  /\ optGen = 0 /\ rev = Idle.rev /\ learned = FALSE
  /\ latestPower = "none" /\ wasReachable = TRUE /\ unreachable = 0
  /\ streak = 0 /\ confirmed = FALSE
  /\ poll = [p \in Pollers |-> Idle]
  /\ data = [reachable |-> FALSE, power |-> "none", mode |-> "nodata",
             art |-> Stamped("unknown", 0), image |-> Stamped("none", 0),
             optGen |-> 0]
  /\ used = [changes |-> 0, faults |-> 0, requests |-> 0]

-----------------------------------------------------------------------------
(* A poll.                                                                 *)

Reset(p) == poll' = [poll EXCEPT ![p] = Idle]

(* Mode and art are settled; the poll goes on to the foreground app and    *)
(* the volume when it needs them, and returns its snapshot otherwise.      *)
Decide(p, l, stillConfirmed) ==
  LET art == IF streak' >= ArtFailUnknown
             THEN [artMode' EXCEPT !.v = "unknown"] ELSE artMode'
      mode == PolledMode(l, art.v)
  IN /\ confirmed' = (stillConfirmed /\ mode # "off")
     /\ IF mode = "watching" \/ (l.ans.reachable /\ l.ans.power = "on")
        THEN /\ poll' = [poll EXCEPT ![p] =
                           [Idle EXCEPT !.at = "extras", !.ans = l.ans,
                                        !.mode = mode, !.art = art]]
             /\ UNCHANGED data
        ELSE data' = Snapshot(l.ans, art, mode) /\ Reset(p)

StartPoll(p) ==
  /\ p = "beat" /\ poll[p].at = "idle"
  /\ poll' = [poll EXCEPT ![p].at = "info"]
  /\ UNCHANGED <<deviceVars, windowVars, cacheVars, seenVars, data, used>>

AsyncRequestArtReconcile(p) ==
  /\ p # "beat" /\ poll[p].at = "idle" /\ used.requests < MaxRequests
  /\ used' = [used EXCEPT !.requests = @ + 1]
  /\ windowOpen' = TRUE /\ forced' = TRUE /\ begun' = NoneBegun
  /\ poll' = [poll EXCEPT ![p].at = "info"]
  /\ UNCHANGED <<deviceVars, artGen, cacheVars, seenVars, data>>

BeginsAnother == [gen |-> gen, n |-> IF gen = begun.gen THEN begun.n + 1 ELSE 1]
(* The reservation is made before the first request of a reconciliation.   *)
ReserveWindowOnly ==
  /\ windowOpen' = FALSE /\ forced' = FALSE
  /\ begun' = BeginsAnother
  /\ UNCHANGED artGen
Reserve ==
  /\ windowOpen' = FALSE /\ artGen' = gen /\ forced' = FALSE
  /\ begun' = BeginsAnother

InfoAnswer(p, ans) ==
  LET edge == ans.reachable /\ ~wasReachable
      l == [poll[p] EXCEPT !.ans = ans, !.edge = edge]
      stillConfirmed == confirmed /\ ans.reachable /\ ~edge
  IN /\ poll[p].at = "info"
     /\ latestPower' = ans.power /\ wasReachable' = ans.reachable
     /\ unreachable' = IF ans.reachable THEN 0
                       ELSE UpTo(unreachable + 1, OffDebounce)
     /\ IF ReconcileDue(ans)
        THEN /\ Reserve
             /\ poll' = [poll EXCEPT ![p] = [l EXCEPT !.at = "artmode",
                                             !.gen = gen, !.rev = rev]]
             /\ confirmed' = stillConfirmed
             /\ UNCHANGED <<streak, data>>
        ELSE /\ streak' = StreakAfter(l, FALSE, FALSE)
             /\ UNCHANGED <<windowVars, artMode, image, optGen, learned>>
             /\ Decide(p, l, stillConfirmed)
     /\ UNCHANGED <<deviceVars, cacheVars>>

AsyncDeviceInfo(p) == InfoAnswer(p, RestAnswer) /\ UNCHANGED used
DeviceInfoLost(p) ==
  /\ Fault /\ RestAnswer.reachable
  /\ InfoAnswer(p, Unreachable)
  /\ used' = [used EXCEPT !.faults = @ + 1]

(* The end of _async_reconcile_art, and the poll from there on.            *)
MayStoreAlways(l, field) == TRUE
MayStore(l, field) == rev[field] = l.rev[field]
WindowAtEndLate == windowOpen' = FALSE
WindowAtEnd == UNCHANGED windowOpen
ReconcileEnds(p, l, stores, imageValid) ==
  LET storesMode == stores /\ l.sample # "unknown" /\ MayStore(l, "mode")
      storesImage == stores /\ imageValid /\ MayStore(l, "image")
      live == l.sample # "unknown" \/ rev.live # l.rev.live
  IN /\ artMode' = IF storesMode THEN Stamped(l.sample, l.rev.mode) ELSE artMode
     /\ learned' = (learned \/ (storesMode /\ l.sample = "on" /\ latestPower = "on"))
     /\ image' = IF storesImage THEN Stamped(l.image, l.rev.image) ELSE image
     /\ streak' = StreakAfter(l, TRUE, live)
     /\ WindowAtEnd
     /\ UNCHANGED <<unreachable, wasReachable, latestPower>>
     /\ Decide(p, l, confirmed)
     /\ UNCHANGED <<deviceVars, artGen, forced, begun, rev>>

(* A read returns an answer, or None when it fails; over a session that is *)
(* not ready it may be an answer that came before the session was lost.    *)
ReadFails == IF ready THEN Fault /\ used' = [used EXCEPT !.faults = @ + 1]
             ELSE UNCHANGED used
Reads(answers, none, v) ==
  IF v = none THEN ReadFails ELSE v \in answers /\ UNCHANGED used

AsyncGetArtmode(p) ==
  LET l == poll[p] IN
  /\ l.at = "artmode"
  /\ \E v \in {"on", "off", "unknown"} :
       /\ Reads(ArtAnswers, "unknown", v)
       /\ IF SessionIsReady(l.gen)
          THEN /\ poll' = [poll EXCEPT ![p].at = "current", ![p].sample = v]
               /\ UNCHANGED <<deviceVars, windowVars, cacheVars, seenVars, data>>
          ELSE /\ UNCHANGED optGen
               /\ ReconcileEnds(p, [l EXCEPT !.sample = v], TRUE, FALSE)

AsyncGetCurrentArt(p) ==
  LET l == poll[p] IN
  /\ l.at = "current"
  /\ \E v \in {"shown", "none"} :
       /\ Reads({"shown"}, "none", v)
       /\ IF SessionIsReady(l.gen)
          THEN /\ poll' = [poll EXCEPT ![p].at = "settings", ![p].image = v]
               /\ UNCHANGED <<deviceVars, windowVars, cacheVars, seenVars, data>>
          ELSE /\ UNCHANGED optGen
               /\ ReconcileEnds(p, l, TRUE, FALSE)

AsyncGetArtSettings(p) ==
  LET l == poll[p] IN
  /\ l.at = "settings"
  /\ IF SessionIsReady(l.gen)
     THEN /\ poll' = [poll EXCEPT ![p].at = "slideshow"]
          /\ UNCHANGED <<deviceVars, windowVars, cacheVars, seenVars, data>>
     ELSE /\ UNCHANGED optGen
          /\ ReconcileEnds(p, l, FALSE, FALSE)
  /\ UNCHANGED used

StillOwnedAlways(l) == TRUE
StillOwned(l) == SessionIsReady(l.gen)
AsyncGetSlideshowState(p) ==
  LET l == poll[p] IN
  /\ l.at = "slideshow"
  /\ optGen' = IF StillOwned(l) THEN l.gen ELSE optGen
  /\ ReconcileEnds(p, l, TRUE, TRUE)
  /\ UNCHANGED used

PollReturns(p) ==
  LET l == poll[p] IN
  /\ l.at = "extras"
  /\ UNCHANGED <<deviceVars, windowVars, cacheVars, seenVars, used>>
  /\ data' = Snapshot(l.ans, l.art, l.mode)
  /\ Reset(p)

(* The deadline cancels the poll at the await it is in.  A first poll that *)
(* fails ends the setup of the entry, which starts over from Init.         *)
PollExpires(p) ==
  /\ poll[p].at # "idle" /\ data.mode # "nodata" /\ Fault
  /\ Reset(p)
  /\ used' = [used EXCEPT !.faults = @ + 1]
  /\ UNCHANGED <<deviceVars, windowVars, cacheVars, seenVars, data>>

-----------------------------------------------------------------------------
(* handle_art_event.                                                       *)

PushedModeBlind(power) == DeriveTvMode(TRUE, artMode'.v, power, FALSE)
PushedMode(power) == DeriveTvMode(TRUE, artMode'.v, power, learned')
PublishPush ==
  LET power == IF latestPower # "none" THEN latestPower
               ELSE IF data.mode = "nodata" THEN "on" ELSE data.power
      mode == HoldUnlessKnown(PushedMode(power))
  IN /\ streak' = 0
     /\ confirmed' = (confirmed /\ mode # "off")
     /\ data' = [data EXCEPT !.reachable = TRUE, !.power = power, !.mode = mode,
                             !.art = artMode', !.image = image']

ArtModePushed ==
  /\ "mode" \in events /\ events' = events \ {"mode"}
  /\ \E v \in ArtAnswers : artMode' = Stamped(v, rev.mode + 1)
  /\ rev' = [rev EXCEPT !.mode = @ + 1, !.live = @ + 1]
  /\ learned' = (learned \/ (artMode'.v = "on" /\ latestPower = "on"))
  /\ UNCHANGED image /\ PublishPush
  /\ UNCHANGED <<tv, ready, gen, windowVars, optGen, latestPower, wasReachable,
                 unreachable, poll, used>>

ImagePushed ==
  /\ "image" \in events /\ events' = events \ {"image"}
  /\ image' = Stamped("shown", rev.image + 1)
  /\ rev' = [rev EXCEPT !.image = @ + 1, !.live = @ + 1]
  /\ UNCHANGED <<artMode, learned>> /\ PublishPush
  /\ UNCHANGED <<tv, ready, gen, windowVars, optGen, latestPower, wasReachable,
                 unreachable, poll, used>>

\* The refresh it asks for is a heartbeat that comes early (StartPoll).
GoToStandby ==
  /\ "standby" \in events /\ events' = events \ {"standby"}
  /\ rev' = [rev EXCEPT !.live = @ + 1]
  /\ streak' = 0
  /\ UNCHANGED <<tv, ready, gen, windowVars, artMode, image, optGen, learned,
                 latestPower, wasReachable, unreachable, confirmed, poll, data, used>>

-----------------------------------------------------------------------------
(* The environment: the TV, the session, the clock, the remote.            *)

Others == <<cacheVars, seenVars, poll, data>>

TvChanges ==
  /\ used.changes < MaxChanges /\ used' = [used EXCEPT !.changes = @ + 1]
  /\ tv' \in TvStates \ {tv}
  /\ events' = IF ~ready \/ tv' = "off" THEN {}
               ELSE events \cup {"mode"} \cup {e \in {"standby"} : tv' = "dark"}
  /\ UNCHANGED <<ready, gen, windowVars, Others>>

ImageChanges ==
  /\ ready /\ tv = "art"
  /\ used.changes < MaxChanges /\ used' = [used EXCEPT !.changes = @ + 1]
  /\ events' = events \cup {"image"}
  /\ UNCHANGED <<tv, ready, gen, windowVars, Others>>

\* The refresh of handle_art_session_state is a heartbeat that comes early.
SessionReady ==
  /\ ~ready /\ tv # "off" /\ gen < MaxSessions
  /\ ready' = TRUE /\ gen' = gen + 1
  /\ UNCHANGED <<tv, events, windowVars, Others, used>>

SessionLost ==
  /\ ready /\ ready' = FALSE /\ events' = {}
  /\ UNCHANGED <<tv, gen, windowVars, Others, used>>

\* POLL_DEADLINE is shorter than the window.
WindowElapses ==
  /\ ~windowOpen /\ \A p \in Pollers : poll[p].at \in {"idle", "info", "extras"}
  /\ windowOpen' = TRUE /\ begun' = NoneBegun
  /\ UNCHANGED <<deviceVars, artGen, forced, Others, used>>

RemoteConfirmed ==
  /\ ~confirmed /\ tv # "off" /\ confirmed' = TRUE
  /\ used.changes < MaxChanges /\ used' = [used EXCEPT !.changes = @ + 1]
  /\ UNCHANGED <<deviceVars, windowVars, cacheVars, latestPower, wasReachable,
                 unreachable, streak, poll, data>>

-----------------------------------------------------------------------------
PollStep(p) ==
  \/ AsyncDeviceInfo(p) \/ AsyncGetArtmode(p) \/ AsyncGetCurrentArt(p)
  \/ AsyncGetArtSettings(p) \/ AsyncGetSlideshowState(p) \/ PollReturns(p)
ArtEvent == ArtModePushed \/ ImagePushed \/ GoToStandby
Next ==
  \/ \E p \in Pollers : \/ StartPoll(p) \/ AsyncRequestArtReconcile(p)
                        \/ PollStep(p) \/ DeviceInfoLost(p) \/ PollExpires(p)
  \/ ArtEvent
  \/ TvChanges \/ ImageChanges \/ SessionReady \/ SessionLost
  \/ WindowElapses \/ RemoteConfirmed
Spec == Init /\ [][Next]_vars

(* Home Assistant keeps polling, an await ends, the clock runs and an      *)
(* event that has been sent arrives.                                       *)
Fairness ==
  /\ WF_vars(StartPoll("beat")) /\ WF_vars(ArtEvent) /\ WF_vars(WindowElapses)
  /\ \A p \in Pollers : WF_vars(PollStep(p))

FairSpec == Spec /\ Fairness

-----------------------------------------------------------------------------
(* Properties.                                                             *)

Modes == {"off", "watching", "art_mode", "unknown"}
Powers == {"none", "on", "standby"}
ArtModes == [v : {"on", "off", "unknown"}, at : Nat]
Images == [v : {"shown", "none"}, at : Nat]
Revisions == [mode : Nat, image : Nat, live : Nat]
Answers == [reachable : BOOLEAN, power : Powers]
Awaits == {"idle", "info", "artmode", "current", "settings", "slideshow", "extras"}
Polls == [at : Awaits, ans : Answers, edge : BOOLEAN, gen : 0 .. MaxSessions, rev : Revisions,
          sample : {"on", "off", "unknown"}, image : {"shown", "none"},
          mode : Modes, art : ArtModes]
Frames == [reachable : BOOLEAN, power : Powers, mode : Modes \cup {"nodata"},
           art : ArtModes, image : Images, optGen : 0 .. MaxSessions]

(* Every variable has its type, and the failure counters stay at the limit *)
(* they are compared with.                                                 *)
TypeOK ==
  /\ tv \in TvStates /\ events \subseteq {"mode", "image", "standby"}
  /\ ready \in BOOLEAN /\ windowOpen \in BOOLEAN /\ wasReachable \in BOOLEAN
  /\ learned \in BOOLEAN /\ confirmed \in BOOLEAN /\ forced \in BOOLEAN
  /\ gen \in 0 .. MaxSessions /\ artGen \in -1 .. MaxSessions
  /\ optGen \in 0 .. MaxSessions
  /\ artMode \in ArtModes /\ image \in Images /\ rev \in Revisions
  /\ latestPower \in Powers
  /\ unreachable \in 0 .. OffDebounce /\ streak \in 0 .. ArtFailUnknown
  /\ poll \in [Pollers -> Polls] /\ data \in Frames
  /\ used \in [changes : Nat, faults : Nat, requests : Nat]
  /\ begun \in [gen : 0 .. MaxSessions, n : Nat]

(* A reconciliation in flight, of any poll, never puts back an art mode    *)
(* or a picture older than a push that was handled meanwhile, in the cache *)
(* or in the published picture.                                            *)
NewerPushStands ==
  [][/\ artMode'.at >= artMode.at /\ image'.at >= image.at
     /\ data'.image.at >= data.image.at]_vars

(* A forced reconciliation is never lost to one that was already running   *)
(* when it was asked for: until one begins, the window stays open.         *)
RequestKept == forced => windowOpen

(* However polls overlap, expire or lose the session, one window and one   *)
(* generation see one reconciliation begin.                                *)
ReconcilePaced == begun.n <= 1

(* The optional snapshots never go back to an older generation, and a poll *)
(* only publishes those of the generation that is ready when it returns.   *)
OptionalCurrent ==
  [][/\ optGen' >= optGen
     /\ data'.optGen \notin {0, data.optGen} => ready /\ data'.optGen = gen]_vars

(* A TV that reports standby after its trait is learned is never published *)
(* in art mode, whatever its dying socket still pushes, as long as nothing *)
(* forced a poll beside the heartbeat.                                     *)
StandbyWins ==
  used.requests = 0 /\ ShutdownStandby(latestPower) => data.mode # "art_mode"

(* One lost answer, to whichever poll, never declares a working TV off.    *)
UpThroughout == used.changes = 0 /\ tv \in {"watching", "art"} /\ Family = "2022"
OneLossIsNotOff == UpThroughout /\ used.faults <= 1 => data.mode # "off"

(* When the TV stays in one state and its session stays ready, the         *)
(* published mode becomes that state, however many pushes were lost.       *)
Settled(s) == tv = s /\ ready
Converges ==
  /\ <>[]Settled("watching") => <>[](data.mode = "watching")
  /\ Family = "2022" => (<>[]Settled("art") => <>[](data.mode = "art_mode"))

(* When the session of a powered TV never comes back, the mode ends as     *)
(* unknown instead of the last one seen.                                   *)
DeadArtSurfaces ==
  <>[](tv = "watching" /\ ~ready) => <>[](data.mode = "unknown")

(* Claim (coordinator.py:85-88): the trait is never learned on a 2025      *)
(* model, which reports standby in art mode.                               *)
NeverLearnedOn2025 == Family = "2025" => ~learned
=============================================================================
