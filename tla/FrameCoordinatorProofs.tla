----------------------- MODULE FrameCoordinatorProofs -----------------------
(***************************************************************************)
(* Proofs about FrameCoordinator, for every value of its constants.        *)
(***************************************************************************)
EXTENDS FrameCoordinator, TLAPS

-----------------------------------------------------------------------------
(* Type correctness.                                                       *)

(* The mode a poll computes is one of the modes of derive_tv_mode, or the  *)
(* one published before it.                                                *)
LEMMA ModeType ==
  ASSUME TypeOK, NEW r, NEW a, NEW pw, NEW w
  PROVE  /\ DeriveTvMode(r, a, pw, w) \in Modes
         /\ LastStable \in Modes
         /\ HoldUnlessKnown(DeriveTvMode(r, a, pw, w)) \in Modes
BY DEF TypeOK, DeriveTvMode, LastStable, HoldUnlessKnown, Modes, Frames

LEMMA PolledModeType ==
  ASSUME TypeOK, NEW l, NEW art PROVE PolledMode(l, art) \in Modes
BY ModeType DEF PolledMode

LEMMA IdleType == Idle \in Polls /\ Unreachable \in Answers
BY LimitsAssumption, BoundsAssumption
   DEF Idle, Polls, Answers, Unreachable, Answer, Powers, Awaits, Revisions,
       Modes, ArtModes, Stamped

(* What ends the synchronous part of a poll keeps the types.               *)
LEMMA DecideType ==
  ASSUME TypeOK, NEW p \in Pollers, NEW l \in Polls, NEW c \in BOOLEAN,
         artMode' \in ArtModes, image' \in Images, optGen' \in 0 .. MaxSessions,
         Decide(p, l, c)
  PROVE  confirmed' \in BOOLEAN /\ poll' \in [Pollers -> Polls] /\ data' \in Frames
<1> DEFINE art == IF streak' >= ArtFailUnknown
                  THEN [artMode' EXCEPT !.v = "unknown"] ELSE artMode'
           mode == PolledMode(l, art.v)
<1>1. art \in ArtModes
  BY DEF ArtModes
<1>2. mode \in Modes
  BY PolledModeType
<1> HIDE DEF art, mode
<1>3. /\ confirmed' = (c /\ mode # "off")
      /\ IF mode = "watching" \/ (l.ans.reachable /\ l.ans.power = "on")
         THEN /\ poll' = [poll EXCEPT ![p] =
                            [Idle EXCEPT !.at = "extras", !.ans = l.ans,
                                         !.mode = mode, !.art = art]]
              /\ UNCHANGED data
         ELSE data' = Snapshot(l.ans, art, mode) /\ Reset(p)
  BY DEF Decide, art, mode
<1>4. l.ans \in Answers
  BY DEF Polls
<1>5. [Idle EXCEPT !.at = "extras", !.ans = l.ans, !.mode = mode, !.art = art] \in Polls
  BY <1>1, <1>2, <1>4, IdleType DEF Polls, Awaits
<1>6. Snapshot(l.ans, art, mode) \in Frames
  <2>1. [art EXCEPT !.v = "off"] \in ArtModes
    BY <1>1 DEF ArtModes
  <2>2. [image' EXCEPT !.v = "none"] \in Images
    BY DEF Images
  <2>3. 0 \in 0 .. MaxSessions
    BY BoundsAssumption
  <2> QED BY <1>1, <1>2, <1>4, <2>1, <2>2, <2>3 DEF Snapshot, Frames, Answers
<1>7. poll \in [Pollers -> Polls] /\ data \in Frames
  BY DEF TypeOK
<1> QED BY <1>3, <1>5, <1>6, <1>7, IdleType DEF Reset

(* The failure counters stay at or below their limits.                     *)
LEMMA CounterTypes ==
  ASSUME TypeOK, NEW l \in Polls, NEW due \in BOOLEAN, NEW live \in BOOLEAN
  PROVE  /\ StreakAfter(l, due, live) \in 0 .. ArtFailUnknown
         /\ UpTo(unreachable + 1, OffDebounce) \in 0 .. OffDebounce
<1>1. /\ streak \in 0 .. ArtFailUnknown /\ ArtFailUnknown \in Nat \ {0}
      /\ unreachable \in 0 .. OffDebounce /\ OffDebounce \in Nat \ {0}
  BY LimitsAssumption DEF TypeOK
<1>2. /\ UpTo(streak + 1, ArtFailUnknown) \in 0 .. ArtFailUnknown
      /\ UpTo(unreachable + 1, OffDebounce) \in 0 .. OffDebounce
  BY <1>1 DEF UpTo
<1>3. 0 \in 0 .. ArtFailUnknown
  BY <1>1
<1> HIDE <1>3
<1> QED BY <1>1, <1>2, <1>3 DEF StreakAfter

LEMMA InfoAnswerType ==
  ASSUME TypeOK, NEW p \in Pollers, NEW ans \in Answers, InfoAnswer(p, ans)
  PROVE  (used' \in [changes : Nat, faults : Nat, requests : Nat]) => TypeOK'
<1> DEFINE edge == ans.reachable /\ ~wasReachable
           l == [poll[p] EXCEPT !.ans = ans, !.edge = edge]
           c == confirmed /\ ans.reachable /\ ~edge
<1>1. poll[p] \in Polls /\ poll \in [Pollers -> Polls]
  BY DEF TypeOK
<1>2. /\ ans.reachable \in BOOLEAN /\ ans.power \in Powers
      /\ edge \in BOOLEAN /\ c \in BOOLEAN
  BY DEF TypeOK, Answers
<1>3. l \in Polls
  <2> HIDE DEF edge
  <2> QED BY <1>1, <1>2 DEF Polls
<1> HIDE DEF l, c, edge
<1>4. /\ latestPower' = ans.power /\ wasReachable' = ans.reachable
      /\ unreachable' = IF ans.reachable THEN 0 ELSE UpTo(unreachable + 1, OffDebounce)
      /\ UNCHANGED <<deviceVars, cacheVars>>
      /\ IF ReconcileDue(ans)
         THEN /\ Reserve
              /\ poll' = [poll EXCEPT ![p] = [l EXCEPT !.at = "artmode",
                                              !.gen = gen, !.rev = rev]]
              /\ confirmed' = c
              /\ UNCHANGED <<streak, data>>
         ELSE /\ streak' = StreakAfter(l, FALSE, FALSE)
              /\ UNCHANGED <<windowVars, artMode, image, optGen, learned>>
              /\ Decide(p, l, c)
  BY DEF InfoAnswer, l, c, edge
<1>5. unreachable' \in 0 .. OffDebounce
  <2>1. 0 \in 0 .. OffDebounce
    BY LimitsAssumption
  <2> QED BY <1>3, <1>4, <2>1, CounterTypes
<1>6. /\ tv' \in TvStates /\ events' \subseteq {"mode", "image", "standby"}
      /\ ready' \in BOOLEAN /\ gen' \in 0 .. MaxSessions
      /\ optGen' \in 0 .. MaxSessions
      /\ artMode' \in ArtModes /\ image' \in Images /\ rev' \in Revisions
      /\ learned' \in BOOLEAN /\ latestPower' \in Powers /\ wasReachable' \in BOOLEAN
  BY <1>2, <1>4 DEF TypeOK, deviceVars, cacheVars
<1>7. CASE ReconcileDue(ans)
  <2>1. [l EXCEPT !.at = "artmode", !.gen = gen, !.rev = rev] \in Polls
    BY <1>3 DEF TypeOK, Polls, Awaits
  <2>2. poll' \in [Pollers -> Polls]
    BY <1>1, <1>4, <1>7, <2>1
  <2>3. /\ windowOpen' \in BOOLEAN /\ forced' \in BOOLEAN
        /\ artGen' \in -1 .. MaxSessions
        /\ begun' \in [gen : 0 .. MaxSessions, n : Nat]
    <3>1. BeginsAnother \in [gen : 0 .. MaxSessions, n : Nat]
      BY DEF TypeOK, BeginsAnother
    <3>2. gen \in -1 .. MaxSessions
      BY BoundsAssumption DEF TypeOK
    <3> QED BY <1>4, <1>7, <3>1, <3>2 DEF Reserve
  <2>4. confirmed' \in BOOLEAN /\ streak' \in 0 .. ArtFailUnknown /\ data' \in Frames
    BY <1>2, <1>4, <1>7 DEF TypeOK
  <2> QED BY <1>5, <1>6, <2>2, <2>3, <2>4 DEF TypeOK
<1>8. CASE ~ReconcileDue(ans)
  <2>1. confirmed' \in BOOLEAN /\ poll' \in [Pollers -> Polls] /\ data' \in Frames
    BY <1>2, <1>3, <1>4, <1>6, <1>8, DecideType
  <2>2. streak' \in 0 .. ArtFailUnknown
    BY <1>3, <1>4, <1>8, CounterTypes
  <2>3. /\ windowOpen' \in BOOLEAN /\ forced' \in BOOLEAN
        /\ artGen' \in -1 .. MaxSessions
        /\ begun' \in [gen : 0 .. MaxSessions, n : Nat]
    BY <1>4, <1>8 DEF TypeOK, windowVars
  <2> QED BY <1>5, <1>6, <2>1, <2>2, <2>3 DEF TypeOK
<1> QED BY <1>7, <1>8

LEMMA ReconcileEndsType ==
  ASSUME TypeOK, NEW p \in Pollers, NEW l \in Polls, NEW stores \in BOOLEAN,
         NEW imageValid \in BOOLEAN, ReconcileEnds(p, l, stores, imageValid),
         optGen' \in 0 .. MaxSessions,
         used' \in [changes : Nat, faults : Nat, requests : Nat]
  PROVE  TypeOK'
<1> DEFINE storesMode == stores /\ l.sample # "unknown" /\ MayStore(l, "mode")
           storesImage == stores /\ imageValid /\ MayStore(l, "image")
           live == l.sample # "unknown" \/ rev.live # l.rev.live
<1> HIDE DEF storesMode, storesImage, live
<1>1. /\ artMode' = IF storesMode THEN Stamped(l.sample, l.rev.mode) ELSE artMode
      /\ learned' = (learned \/ (storesMode /\ l.sample = "on" /\ latestPower = "on"))
      /\ image' = IF storesImage THEN Stamped(l.image, l.rev.image) ELSE image
      /\ streak' = StreakAfter(l, TRUE, live)
      /\ UNCHANGED windowOpen
      /\ UNCHANGED <<unreachable, wasReachable, latestPower>>
      /\ Decide(p, l, confirmed)
      /\ UNCHANGED <<deviceVars, artGen, forced, begun, rev>>
  BY DEF ReconcileEnds, storesMode, storesImage, live, WindowAtEnd
<1>2. /\ Stamped(l.sample, l.rev.mode) \in ArtModes
      /\ Stamped(l.image, l.rev.image) \in Images
  BY DEF Polls, Revisions, Stamped, ArtModes, Images
<1>3. artMode' \in ArtModes /\ image' \in Images /\ learned' \in BOOLEAN
  BY <1>1, <1>2 DEF TypeOK
<1>4. streak' \in 0 .. ArtFailUnknown
  BY <1>1, CounterTypes DEF live
<1>5. confirmed \in BOOLEAN
  BY DEF TypeOK
<1>6. confirmed' \in BOOLEAN /\ poll' \in [Pollers -> Polls] /\ data' \in Frames
  BY <1>1, <1>3, <1>5, DecideType
<1> QED BY <1>1, <1>3, <1>4, <1>6 DEF TypeOK, deviceVars

LEMMA UsedType ==
  ASSUME TypeOK
  PROVE  /\ used \in [changes : Nat, faults : Nat, requests : Nat]
         /\ [used EXCEPT !.changes = @ + 1] \in [changes : Nat, faults : Nat, requests : Nat]
         /\ [used EXCEPT !.faults = @ + 1] \in [changes : Nat, faults : Nat, requests : Nat]
         /\ [used EXCEPT !.requests = @ + 1] \in [changes : Nat, faults : Nat, requests : Nat]
BY DEF TypeOK

LEMMA RestType ==
  ASSUME TypeOK PROVE RestAnswer \in Answers
BY DEF TypeOK, TvStates, RestAnswer, Unreachable, Answer, Answers, Powers

(* What a poll keeps while it goes from one read to the next.              *)
LEMMA PollUpdateType ==
  ASSUME TypeOK, NEW p \in Pollers
  PROVE  /\ poll[p] \in Polls
         /\ \A at \in Awaits : [poll EXCEPT ![p].at = at] \in [Pollers -> Polls]
         /\ \A v \in {"on", "off", "unknown"} :
              [poll EXCEPT ![p].at = "current", ![p].sample = v] \in [Pollers -> Polls]
         /\ \A v \in {"shown", "none"} :
              [poll EXCEPT ![p].at = "settings", ![p].image = v] \in [Pollers -> Polls]
<1>1. poll \in [Pollers -> Polls]
  BY DEF TypeOK
<1>2. poll[p] \in Polls
  BY <1>1
<1>3. ASSUME NEW at \in Awaits PROVE [poll EXCEPT ![p].at = at] \in [Pollers -> Polls]
  <2>1. [poll[p] EXCEPT !.at = at] \in Polls
    BY <1>2 DEF Polls
  <2> QED BY <1>1, <2>1
<1>4. ASSUME NEW v \in {"on", "off", "unknown"}
      PROVE  [poll EXCEPT ![p].at = "current", ![p].sample = v] \in [Pollers -> Polls]
  <2>1. [poll[p] EXCEPT !.at = "current", !.sample = v] \in Polls
    BY <1>2 DEF Polls, Awaits
  <2> QED BY <1>1, <2>1
<1>5. ASSUME NEW v \in {"shown", "none"}
      PROVE  [poll EXCEPT ![p].at = "settings", ![p].image = v] \in [Pollers -> Polls]
  <2>1. [poll[p] EXCEPT !.at = "settings", !.image = v] \in Polls
    BY <1>2 DEF Polls, Awaits
  <2> QED BY <1>1, <2>1
<1> QED BY <1>2, <1>3, <1>4, <1>5

LEMMA PollStepType ==
  ASSUME TypeOK, NEW p \in Pollers, PollStep(p) PROVE TypeOK'
<1> USE UsedType, PollUpdateType
<1> DEFINE Same == UNCHANGED <<deviceVars, windowVars, cacheVars, seenVars, data>>
<1>0. ASSUME Same, poll' \in [Pollers -> Polls],
             used' \in [changes : Nat, faults : Nat, requests : Nat]
      PROVE  TypeOK'
  BY <1>0 DEF TypeOK, deviceVars, windowVars, cacheVars, seenVars
<1>1. CASE AsyncDeviceInfo(p)
  BY <1>1, RestType, InfoAnswerType DEF AsyncDeviceInfo
<1>2. CASE AsyncGetArtmode(p)
  <2>1. PICK v \in {"on", "off", "unknown"} :
          /\ Reads(ArtAnswers, "unknown", v)
          /\ IF SessionIsReady(poll[p].gen)
             THEN /\ poll' = [poll EXCEPT ![p].at = "current", ![p].sample = v]
                  /\ Same
             ELSE /\ UNCHANGED optGen
                  /\ ReconcileEnds(p, [poll[p] EXCEPT !.sample = v], TRUE, FALSE)
    BY <1>2 DEF AsyncGetArtmode
  <2>2. used' \in [changes : Nat, faults : Nat, requests : Nat]
    BY <2>1 DEF Reads, ReadFails
  <2>3. [poll[p] EXCEPT !.sample = v] \in Polls
    <3>1. poll[p] \in Polls
      OBVIOUS
    <3> HIDE UsedType, PollUpdateType
    <3> QED BY <3>1 DEF Polls
  <2>4. CASE SessionIsReady(poll[p].gen)
    <3>1. poll' = [poll EXCEPT ![p].at = "current", ![p].sample = v] /\ Same
      <4> HIDE UsedType, PollUpdateType DEF Same
      <4> QED BY <2>1, <2>4
    <3>2. [poll EXCEPT ![p].at = "current", ![p].sample = v] \in [Pollers -> Polls]
      OBVIOUS
    <3>3. poll' \in [Pollers -> Polls]
      <4> HIDE UsedType, PollUpdateType DEF Same
      <4> QED BY <3>1, <3>2
    <3> QED BY <2>2, <3>1, <3>3, <1>0
  <2>5. CASE ~SessionIsReady(poll[p].gen)
    <3>1. optGen' \in 0 .. MaxSessions
      BY <2>1, <2>5 DEF TypeOK
    <3> QED BY <2>1, <2>2, <2>3, <2>5, <3>1, ReconcileEndsType
  <2> QED BY <2>4, <2>5
<1>3. CASE AsyncGetCurrentArt(p)
  <2>1. PICK v \in {"shown", "none"} :
          /\ Reads({"shown"}, "none", v)
          /\ IF SessionIsReady(poll[p].gen)
             THEN /\ poll' = [poll EXCEPT ![p].at = "settings", ![p].image = v]
                  /\ Same
             ELSE /\ UNCHANGED optGen
                  /\ ReconcileEnds(p, poll[p], TRUE, FALSE)
    BY <1>3 DEF AsyncGetCurrentArt
  <2>2. used' \in [changes : Nat, faults : Nat, requests : Nat]
    BY <2>1 DEF Reads, ReadFails
  <2>4. CASE SessionIsReady(poll[p].gen)
    <3>1. poll' = [poll EXCEPT ![p].at = "settings", ![p].image = v] /\ Same
      <4> HIDE UsedType, PollUpdateType DEF Same
      <4> QED BY <2>1, <2>4
    <3>2. [poll EXCEPT ![p].at = "settings", ![p].image = v] \in [Pollers -> Polls]
      OBVIOUS
    <3>3. poll' \in [Pollers -> Polls]
      <4> HIDE UsedType, PollUpdateType DEF Same
      <4> QED BY <3>1, <3>2
    <3> QED BY <2>2, <3>1, <3>3, <1>0
  <2>5. CASE ~SessionIsReady(poll[p].gen)
    <3>1. optGen' \in 0 .. MaxSessions
      BY <2>1, <2>5 DEF TypeOK
    <3> QED BY <2>1, <2>2, <2>5, <3>1, ReconcileEndsType
  <2> QED BY <2>4, <2>5
<1>4. CASE AsyncGetArtSettings(p)
  <2>1. UNCHANGED used
    BY <1>4 DEF AsyncGetArtSettings
  <2>2. CASE SessionIsReady(poll[p].gen)
    <3>1. poll' = [poll EXCEPT ![p].at = "slideshow"] /\ Same
      BY <1>4, <2>2 DEF AsyncGetArtSettings
    <3>2. poll' \in [Pollers -> Polls]
      BY <3>1 DEF Awaits
    <3> QED BY <1>0, <2>1, <3>1, <3>2
  <2>3. CASE ~SessionIsReady(poll[p].gen)
    <3>1. ReconcileEnds(p, poll[p], FALSE, FALSE) /\ UNCHANGED optGen
      BY <1>4, <2>3 DEF AsyncGetArtSettings
    <3>2. optGen' \in 0 .. MaxSessions
      BY <3>1 DEF TypeOK
    <3> QED BY <2>1, <3>1, <3>2, ReconcileEndsType
  <2> QED BY <2>2, <2>3
<1>5. CASE AsyncGetSlideshowState(p)
  <2>1. /\ optGen' = IF StillOwned(poll[p]) THEN poll[p].gen ELSE optGen
        /\ ReconcileEnds(p, poll[p], TRUE, TRUE) /\ UNCHANGED used
    BY <1>5 DEF AsyncGetSlideshowState
  <2>2. optGen' \in 0 .. MaxSessions
    BY <2>1 DEF TypeOK, Polls
  <2> QED BY <2>1, <2>2, ReconcileEndsType
<1>6. CASE PollReturns(p)
  <2>1. /\ UNCHANGED <<deviceVars, windowVars, cacheVars, seenVars, used>>
        /\ data' = Snapshot(poll[p].ans, poll[p].art, poll[p].mode)
        /\ poll' = [poll EXCEPT ![p] = Idle]
    BY <1>6 DEF PollReturns, Reset
  <2>2. image' \in Images /\ optGen' \in 0 .. MaxSessions
    BY <2>1 DEF TypeOK, cacheVars
  <2>3. /\ poll[p].ans \in Answers /\ poll[p].art \in ArtModes /\ poll[p].mode \in Modes
    BY DEF Polls
  <2>4. [poll[p].art EXCEPT !.v = "off"] \in ArtModes
    BY <2>3 DEF ArtModes
  <2>5. [image' EXCEPT !.v = "none"] \in Images
    BY <2>2 DEF Images
  <2>6. 0 \in 0 .. MaxSessions
    BY BoundsAssumption
  <2>7. Snapshot(poll[p].ans, poll[p].art, poll[p].mode) \in Frames
    BY <2>2, <2>3, <2>4, <2>5, <2>6 DEF Snapshot, Frames, Answers
  <2>8. poll' \in [Pollers -> Polls]
    BY <2>1, IdleType DEF TypeOK
  <2> HIDE UsedType, PollUpdateType
  <2> QED BY <2>1, <2>7, <2>8
          DEF TypeOK, deviceVars, windowVars, cacheVars, seenVars
<1> QED BY <1>1, <1>2, <1>3, <1>4, <1>5, <1>6 DEF PollStep

LEMMA LossType ==
  ASSUME TypeOK, NEW p \in Pollers, DeviceInfoLost(p) \/ PollExpires(p)
  PROVE  TypeOK'
<1>1. CASE DeviceInfoLost(p)
  BY <1>1, UsedType, IdleType, InfoAnswerType DEF DeviceInfoLost
<1>2. CASE PollExpires(p)
  <2>1. /\ poll' = [poll EXCEPT ![p] = Idle]
        /\ used' = [used EXCEPT !.faults = @ + 1]
        /\ UNCHANGED <<deviceVars, windowVars, cacheVars, seenVars, data>>
    BY <1>2 DEF PollExpires, Reset
  <2>2. poll' \in [Pollers -> Polls]
    BY <2>1, IdleType DEF TypeOK
  <2> QED BY <2>1, <2>2, UsedType
          DEF TypeOK, deviceVars, windowVars, cacheVars, seenVars
<1> QED BY <1>1, <1>2

LEMMA PublishPushType ==
  ASSUME TypeOK, artMode' \in ArtModes, image' \in Images, PublishPush
  PROVE  streak' \in 0 .. ArtFailUnknown /\ confirmed' \in BOOLEAN /\ data' \in Frames
<1> DEFINE power == IF latestPower # "none" THEN latestPower
                    ELSE IF data.mode = "nodata" THEN "on" ELSE data.power
           mode == HoldUnlessKnown(PushedMode(power))
<1>1. power \in Powers
  BY DEF TypeOK, Frames, Powers
<1>2. mode \in Modes
  BY ModeType DEF PushedMode
<1> HIDE DEF power, mode
<1>3. /\ streak' = 0 /\ confirmed' = (confirmed /\ mode # "off")
      /\ data' = [data EXCEPT !.reachable = TRUE, !.power = power, !.mode = mode,
                              !.art = artMode', !.image = image']
  BY DEF PublishPush, power, mode
<1>4. data' \in Frames
  BY <1>1, <1>2, <1>3 DEF TypeOK, Frames
<1>5. streak' \in 0 .. ArtFailUnknown
  BY <1>3, LimitsAssumption
<1> QED BY <1>3, <1>4, <1>5

LEMMA ArtEventType ==
  ASSUME TypeOK, ArtEvent PROVE TypeOK'
<1>1. CASE ArtModePushed
  <2>1. PICK v \in ArtAnswers : artMode' = Stamped(v, rev.mode + 1)
    BY <1>1 DEF ArtModePushed
  <2>2. v \in {"on", "off"}
    BY DEF ArtAnswers, TypeOK, TvStates
  <2>3. artMode' \in ArtModes
    BY <2>1, <2>2 DEF TypeOK, Revisions, ArtModes, Stamped
  <2>4. image' \in Images
    BY <1>1 DEF ArtModePushed, TypeOK
  <2>5. rev' \in Revisions
    <3>1. rev' = [rev EXCEPT !.mode = @ + 1, !.live = @ + 1]
      BY <1>1 DEF ArtModePushed
    <3>2. rev \in [mode : Nat, image : Nat, live : Nat]
      BY DEF TypeOK, Revisions
    <3>3. rev.mode + 1 \in Nat /\ rev.live + 1 \in Nat
      BY <3>2
    <3> QED BY <3>1, <3>2, <3>3 DEF Revisions
  <2>6. streak' \in 0 .. ArtFailUnknown /\ confirmed' \in BOOLEAN /\ data' \in Frames
    BY <1>1, <2>3, <2>4, PublishPushType DEF ArtModePushed
  <2>7. learned' \in BOOLEAN
    BY <1>1 DEF ArtModePushed, TypeOK
  <2> QED BY <1>1, <2>3, <2>4, <2>5, <2>6, <2>7 DEF ArtModePushed, TypeOK, windowVars
<1>2. CASE ImagePushed
  <2>1. artMode' \in ArtModes /\ learned' \in BOOLEAN
    BY <1>2 DEF ImagePushed, TypeOK
  <2>2. image' \in Images
    BY <1>2 DEF ImagePushed, TypeOK, Revisions, Images, Stamped
  <2>3. rev' \in Revisions
    <3>1. rev' = [rev EXCEPT !.image = @ + 1, !.live = @ + 1]
      BY <1>2 DEF ImagePushed
    <3>2. rev \in [mode : Nat, image : Nat, live : Nat]
      BY DEF TypeOK, Revisions
    <3>3. rev.image + 1 \in Nat /\ rev.live + 1 \in Nat
      BY <3>2
    <3> QED BY <3>1, <3>2, <3>3 DEF Revisions
  <2>4. streak' \in 0 .. ArtFailUnknown /\ confirmed' \in BOOLEAN /\ data' \in Frames
    BY <1>2, <2>1, <2>2, PublishPushType DEF ImagePushed
  <2> QED BY <1>2, <2>1, <2>2, <2>3, <2>4 DEF ImagePushed, TypeOK, windowVars
<1>3. CASE GoToStandby
  <2>1. rev' \in Revisions
    BY <1>3 DEF GoToStandby, TypeOK, Revisions
  <2>2. streak' \in 0 .. ArtFailUnknown
    BY <1>3, LimitsAssumption DEF GoToStandby
  <2> QED BY <1>3, <2>1, <2>2 DEF GoToStandby, TypeOK, windowVars
<1> QED BY <1>1, <1>2, <1>3 DEF ArtEvent

(* The steps of the environment, and the start of a poll.                  *)
LEMMA EnvironmentType ==
  ASSUME TypeOK,
         \/ \E p \in Pollers : StartPoll(p) \/ AsyncRequestArtReconcile(p)
         \/ TvChanges \/ ImageChanges \/ SessionReady \/ SessionLost
         \/ WindowElapses \/ RemoteConfirmed
  PROVE  TypeOK'
<1> USE DEF TypeOK, Others
<1>0. NoneBegun \in [gen : 0 .. MaxSessions, n : Nat]
  BY BoundsAssumption DEF NoneBegun
<1>1. ASSUME NEW p \in Pollers, StartPoll(p) PROVE TypeOK'
  <2>1. poll' \in [Pollers -> Polls]
    BY <1>1, PollUpdateType DEF StartPoll, Awaits
  <2> QED BY <1>1, <2>1
          DEF StartPoll, deviceVars, windowVars, cacheVars, seenVars
<1>2. ASSUME NEW p \in Pollers, AsyncRequestArtReconcile(p) PROVE TypeOK'
  <2>1. poll' \in [Pollers -> Polls]
    BY <1>2, PollUpdateType DEF AsyncRequestArtReconcile, Awaits
  <2> QED BY <1>0, <1>2, <2>1, UsedType
          DEF AsyncRequestArtReconcile, deviceVars, cacheVars, seenVars
<1>3. CASE TvChanges
  BY <1>3, UsedType DEF TvChanges, windowVars, cacheVars, seenVars
<1>4. CASE ImageChanges
  BY <1>4, UsedType DEF ImageChanges, windowVars, cacheVars, seenVars
<1>5. CASE SessionReady
  <2>1. gen' \in 0 .. MaxSessions
    BY <1>5, BoundsAssumption DEF SessionReady
  <2> QED BY <1>5, <2>1 DEF SessionReady, windowVars, cacheVars, seenVars
<1>6. CASE SessionLost
  BY <1>6 DEF SessionLost, windowVars, cacheVars, seenVars
<1>7. CASE WindowElapses
  BY <1>0, <1>7 DEF WindowElapses, deviceVars, cacheVars, seenVars
<1>8. CASE RemoteConfirmed
  BY <1>8, UsedType DEF RemoteConfirmed, deviceVars, windowVars, cacheVars
<1> QED BY <1>1, <1>2, <1>3, <1>4, <1>5, <1>6, <1>7, <1>8

LEMMA InitType == Init => TypeOK
<1>1. 0 \in 0 .. MaxSessions /\ -1 \in -1 .. MaxSessions
  BY BoundsAssumption
<1>2. 0 \in 0 .. OffDebounce /\ 0 \in 0 .. ArtFailUnknown
  BY LimitsAssumption
<1>3. /\ Stamped("unknown", 0) \in ArtModes /\ Stamped("none", 0) \in Images
      /\ NoneBegun \in [gen : 0 .. MaxSessions, n : Nat]
  BY <1>1 DEF Stamped, ArtModes, Images, NoneBegun
<1>4. Idle.rev \in Revisions
  BY DEF Idle, Revisions
<1> SUFFICES ASSUME Init PROVE TypeOK
  OBVIOUS
<1>5. data \in Frames
  BY <1>1, <1>3 DEF Init, Frames, Powers
<1>6. poll \in [Pollers -> Polls]
  BY IdleType DEF Init
<1>7. used \in [changes : Nat, faults : Nat, requests : Nat]
  BY DEF Init
<1> QED BY <1>1, <1>2, <1>3, <1>4, <1>5, <1>6, <1>7 DEF Init, TypeOK, Powers

LEMMA StepType == TypeOK /\ [Next]_vars => TypeOK'
<1> SUFFICES ASSUME TypeOK, [Next]_vars PROVE TypeOK'
  OBVIOUS
<1>1. CASE Next
  BY <1>1, PollStepType, LossType, ArtEventType, EnvironmentType DEF Next
<1>2. CASE UNCHANGED vars
  BY <1>2 DEF TypeOK, vars, deviceVars, windowVars, cacheVars, seenVars
<1> QED BY <1>1, <1>2

(* The state of the coordinator keeps its types over every schedule of     *)
(* polls and pushes: no counter passes its limit, and what is published is *)
(* always a well-formed FrameData.                                         *)
THEOREM TypeCorrect == Spec => []TypeOK
BY InitType, StepType, PTL DEF Spec

-----------------------------------------------------------------------------
(* Ages: what is cached is never newer than the pushes handled, and what   *)
(* is published never newer than the cache.                                *)

Ages ==
  /\ artMode.at <= rev.mode /\ image.at <= rev.image
  /\ data.image.at <= image.at /\ optGen <= gen

\* A step does not take any of them back.
AgesStep ==
  /\ artMode.at <= artMode'.at /\ image.at <= image'.at
  /\ data.image.at <= data'.image.at /\ optGen <= optGen'
  /\ data'.optGen \notin {0, data.optGen} => ready /\ data'.optGen = gen

\* What a step may do to the published FrameData.
Published ==
  \/ data'.image = data.image /\ data'.optGen = data.optGen
  \/ /\ data'.image.at = image'.at
     /\ data'.optGen \notin {0, data.optGen} => ready /\ data'.optGen = gen

\* All that AgesStep and Ages' follow from.
CacheMoves ==
  /\ artMode'.at = artMode.at \/ artMode'.at = rev'.mode
  /\ image'.at = image.at \/ image'.at = rev'.image
  /\ rev'.mode >= rev.mode /\ rev'.image >= rev.image
  /\ optGen' \in {optGen, gen'} /\ gen' >= gen
  /\ Published

LEMMA AgesKept ==
  ASSUME TypeOK, TypeOK', Ages, CacheMoves
  PROVE  AgesStep /\ Ages'
<1>1. /\ artMode.at \in Nat /\ artMode'.at \in Nat /\ image.at \in Nat
      /\ image'.at \in Nat /\ data.image.at \in Nat /\ data'.image.at \in Nat
      /\ rev.mode \in Nat /\ rev'.mode \in Nat /\ rev.image \in Nat
      /\ rev'.image \in Nat
  BY DEF TypeOK, ArtModes, Images, Revisions, Frames
<1>2. gen \in Nat /\ gen' \in Nat /\ optGen \in Nat /\ optGen' \in Nat
  BY BoundsAssumption DEF TypeOK
<1> QED BY <1>1, <1>2 DEF Ages, AgesStep, CacheMoves, Published

LEMMA SnapshotPublishes ==
  ASSUME TypeOK, NEW ans, NEW art, NEW mode, image' \in Images,
         data' = Snapshot(ans, art, mode)
  PROVE  Published
<1>1. /\ data'.image = IF mode = "off" THEN [image' EXCEPT !.v = "none"] ELSE image'
      /\ data'.optGen = IF OptionalFresh /\ mode # "off" THEN optGen' ELSE 0
  BY DEF Snapshot
<1>2. data'.image.at = image'.at
  BY <1>1 DEF Images
<1> QED BY <1>1, <1>2 DEF Published, OptionalFresh

LEMMA DecidePublishes ==
  ASSUME TypeOK, NEW p \in Pollers, NEW l, NEW c, image' \in Images, Decide(p, l, c)
  PROVE  Published
<1>1. CASE UNCHANGED data
  BY <1>1 DEF Published
<1>2. CASE ~UNCHANGED data
  <2>1. PICK art, mode : data' = Snapshot(l.ans, art, mode)
    BY <1>2 DEF Decide
  <2> QED BY <2>1, SnapshotPublishes
<1> QED BY <1>1, <1>2

LEMMA InfoAnswerMoves ==
  ASSUME TypeOK, TypeOK', NEW p \in Pollers, NEW ans, InfoAnswer(p, ans)
  PROVE  CacheMoves
<1>1. UNCHANGED <<deviceVars, cacheVars>>
  BY DEF InfoAnswer
<1>2. Published
  <2>1. CASE UNCHANGED data
    BY <2>1 DEF Published
  <2>2. CASE ~UNCHANGED data
    <3>1. PICK l, c : Decide(p, l, c)
      BY <2>2 DEF InfoAnswer
    <3> QED BY <3>1, DecidePublishes DEF TypeOK
  <2> QED BY <2>1, <2>2
<1> QED BY <1>1, <1>2, BoundsAssumption
        DEF CacheMoves, deviceVars, cacheVars, TypeOK, Revisions

LEMMA ReconcileEndsMoves ==
  ASSUME TypeOK, TypeOK', NEW p \in Pollers, NEW l, NEW stores, NEW imageValid,
         ReconcileEnds(p, l, stores, imageValid), optGen' \in {optGen, gen}
  PROVE  CacheMoves
<1>1. UNCHANGED <<gen, rev>>
  BY DEF ReconcileEnds, deviceVars
<1>2. artMode' = artMode \/ artMode' = Stamped(l.sample, rev.mode)
  BY DEF ReconcileEnds, MayStore
<1>3. image' = image \/ image' = Stamped(l.image, rev.image)
  BY DEF ReconcileEnds, MayStore
<1>4. Published
  BY DecidePublishes DEF ReconcileEnds, TypeOK
<1>5. rev.mode \in Nat /\ rev.image \in Nat /\ gen \in Nat
  BY BoundsAssumption DEF TypeOK, Revisions
<1> QED BY <1>1, <1>2, <1>3, <1>4, <1>5 DEF CacheMoves, Stamped

LEMMA Unmoved ==
  ASSUME TypeOK, UNCHANGED <<artMode, image, rev, optGen, data>>, gen' >= gen
  PROVE  CacheMoves
BY DEF CacheMoves, Published, TypeOK, Revisions

LEMMA PollStepMoves ==
  ASSUME TypeOK, TypeOK', NEW p \in Pollers, PollStep(p) PROVE CacheMoves
<1> DEFINE Same == UNCHANGED <<deviceVars, windowVars, cacheVars, seenVars, data>>
<1>0. ASSUME Same PROVE CacheMoves
  BY <1>0, Unmoved, BoundsAssumption DEF deviceVars, cacheVars, TypeOK
<1>1. CASE AsyncDeviceInfo(p)
  BY <1>1, InfoAnswerMoves DEF AsyncDeviceInfo
<1>2. CASE AsyncGetArtmode(p)
  <2>1. Same \/ \E l : ReconcileEnds(p, l, TRUE, FALSE) /\ UNCHANGED optGen
    BY <1>2 DEF AsyncGetArtmode
  <2> QED BY <2>1, <1>0, ReconcileEndsMoves
<1>3. CASE AsyncGetCurrentArt(p)
  <2>1. Same \/ (ReconcileEnds(p, poll[p], TRUE, FALSE) /\ UNCHANGED optGen)
    BY <1>3 DEF AsyncGetCurrentArt
  <2> QED BY <2>1, <1>0, ReconcileEndsMoves
<1>4. CASE AsyncGetArtSettings(p)
  <2>1. Same \/ (ReconcileEnds(p, poll[p], FALSE, FALSE) /\ UNCHANGED optGen)
    BY <1>4 DEF AsyncGetArtSettings
  <2> QED BY <2>1, <1>0, ReconcileEndsMoves
<1>5. CASE AsyncGetSlideshowState(p)
  <2>1. ReconcileEnds(p, poll[p], TRUE, TRUE) /\ optGen' \in {optGen, gen}
    BY <1>5 DEF AsyncGetSlideshowState, StillOwned, SessionIsReady
  <2> QED BY <2>1, ReconcileEndsMoves
<1>6. CASE PollReturns(p)
  <2>1. /\ UNCHANGED <<artMode, image, rev, optGen, gen>>
        /\ data' = Snapshot(poll[p].ans, poll[p].art, poll[p].mode)
    BY <1>6 DEF PollReturns, deviceVars, cacheVars
  <2>2. Published
    BY <2>1, SnapshotPublishes DEF TypeOK
  <2> QED BY <2>1, <2>2, BoundsAssumption DEF CacheMoves, TypeOK, Revisions
<1> QED BY <1>1, <1>2, <1>3, <1>4, <1>5, <1>6 DEF PollStep

LEMMA ArtEventMoves ==
  ASSUME TypeOK, TypeOK', ArtEvent PROVE CacheMoves
<1>1. rev.mode \in Nat /\ rev.image \in Nat /\ gen \in Nat
  BY BoundsAssumption DEF TypeOK, Revisions
<1>2. ASSUME PublishPush PROVE data'.image = image' /\ data'.optGen = data.optGen
  <2>1. PICK pw, mode :
          data' = [data EXCEPT !.reachable = TRUE, !.power = pw, !.mode = mode,
                               !.art = artMode', !.image = image']
    BY <1>2 DEF PublishPush
  <2> QED BY <2>1 DEF TypeOK, Frames
<1>3. CASE ArtModePushed
  <2>1. /\ UNCHANGED <<image, optGen, gen>> /\ PublishPush
        /\ rev' = [rev EXCEPT !.mode = @ + 1, !.live = @ + 1]
        /\ \E v : artMode' = Stamped(v, rev.mode + 1)
    BY <1>3 DEF ArtModePushed
  <2>2. rev'.mode = rev.mode + 1 /\ rev'.image = rev.image
    BY <2>1 DEF TypeOK, Revisions
  <2>3. artMode'.at = rev.mode + 1
    BY <2>1 DEF Stamped
  <2> QED BY <1>1, <1>2, <2>1, <2>2, <2>3 DEF CacheMoves, Published
<1>4. CASE ImagePushed
  <2>1. /\ UNCHANGED <<artMode, optGen, gen>> /\ PublishPush
        /\ rev' = [rev EXCEPT !.image = @ + 1, !.live = @ + 1]
        /\ image' = Stamped("shown", rev.image + 1)
    BY <1>4 DEF ImagePushed
  <2>2. rev'.image = rev.image + 1 /\ rev'.mode = rev.mode
    BY <2>1 DEF TypeOK, Revisions
  <2>3. image'.at = rev.image + 1
    BY <2>1 DEF Stamped
  <2> QED BY <1>1, <1>2, <2>1, <2>2, <2>3 DEF CacheMoves, Published
<1>5. CASE GoToStandby
  <2>1. /\ UNCHANGED <<artMode, image, optGen, gen, data>>
        /\ rev' = [rev EXCEPT !.live = @ + 1]
    BY <1>5 DEF GoToStandby
  <2>2. rev'.image = rev.image /\ rev'.mode = rev.mode
    BY <2>1 DEF TypeOK, Revisions
  <2> QED BY <1>1, <2>1, <2>2 DEF CacheMoves, Published
<1> QED BY <1>3, <1>4, <1>5 DEF ArtEvent

LEMMA NextMoves ==
  ASSUME TypeOK, TypeOK', [Next]_vars PROVE CacheMoves
<1>0. gen \in Nat
  BY BoundsAssumption DEF TypeOK
<1>1. ASSUME NEW p \in Pollers,
             StartPoll(p) \/ AsyncRequestArtReconcile(p) \/ PollExpires(p)
      PROVE  CacheMoves
  BY <1>0, <1>1, Unmoved
     DEF StartPoll, AsyncRequestArtReconcile, PollExpires, deviceVars, cacheVars
<1>2. ASSUME NEW p \in Pollers, DeviceInfoLost(p) PROVE CacheMoves
  BY <1>2, InfoAnswerMoves DEF DeviceInfoLost
<1>3. CASE \/ TvChanges \/ ImageChanges \/ SessionReady \/ SessionLost
           \/ WindowElapses \/ RemoteConfirmed
  BY <1>0, <1>3, Unmoved
     DEF TvChanges, ImageChanges, SessionReady, SessionLost, WindowElapses,
         RemoteConfirmed, Others, deviceVars, cacheVars
<1>4. CASE UNCHANGED vars
  BY <1>0, <1>4, Unmoved DEF vars, deviceVars, cacheVars
<1> QED BY <1>1, <1>2, <1>3, <1>4, PollStepMoves, ArtEventMoves DEF Next

(* A reconciliation in flight never puts back an art mode or a picture     *)
(* older than a push handled meanwhile, whatever polls overlap.            *)
THEOREM PushesStand == Spec => NewerPushStands
<1>1. Init => Ages
  BY BoundsAssumption DEF Init, Ages, Stamped, Idle
<1>2. TypeOK /\ TypeOK' /\ Ages /\ [Next]_vars => AgesStep /\ Ages'
  BY NextMoves, AgesKept
<1>3. TypeOK /\ TypeOK' /\ AgesStep =>
        [/\ artMode'.at >= artMode.at /\ image'.at >= image.at
         /\ data'.image.at >= data.image.at]_vars
  BY DEF AgesStep, TypeOK, ArtModes, Images, Frames
<1> QED BY <1>1, <1>2, <1>3, TypeCorrect, PTL DEF Spec, NewerPushStands

(* The optional snapshots never go back to an older generation, and are    *)
(* published only for the generation that is ready.                        *)
THEOREM OptionalsCurrent == Spec => OptionalCurrent
<1>1. Init => Ages
  BY BoundsAssumption DEF Init, Ages, Stamped, Idle
<1>2. TypeOK /\ TypeOK' /\ Ages /\ [Next]_vars => AgesStep /\ Ages'
  BY NextMoves, AgesKept
<1>3. TypeOK /\ TypeOK' /\ AgesStep =>
        [/\ optGen' >= optGen
         /\ data'.optGen \notin {0, data.optGen} => ready /\ data'.optGen = gen]_vars
  BY BoundsAssumption DEF AgesStep, TypeOK
<1> QED BY <1>1, <1>2, <1>3, TypeCorrect, PTL DEF Spec, OptionalCurrent

-----------------------------------------------------------------------------
(* The window: requests and pacing.                                        *)

\* A reconciliation that has begun has closed the window, and reserved its
\* generation.
Paced ==
  /\ forced => windowOpen
  /\ windowOpen => begun.n = 0
  /\ begun.n <= 1
  /\ begun.n # 0 => begun.gen = artGen

\* What a step may do to the window: nothing, open it, or begin a
\* reconciliation that is due.
WindowMoves ==
  \/ UNCHANGED windowVars
  \/ windowOpen' = TRUE /\ begun' = NoneBegun /\ UNCHANGED artGen
  \/ Reserve /\ (gen # artGen \/ windowOpen)

LEMMA PacedKept ==
  ASSUME TypeOK, Paced, WindowMoves PROVE Paced'
<1>1. CASE UNCHANGED windowVars
  BY <1>1 DEF Paced, windowVars
<1>2. CASE windowOpen' = TRUE /\ begun' = NoneBegun /\ UNCHANGED artGen
  BY <1>2 DEF Paced, NoneBegun
<1>3. CASE Reserve /\ (gen # artGen \/ windowOpen)
  <2>1. gen = begun.gen => begun.n = 0
    BY <1>3 DEF Paced, TypeOK
  <2>2. begun'.n = 1 /\ begun'.gen = gen
    BY <1>3, <2>1 DEF Reserve, BeginsAnother
  <2>3. windowOpen' = FALSE /\ forced' = FALSE /\ artGen' = gen
    BY <1>3 DEF Reserve
  <2> QED BY <2>2, <2>3 DEF Paced
<1> QED BY <1>1, <1>2, <1>3 DEF WindowMoves

LEMMA NextWindow ==
  ASSUME TypeOK, [Next]_vars PROVE WindowMoves
<1>1. ASSUME NEW p, NEW ans, InfoAnswer(p, ans) PROVE WindowMoves
  BY <1>1 DEF InfoAnswer, WindowMoves, ReconcileDue
<1>2. ASSUME NEW p, NEW l, NEW a, NEW b, ReconcileEnds(p, l, a, b)
      PROVE  UNCHANGED windowVars
  BY <1>2 DEF ReconcileEnds, WindowAtEnd, windowVars
<1>3. ASSUME NEW p, PollStep(p) PROVE WindowMoves
  <2>1. CASE AsyncDeviceInfo(p)
    BY <1>1, <2>1 DEF AsyncDeviceInfo
  <2>2. CASE AsyncGetArtmode(p)
    BY <1>2, <2>2 DEF AsyncGetArtmode, WindowMoves
  <2>3. CASE AsyncGetCurrentArt(p)
    BY <1>2, <2>3 DEF AsyncGetCurrentArt, WindowMoves
  <2>4. CASE AsyncGetArtSettings(p)
    BY <1>2, <2>4 DEF AsyncGetArtSettings, WindowMoves
  <2>5. CASE AsyncGetSlideshowState(p)
    BY <1>2, <2>5 DEF AsyncGetSlideshowState, WindowMoves
  <2>6. CASE PollReturns(p)
    BY <2>6 DEF PollReturns, WindowMoves
  <2> QED BY <1>3, <2>1, <2>2, <2>3, <2>4, <2>5, <2>6 DEF PollStep
<1>4. ASSUME NEW p, \/ StartPoll(p) \/ AsyncRequestArtReconcile(p)
                    \/ DeviceInfoLost(p) \/ PollExpires(p)
      PROVE  WindowMoves
  BY <1>1, <1>4
     DEF StartPoll, AsyncRequestArtReconcile, DeviceInfoLost, PollExpires, WindowMoves
<1>5. CASE ArtEvent
  BY <1>5 DEF ArtEvent, ArtModePushed, ImagePushed, GoToStandby, WindowMoves
<1>6. CASE \/ TvChanges \/ ImageChanges \/ SessionReady \/ SessionLost
           \/ WindowElapses \/ RemoteConfirmed
  BY <1>6 DEF TvChanges, ImageChanges, SessionReady, SessionLost, WindowElapses,
              RemoteConfirmed, WindowMoves
<1>7. CASE UNCHANGED vars
  BY <1>7 DEF vars, WindowMoves
<1> QED BY <1>3, <1>4, <1>5, <1>6, <1>7 DEF Next

LEMMA PacedAlways == Spec => []Paced
<1>1. Init => Paced
  BY DEF Init, Paced, NoneBegun
<1>2. TypeOK /\ Paced /\ [Next]_vars => Paced'
  BY NextWindow, PacedKept
<1> QED BY <1>1, <1>2, TypeCorrect, PTL DEF Spec

(* A forced reconciliation is never swallowed by one already running.      *)
THEOREM RequestsKept == Spec => []RequestKept
<1>1. Paced => RequestKept
  BY DEF Paced, RequestKept
<1> QED BY <1>1, PacedAlways, PTL

(* One window and one generation see one reconciliation begin, whatever    *)
(* polls overlap or are cancelled.                                         *)
THEOREM ReconcilesPaced == Spec => []ReconcilePaced
<1>1. Paced => ReconcilePaced
  BY DEF Paced, ReconcilePaced
<1> QED BY <1>1, PacedAlways, PTL

-----------------------------------------------------------------------------
(* A learned standby, while no poll is forced beside the heartbeat.        *)

Reconciling == {"artmode", "current", "settings", "slideshow"}

\* What the heartbeat carries from one await to the next.
Carried(l) ==
  /\ l.at \in Reconciling =>
       l.ans.reachable /\ l.ans.power = latestPower /\ ~ShutdownStandby(latestPower)
  /\ l.at = "extras" =>
       l.ans.power = latestPower /\ (l.mode = "art_mode" => latestPower = "on")

StandbyShown == ShutdownStandby(latestPower) => data.mode # "art_mode"
StandbyInv == StandbyShown /\ Carried(poll["beat"])

LEMMA StandbyIsOff ==
  ASSUME NEW r, NEW a, NEW w, w = TRUE
  PROVE  /\ DeriveTvMode(r, a, "standby", w) = "off"
         /\ HoldUnlessKnown(DeriveTvMode(r, a, "standby", w)) = "off"
BY DEF DeriveTvMode, HoldUnlessKnown

(* The synchronous end of a poll, with the power it has itself stored.     *)
LEMMA DecideStandby ==
  ASSUME TypeOK, StandbyShown,
         NEW l \in Polls, NEW c \in BOOLEAN, Decide("beat", l, c),
         l.ans.power = latestPower', l.ans.power = "standby" => l.ans.reachable,
         learned' /\ latestPower' = "standby" => learned
  PROVE  StandbyInv'
<1>1. PICK art, mode :
        /\ mode = PolledMode(l, art.v)
        /\ IF mode = "watching" \/ (l.ans.reachable /\ l.ans.power = "on")
           THEN /\ poll' = [poll EXCEPT !["beat"] =
                              [Idle EXCEPT !.at = "extras", !.ans = l.ans,
                                           !.mode = mode, !.art = art]]
                /\ UNCHANGED data
           ELSE data' = Snapshot(l.ans, art, mode) /\ Reset("beat")
  BY DEF Decide
<1>2. learned' /\ latestPower' = "standby" => mode = "off"
  BY <1>1, StandbyIsOff DEF PolledMode
<1>3. poll \in [Pollers -> Polls] /\ "beat" \in Pollers
  BY PollersAssumption DEF TypeOK
<1>4. CASE mode = "watching" \/ (l.ans.reachable /\ l.ans.power = "on")
  <2>1. /\ data' = data
        /\ poll' = [poll EXCEPT !["beat"] =
                      [Idle EXCEPT !.at = "extras", !.ans = l.ans,
                                   !.mode = mode, !.art = art]]
    BY <1>1, <1>4
  <2>2. /\ poll'["beat"].at = "extras" /\ poll'["beat"].ans = l.ans
        /\ poll'["beat"].mode = mode
    BY <1>3, <2>1 DEF Idle
  <2>3. Carried(poll["beat"])'
    BY <1>4, <2>2 DEF Carried, Reconciling
  <2>4. ~(learned' /\ latestPower' = "standby")
    BY <1>2, <1>4
  <2> QED BY <2>3, <2>4 DEF StandbyInv, StandbyShown, ShutdownStandby
<1>5. CASE ~(mode = "watching" \/ (l.ans.reachable /\ l.ans.power = "on"))
  <2>1. data'.mode = mode
    BY <1>1, <1>5 DEF Snapshot
  <2>2. poll'["beat"].at = "idle"
    BY <1>1, <1>3, <1>5 DEF Reset, Idle
  <2> QED BY <1>2, <2>1, <2>2
          DEF StandbyInv, StandbyShown, ShutdownStandby, Carried, Reconciling
<1> QED BY <1>4, <1>5

LEMMA InfoAnswerStandby ==
  ASSUME TypeOK, StandbyInv, NEW ans \in Answers,
         InfoAnswer("beat", ans), ans.power = "standby" => ans.reachable
  PROVE  StandbyInv'
<1> DEFINE edge == ans.reachable /\ ~wasReachable
           l == [poll["beat"] EXCEPT !.ans = ans, !.edge = edge]
           c == confirmed /\ ans.reachable /\ ~edge
<1>1. poll["beat"] \in Polls /\ poll \in [Pollers -> Polls] /\ "beat" \in Pollers
  BY PollersAssumption DEF TypeOK
<1>2. edge \in BOOLEAN /\ c \in BOOLEAN
  BY DEF TypeOK, Answers
<1>3. l \in Polls /\ l.ans = ans
  <2> HIDE DEF edge
  <2> QED BY <1>1, <1>2 DEF Polls
<1> HIDE DEF l, c, edge
<1>4. /\ latestPower' = ans.power /\ UNCHANGED learned
      /\ IF ReconcileDue(ans)
         THEN /\ poll' = [poll EXCEPT !["beat"] = [l EXCEPT !.at = "artmode",
                                                   !.gen = gen, !.rev = rev]]
              /\ UNCHANGED data
         ELSE Decide("beat", l, c)
  BY DEF InfoAnswer, cacheVars, l, c, edge
<1>5. CASE ReconcileDue(ans)
  <2>1. poll'["beat"].at = "artmode" /\ poll'["beat"].ans = ans
    <3>1. poll'["beat"] = [l EXCEPT !.at = "artmode", !.gen = gen, !.rev = rev]
      BY <1>1, <1>4, <1>5
    <3> QED BY <1>3, <3>1 DEF Polls
  <2>2. ans.reachable /\ ~(ans.power = "standby" /\ learned)
    BY <1>5 DEF ReconcileDue, ShutdownStandby
  <2> QED BY <1>4, <2>1, <2>2
          DEF StandbyInv, StandbyShown, ShutdownStandby, Carried, Reconciling
<1>6. CASE ~ReconcileDue(ans)
  BY <1>2, <1>3, <1>4, <1>6, DecideStandby DEF StandbyInv
<1> QED BY <1>5, <1>6

LEMMA ReconcileEndsStandby ==
  ASSUME TypeOK, StandbyInv, NEW l \in Polls,
         NEW a, NEW b, ReconcileEnds("beat", l, a, b),
         l.at \in Reconciling, l.at = poll["beat"].at, l.ans = poll["beat"].ans
  PROVE  StandbyInv'
<1>1. /\ UNCHANGED latestPower /\ Decide("beat", l, confirmed)
      /\ learned' => learned \/ latestPower = "on"
  BY DEF ReconcileEnds
<1>2. l.ans.reachable /\ l.ans.power = latestPower
  BY DEF StandbyInv, Carried
<1>3. confirmed \in BOOLEAN
  BY DEF TypeOK
<1> QED BY <1>1, <1>2, <1>3, DecideStandby DEF StandbyInv

LEMMA PollStepStandby ==
  ASSUME TypeOK, StandbyInv, PollStep("beat")
  PROVE  StandbyInv'
<1> DEFINE l == poll["beat"]
           Same == UNCHANGED <<latestPower, learned, data>>
<1>0. l \in Polls /\ poll \in [Pollers -> Polls] /\ "beat" \in Pollers
  BY PollersAssumption DEF TypeOK
<1>1. CASE AsyncDeviceInfo("beat")
  <2>1. RestAnswer.power = "standby" => RestAnswer.reachable
    BY DEF TypeOK, TvStates, RestAnswer, Unreachable, Answer
  <2> QED BY <1>1, <2>1, RestType, InfoAnswerStandby DEF AsyncDeviceInfo
<1>2. ASSUME Same, NEW at \in Reconciling, l.at \in Reconciling,
             poll'["beat"].at = at, poll'["beat"].ans = l.ans
      PROVE  StandbyInv'
  BY <1>2 DEF StandbyInv, StandbyShown, ShutdownStandby, Carried, Reconciling
<1>3. CASE AsyncGetArtmode("beat")
  <2>1. PICK v \in {"on", "off", "unknown"} :
          IF SessionIsReady(l.gen)
          THEN poll' = [poll EXCEPT !["beat"].at = "current", !["beat"].sample = v] /\ Same
          ELSE ReconcileEnds("beat", [l EXCEPT !.sample = v], TRUE, FALSE)
    BY <1>3 DEF AsyncGetArtmode, cacheVars, seenVars
  <2>2. l.at = "artmode"
    BY <1>3 DEF AsyncGetArtmode
  <2>3. CASE SessionIsReady(l.gen)
    <3>1. poll'["beat"].at = "current" /\ poll'["beat"].ans = l.ans
      BY <1>0, <2>1, <2>3 DEF Polls
    <3> QED BY <1>2, <2>1, <2>2, <2>3, <3>1 DEF Reconciling
  <2>4. CASE ~SessionIsReady(l.gen)
    <3> DEFINE m == [l EXCEPT !.sample = v]
    <3>1. m \in Polls /\ m.at = l.at /\ m.ans = l.ans
      BY <1>0 DEF Polls
    <3> QED BY <2>1, <2>2, <2>4, <3>1, ReconcileEndsStandby DEF Reconciling
  <2> QED BY <2>3, <2>4
<1>4. CASE AsyncGetCurrentArt("beat")
  <2>1. PICK v \in {"shown", "none"} :
          IF SessionIsReady(l.gen)
          THEN poll' = [poll EXCEPT !["beat"].at = "settings", !["beat"].image = v] /\ Same
          ELSE ReconcileEnds("beat", l, TRUE, FALSE)
    BY <1>4 DEF AsyncGetCurrentArt, cacheVars, seenVars
  <2>2. l.at = "current"
    BY <1>4 DEF AsyncGetCurrentArt
  <2>3. CASE SessionIsReady(l.gen)
    <3>1. poll'["beat"].at = "settings" /\ poll'["beat"].ans = l.ans
      BY <1>0, <2>1, <2>3 DEF Polls
    <3> QED BY <1>2, <2>1, <2>2, <2>3, <3>1 DEF Reconciling
  <2>4. CASE ~SessionIsReady(l.gen)
    BY <1>0, <2>1, <2>2, <2>4, ReconcileEndsStandby DEF Reconciling
  <2> QED BY <2>3, <2>4
<1>5. CASE AsyncGetArtSettings("beat")
  <2>1. /\ l.at = "settings"
        /\ IF SessionIsReady(l.gen)
           THEN poll' = [poll EXCEPT !["beat"].at = "slideshow"] /\ Same
           ELSE ReconcileEnds("beat", l, FALSE, FALSE)
    BY <1>5 DEF AsyncGetArtSettings, cacheVars, seenVars
  <2>2. CASE SessionIsReady(l.gen)
    <3>1. poll'["beat"].at = "slideshow" /\ poll'["beat"].ans = l.ans
      BY <1>0, <2>1, <2>2 DEF Polls
    <3> QED BY <1>2, <2>1, <2>2, <3>1 DEF Reconciling
  <2>3. CASE ~SessionIsReady(l.gen)
    BY <1>0, <2>1, <2>3, ReconcileEndsStandby DEF Reconciling
  <2> QED BY <2>2, <2>3
<1>6. CASE AsyncGetSlideshowState("beat")
  BY <1>0, <1>6, ReconcileEndsStandby DEF AsyncGetSlideshowState, Reconciling
<1>7. CASE PollReturns("beat")
  <2>1. /\ l.at = "extras" /\ UNCHANGED <<latestPower, learned>>
        /\ data' = Snapshot(l.ans, l.art, l.mode)
        /\ poll' = [poll EXCEPT !["beat"] = Idle]
    BY <1>7 DEF PollReturns, Reset, cacheVars, seenVars
  <2>2. data'.mode = l.mode /\ poll'["beat"].at = "idle"
    BY <1>0, <2>1 DEF Snapshot, Idle
  <2> QED BY <2>1, <2>2
          DEF StandbyInv, StandbyShown, ShutdownStandby, Carried, Reconciling
<1> QED BY <1>1, <1>3, <1>4, <1>5, <1>6, <1>7 DEF PollStep

LEMMA PushStandby ==
  ASSUME TypeOK, StandbyInv, ArtEvent PROVE StandbyInv'
<1>1. UNCHANGED <<latestPower, poll>> /\ (learned' => learned \/ latestPower = "on")
  <2>1. CASE ArtModePushed
    BY <2>1 DEF ArtModePushed
  <2>2. CASE ImagePushed
    BY <2>2 DEF ImagePushed
  <2>3. CASE GoToStandby
    BY <2>3 DEF GoToStandby
  <2> QED BY <2>1, <2>2, <2>3 DEF ArtEvent
<1>2. Carried(poll["beat"])'
  BY <1>1 DEF StandbyInv, Carried, ShutdownStandby
<1>3. CASE PublishPush
  <2>1. learned' /\ latestPower = "standby" => data'.mode = "off"
    <3>1. PICK mode, power :
            /\ latestPower # "none" => power = latestPower
            /\ mode = HoldUnlessKnown(PushedMode(power))
            /\ data' = [data EXCEPT !.reachable = TRUE, !.power = power, !.mode = mode,
                                    !.art = artMode', !.image = image']
      BY <1>3 DEF PublishPush
    <3>2. data'.mode = mode
      BY <3>1 DEF TypeOK, Frames
    <3> QED BY <3>1, <3>2, StandbyIsOff DEF PushedMode
  <2> QED BY <1>1, <1>2, <2>1 DEF StandbyInv, StandbyShown, ShutdownStandby
<1>4. CASE GoToStandby
  BY <1>1, <1>2, <1>4 DEF GoToStandby, StandbyInv, StandbyShown, ShutdownStandby
<1> QED BY <1>3, <1>4 DEF ArtEvent, ArtModePushed, ImagePushed

\* While nothing has been forced, the other pollers are idle.
AloneInv ==
  used.requests = 0 =>
    StandbyInv /\ \A p \in Pollers \ {"beat"} : poll[p].at = "idle"

\* A step of an idle poller that is not the heartbeat is a forced request.
LEMMA OthersOnlyAsk ==
  ASSUME TypeOK, NEW p \in Pollers, p # "beat", poll[p].at = "idle",
         \/ StartPoll(p) \/ AsyncRequestArtReconcile(p) \/ PollStep(p)
         \/ DeviceInfoLost(p) \/ PollExpires(p)
  PROVE  used'.requests # 0
<1>1. AsyncRequestArtReconcile(p)
  BY DEF StartPoll, PollStep, DeviceInfoLost, PollExpires, AsyncDeviceInfo, InfoAnswer,
         AsyncGetArtmode, AsyncGetCurrentArt, AsyncGetArtSettings,
         AsyncGetSlideshowState, PollReturns
<1>2. used.requests \in Nat /\ used'.requests = used.requests + 1
  BY <1>1 DEF AsyncRequestArtReconcile, TypeOK
<1> QED BY <1>2

\* Requests are only added up, and a step of the heartbeat moves no other.
LEMMA RequestsGrow ==
  ASSUME TypeOK, [Next]_vars, used'.requests = 0
  PROVE  used.requests = 0
<1> USE DEF TypeOK
<1>1. ASSUME NEW p \in Pollers, PollStep(p) PROVE used'.requests = used.requests
  <2> USE DEF Reads, ReadFails
  <2>1. CASE AsyncDeviceInfo(p)
    BY <2>1 DEF AsyncDeviceInfo
  <2>2. CASE AsyncGetArtmode(p)
    BY <2>2 DEF AsyncGetArtmode
  <2>3. CASE AsyncGetCurrentArt(p)
    BY <2>3 DEF AsyncGetCurrentArt
  <2>4. CASE AsyncGetArtSettings(p) \/ AsyncGetSlideshowState(p) \/ PollReturns(p)
    BY <2>4 DEF AsyncGetArtSettings, AsyncGetSlideshowState, PollReturns
  <2> QED BY <1>1, <2>1, <2>2, <2>3, <2>4 DEF PollStep
<1>2. ASSUME NEW p \in Pollers, StartPoll(p) \/ DeviceInfoLost(p) \/ PollExpires(p)
      PROVE  used'.requests = used.requests
  BY <1>2 DEF StartPoll, DeviceInfoLost, PollExpires
<1>3. ASSUME NEW p \in Pollers, AsyncRequestArtReconcile(p)
      PROVE  used'.requests = used.requests + 1
  BY <1>3 DEF AsyncRequestArtReconcile
<1>4. CASE ArtEvent
  BY <1>4 DEF ArtEvent, ArtModePushed, ImagePushed, GoToStandby
<1>5. CASE \/ TvChanges \/ ImageChanges \/ SessionReady \/ SessionLost
           \/ WindowElapses \/ RemoteConfirmed \/ UNCHANGED vars
  BY <1>5 DEF TvChanges, ImageChanges, SessionReady, SessionLost, WindowElapses,
              RemoteConfirmed, vars
<1> QED BY <1>1, <1>2, <1>3, <1>4, <1>5 DEF Next

\* The heartbeat and the surroundings leave the other polls where they are.
BeatStep ==
  StartPoll("beat") \/ PollStep("beat") \/ DeviceInfoLost("beat") \/ PollExpires("beat")

LEMMA OthersStay ==
  ASSUME TypeOK, NEW p \in Pollers, p # "beat", BeatStep
  PROVE  poll'[p] = poll[p]
<1> USE DEF TypeOK
<1> DEFINE Stays == \E l : poll' = [poll EXCEPT !["beat"] = l]
<1>1. ASSUME NEW l, NEW c, Decide("beat", l, c) PROVE Stays
  BY <1>1 DEF Decide, Reset
<1>2. ASSUME NEW l, NEW a, NEW b, ReconcileEnds("beat", l, a, b) PROVE Stays
  BY <1>1, <1>2 DEF ReconcileEnds
<1>3. ASSUME NEW ans, InfoAnswer("beat", ans) PROVE Stays
  BY <1>1, <1>3 DEF InfoAnswer
<1>4. Stays
  <2>1. CASE StartPoll("beat")
    BY <2>1 DEF StartPoll
  <2>2. CASE AsyncDeviceInfo("beat") \/ DeviceInfoLost("beat")
    BY <1>3, <2>2 DEF AsyncDeviceInfo, DeviceInfoLost
  <2>3. CASE PollExpires("beat") \/ PollReturns("beat")
    BY <2>3 DEF PollExpires, PollReturns, Reset
  <2>4. CASE AsyncGetArtmode("beat")
    BY <1>2, <2>4 DEF AsyncGetArtmode
  <2>5. CASE AsyncGetCurrentArt("beat")
    BY <1>2, <2>5 DEF AsyncGetCurrentArt
  <2>6. CASE AsyncGetArtSettings("beat") \/ AsyncGetSlideshowState("beat")
    BY <1>2, <2>6 DEF AsyncGetArtSettings, AsyncGetSlideshowState
  <2> QED BY <2>1, <2>2, <2>3, <2>4, <2>5, <2>6 DEF BeatStep, PollStep
<1> QED BY <1>4

LEMMA NextStandby ==
  ASSUME TypeOK, AloneInv, [Next]_vars PROVE AloneInv'
<1> SUFFICES ASSUME used'.requests = 0
             PROVE  StandbyInv' /\ \A p \in Pollers \ {"beat"} : poll'[p].at = "idle"
  BY DEF AloneInv
<1>0. /\ poll \in [Pollers -> Polls] /\ "beat" \in Pollers
      /\ StandbyInv /\ \A p \in Pollers \ {"beat"} : poll[p].at = "idle"
  BY RequestsGrow, PollersAssumption DEF TypeOK, AloneInv
<1>1. ASSUME UNCHANGED <<latestPower, learned, data>>,
             UNCHANGED poll \/ poll'["beat"].at \in {"idle", "info"}
      PROVE  StandbyInv'
  BY <1>0, <1>1 DEF StandbyInv, StandbyShown, ShutdownStandby, Carried, Reconciling
<1>2. CASE StartPoll("beat")
  <2>1. poll'["beat"].at = "info"
    BY <1>0, <1>2 DEF StartPoll, Polls
  <2> QED BY <1>0, <1>1, <1>2, <2>1, OthersStay
          DEF StartPoll, BeatStep, cacheVars, seenVars
<1>3. CASE PollExpires("beat")
  <2>1. poll'["beat"].at = "idle"
    BY <1>0, <1>3 DEF PollExpires, Reset, Idle
  <2> QED BY <1>0, <1>1, <1>3, <2>1, OthersStay
          DEF PollExpires, BeatStep, cacheVars, seenVars
<1>4. CASE DeviceInfoLost("beat")
  <2>1. StandbyInv'
    BY <1>0, <1>4, IdleType, InfoAnswerStandby DEF DeviceInfoLost, Unreachable, Answer
  <2> QED BY <1>0, <1>4, <2>1, OthersStay DEF BeatStep
<1>5. CASE PollStep("beat")
  BY <1>0, <1>5, PollStepStandby, OthersStay DEF BeatStep
<1>6. CASE ArtEvent
  BY <1>0, <1>6, PushStandby DEF ArtEvent, ArtModePushed, ImagePushed, GoToStandby
<1>7. CASE \/ TvChanges \/ ImageChanges \/ SessionReady \/ SessionLost
           \/ WindowElapses \/ RemoteConfirmed \/ UNCHANGED vars
  BY <1>0, <1>1, <1>7
     DEF TvChanges, ImageChanges, SessionReady, SessionLost, WindowElapses,
         RemoteConfirmed, Others, vars, cacheVars, seenVars
<1>8. CASE AsyncRequestArtReconcile("beat")
  BY <1>8 DEF AsyncRequestArtReconcile
<1>9. ASSUME NEW p \in Pollers, p # "beat",
             \/ StartPoll(p) \/ AsyncRequestArtReconcile(p) \/ PollStep(p)
             \/ DeviceInfoLost(p) \/ PollExpires(p)
      PROVE  FALSE
  BY <1>0, <1>9, OthersOnlyAsk
<1> QED BY <1>2, <1>3, <1>4, <1>5, <1>6, <1>7, <1>8, <1>9 DEF Next

(* While no poll is forced, a TV whose trait is learned is never published *)
(* in art mode during a standby, whatever its dying socket pushes.         *)
THEOREM StandbyAlwaysWins == Spec => []StandbyWins
<1>1. Init => AloneInv
  BY PollersAssumption DEF Init, AloneInv, StandbyInv, StandbyShown, ShutdownStandby, Carried, Reconciling,
         Idle
<1>2. TypeOK /\ AloneInv /\ [Next]_vars => AloneInv'
  BY NextStandby
<1>3. AloneInv => StandbyWins
  BY DEF AloneInv, StandbyInv, StandbyShown, StandbyWins
<1> QED BY <1>1, <1>2, <1>3, TypeCorrect, PTL DEF Spec

-----------------------------------------------------------------------------
(* A working TV is not off while fewer answers are lost than the debounce   *)
(* waits for.  Whatever is carried or stored rests on its answer.           *)

CarriedUp(l) ==
  /\ l.mode # "off" /\ l.ans.power # "standby"
  /\ l.at \in Reconciling => l.ans = Answer(TRUE, "on")
FewLosses == UpThroughout /\ used.faults < OffDebounce
SeenUp ==
  /\ data.mode # "off" /\ data.power # "standby" /\ latestPower # "standby"
  /\ unreachable <= used.faults
  /\ \A p \in Pollers : CarriedUp(poll[p])
UpInv == FewLosses => SeenUp

LEMMA UpIsNotOff ==
  ASSUME NEW a, NEW power, power # "standby", NEW w, data.mode # "off"
  PROVE  /\ DeriveTvMode(TRUE, a, power, w) # "off"
         /\ HoldUnlessKnown(DeriveTvMode(TRUE, a, power, w)) # "off"
         /\ LastStable # "off"
BY DEF DeriveTvMode, HoldUnlessKnown, LastStable

\* A poll whose answer was lost keeps the last stable mode.
LEMMA DecideUp ==
  ASSUME TypeOK, SeenUp, NEW p \in Pollers, NEW l \in Polls, NEW c, Decide(p, l, c),
         l.ans.power # "standby",
         l.ans.reachable = TRUE \/ (l.ans.reachable = FALSE /\ unreachable' < OffDebounce)
  PROVE  /\ data'.mode # "off" /\ data'.power # "standby"
         /\ \A q \in Pollers : CarriedUp(poll'[q])
<1>1. PICK art, mode :
        /\ mode = PolledMode(l, art.v)
        /\ IF mode = "watching" \/ (l.ans.reachable /\ l.ans.power = "on")
           THEN /\ poll' = [poll EXCEPT ![p] =
                              [Idle EXCEPT !.at = "extras", !.ans = l.ans,
                                           !.mode = mode, !.art = art]]
                /\ UNCHANGED data
           ELSE data' = Snapshot(l.ans, art, mode) /\ Reset(p)
  BY DEF Decide
<1>2. mode # "off"
  <2>1. CASE l.ans.reachable = TRUE
    BY <1>1, <2>1, UpIsNotOff DEF PolledMode, SeenUp
  <2>2. CASE l.ans.reachable = FALSE /\ unreachable' < OffDebounce
    BY <1>1, <2>2, UpIsNotOff DEF PolledMode, SeenUp
  <2> QED BY <2>1, <2>2
<1>3. poll \in [Pollers -> Polls] /\ \A q \in Pollers : CarriedUp(poll[q])
  BY DEF TypeOK, SeenUp
<1>4. CASE mode = "watching" \/ (l.ans.reachable /\ l.ans.power = "on")
  <2>1. /\ data' = data
        /\ poll' = [poll EXCEPT ![p] =
                      [Idle EXCEPT !.at = "extras", !.ans = l.ans,
                                   !.mode = mode, !.art = art]]
    BY <1>1, <1>4
  <2>2. poll'[p].at = "extras" /\ poll'[p].mode = mode /\ poll'[p].ans = l.ans
    BY <1>3, <2>1 DEF Idle
  <2>3. \A q \in Pollers : q # p => poll'[q] = poll[q]
    BY <1>3, <2>1
  <2>4. \A q \in Pollers : CarriedUp(poll'[q])
    BY <1>2, <1>3, <2>2, <2>3 DEF CarriedUp, Reconciling
  <2> QED BY <2>1, <2>4 DEF SeenUp
<1>5. CASE ~(mode = "watching" \/ (l.ans.reachable /\ l.ans.power = "on"))
  <2>1. data'.mode = mode /\ data'.power = l.ans.power
    BY <1>1, <1>5 DEF Snapshot
  <2>2. poll'[p] = Idle /\ \A q \in Pollers : q # p => poll'[q] = poll[q]
    BY <1>1, <1>3, <1>5 DEF Reset
  <2>3. Idle.mode = "unknown" /\ Idle.at = "idle" /\ Idle.ans.power = "none"
    BY DEF Idle, Unreachable, Answer
  <2>4. \A q \in Pollers : CarriedUp(poll'[q])
    BY <1>3, <2>2, <2>3 DEF CarriedUp, Reconciling
  <2> QED BY <1>2, <2>1, <2>4
<1> QED BY <1>4, <1>5

LEMMA InfoAnswerUp ==
  ASSUME TypeOK, SeenUp, NEW p \in Pollers,
         NEW ans \in {Answer(TRUE, "on"), Unreachable}, InfoAnswer(p, ans),
         used'.faults \in Nat, used'.faults < OffDebounce,
         used'.faults = IF ans = Unreachable THEN used.faults + 1 ELSE used.faults
  PROVE  SeenUp'
<1> DEFINE edge == ans.reachable /\ ~wasReachable
           l == [poll[p] EXCEPT !.ans = ans, !.edge = edge]
           c == confirmed /\ ans.reachable /\ ~edge
<1>0. /\ ans \in {Answer(TRUE, "on"), Unreachable}
      /\ ans.power # "standby" /\ ans \in Answers /\ ans.reachable \in BOOLEAN
      /\ ans.reachable <=> ans # Unreachable
  <2>1. CASE ans = Answer(TRUE, "on")
    <3>1. ans.reachable = TRUE /\ ans.power = "on" /\ Unreachable.reachable = FALSE
      BY <2>1 DEF Answer, Unreachable
    <3>2. ans \in Answers
      BY <2>1 DEF Answer, Answers, Powers
    <3> QED BY <3>1, <3>2
  <2>2. CASE ans = Unreachable
    <3>1. ans.reachable = FALSE /\ ans.power = "none"
      BY <2>2 DEF Answer, Unreachable
    <3> QED BY <2>2, <3>1, IdleType
  <2> QED BY <2>1, <2>2
<1>1. poll[p] \in Polls /\ poll \in [Pollers -> Polls] /\ CarriedUp(poll[p])
  BY DEF TypeOK, SeenUp
<1>2. edge \in BOOLEAN
  BY <1>0 DEF TypeOK
<1>3. l \in Polls /\ l.ans = ans /\ l.mode = poll[p].mode
  <2> HIDE DEF edge
  <2> QED BY <1>0, <1>1, <1>2 DEF Polls
<1> HIDE DEF l, c, edge
<1>4. /\ latestPower' = ans.power
      /\ unreachable' = IF ans.reachable THEN 0 ELSE UpTo(unreachable + 1, OffDebounce)
      /\ IF ReconcileDue(ans)
         THEN /\ poll' = [poll EXCEPT ![p] = [l EXCEPT !.at = "artmode",
                                              !.gen = gen, !.rev = rev]]
              /\ UNCHANGED data
         ELSE Decide(p, l, c)
  BY DEF InfoAnswer, l, c, edge
<1>5. unreachable' <= used'.faults
  <2>1. CASE ans.reachable
    BY <1>4, <2>1
  <2>2. CASE ~ans.reachable
    <3>1. used'.faults = used.faults + 1 /\ unreachable' = UpTo(unreachable + 1, OffDebounce)
      BY <1>0, <1>4, <2>2
    <3>2. unreachable \in Nat /\ OffDebounce \in Nat /\ unreachable <= used.faults /\ used.faults \in Nat
      BY LimitsAssumption DEF TypeOK, SeenUp
    <3> QED BY <3>1, <3>2 DEF UpTo
  <2> QED BY <2>1, <2>2
<1>6. /\ unreachable' < OffDebounce
      /\ latestPower' # "standby"
  <2>1. unreachable' \in Nat
    BY <1>4, LimitsAssumption DEF UpTo, TypeOK
  <2> QED BY <1>0, <1>4, <1>5, <2>1, LimitsAssumption
<1>7. CASE ReconcileDue(ans)
  <2>1. ans = Answer(TRUE, "on")
    BY <1>0, <1>7 DEF ReconcileDue
  <2>2. /\ poll'[p] = [l EXCEPT !.at = "artmode", !.gen = gen, !.rev = rev]
        /\ \A q \in Pollers : q # p => poll'[q] = poll[q]
    BY <1>1, <1>4, <1>7
  <2>3. poll'[p].ans = ans /\ poll'[p].mode = poll[p].mode
    BY <1>3, <2>2 DEF Polls
  <2>4. \A q \in Pollers : CarriedUp(poll'[q])
    BY <1>0, <1>1, <2>1, <2>2, <2>3 DEF SeenUp, CarriedUp
  <2> QED BY <1>4, <1>5, <1>6, <1>7, <2>4 DEF SeenUp
<1>8. CASE ~ReconcileDue(ans)
  <2>1. Decide(p, l, c) /\ l.ans = ans
    BY <1>3, <1>4, <1>8
  <2>2. /\ data'.mode # "off" /\ data'.power # "standby"
        /\ \A q \in Pollers : CarriedUp(poll'[q])
    BY <1>0, <1>3, <1>6, <2>1, DecideUp
  <2> QED BY <1>5, <1>6, <2>2 DEF SeenUp
<1> QED BY <1>7, <1>8

LEMMA ReconcileEndsUp ==
  ASSUME TypeOK, SeenUp, NEW p \in Pollers, NEW l \in Polls, NEW a, NEW b,
         ReconcileEnds(p, l, a, b), l.ans = Answer(TRUE, "on"),
         used'.faults \in Nat, used'.faults >= used.faults
  PROVE  SeenUp'
<1>1. UNCHANGED <<latestPower, unreachable>> /\ Decide(p, l, confirmed)
  BY DEF ReconcileEnds
<1>2. l.ans.reachable = TRUE /\ l.ans.power # "standby"
  BY DEF Answer
<1>3. /\ data'.mode # "off" /\ data'.power # "standby"
      /\ \A q \in Pollers : CarriedUp(poll'[q])
  BY <1>1, <1>2, DecideUp
<1>4. unreachable <= used'.faults
  BY DEF TypeOK, SeenUp
<1> QED BY <1>1, <1>3, <1>4 DEF SeenUp

LEMMA PollStepUp ==
  ASSUME TypeOK, SeenUp, FewLosses, NEW p \in Pollers, PollStep(p),
         used'.faults \in Nat, used'.faults >= used.faults, used'.faults < OffDebounce
  PROVE  SeenUp'
<1> DEFINE l == poll[p]
           Same == UNCHANGED <<latestPower, unreachable, data>>
<1>0. l \in Polls /\ poll \in [Pollers -> Polls] /\ CarriedUp(l)
  BY DEF TypeOK, SeenUp
<1>1. CASE AsyncDeviceInfo(p)
  <2>1. RestAnswer = Answer(TRUE, "on") /\ RestAnswer # Unreachable
    BY DEF FewLosses, UpThroughout, RestAnswer, Answer, Unreachable
  <2>2. InfoAnswer(p, RestAnswer) /\ used' = used
    BY <1>1 DEF AsyncDeviceInfo
  <2> QED BY <2>1, <2>2, InfoAnswerUp
\* The poll goes on to the next read of its reconciliation.
<1>2. ASSUME Same, NEW next \in Polls, next.ans = l.ans, next.mode = l.mode,
             poll' = [poll EXCEPT ![p] = next], l.at \in Reconciling
      PROVE  SeenUp'
  <2>1. CarriedUp(next)
    BY <1>0, <1>2 DEF CarriedUp
  <2>2. \A q \in Pollers : CarriedUp(poll'[q])
    BY <1>0, <1>2, <2>1 DEF SeenUp
  <2>3. unreachable <= used'.faults
    BY DEF TypeOK, SeenUp
  <2> QED BY <1>2, <2>2, <2>3 DEF SeenUp
<1>3. CASE AsyncGetArtmode(p)
  <2>1. PICK v \in {"on", "off", "unknown"} :
          IF SessionIsReady(l.gen)
          THEN poll' = [poll EXCEPT ![p].at = "current", ![p].sample = v] /\ Same
          ELSE ReconcileEnds(p, [l EXCEPT !.sample = v], TRUE, FALSE)
    BY <1>3 DEF AsyncGetArtmode, cacheVars, seenVars
  <2>2. l.at \in Reconciling /\ l.ans = Answer(TRUE, "on")
    BY <1>0, <1>3 DEF AsyncGetArtmode, Reconciling, CarriedUp
  <2>3. CASE SessionIsReady(l.gen)
    <3> DEFINE next == [[l EXCEPT !.at = "current"] EXCEPT !.sample = v]
    <3>1. poll' = [poll EXCEPT ![p] = next]
      BY <1>0, <2>1, <2>3
    <3>2. next \in Polls /\ next.ans = l.ans /\ next.mode = l.mode
      BY <1>0 DEF Polls, Awaits
    <3> QED BY <1>2, <2>1, <2>2, <2>3, <3>1, <3>2
  <2>4. CASE ~SessionIsReady(l.gen)
    <3> DEFINE m == [l EXCEPT !.sample = v]
    <3>1. m \in Polls /\ m.ans = l.ans
      BY <1>0 DEF Polls
    <3> QED BY <2>1, <2>2, <2>4, <3>1, ReconcileEndsUp
  <2> QED BY <2>3, <2>4
<1>4. CASE AsyncGetCurrentArt(p)
  <2>1. PICK v \in {"shown", "none"} :
          IF SessionIsReady(l.gen)
          THEN poll' = [poll EXCEPT ![p].at = "settings", ![p].image = v] /\ Same
          ELSE ReconcileEnds(p, l, TRUE, FALSE)
    BY <1>4 DEF AsyncGetCurrentArt, cacheVars, seenVars
  <2>2. l.at \in Reconciling /\ l.ans = Answer(TRUE, "on")
    BY <1>0, <1>4 DEF AsyncGetCurrentArt, Reconciling, CarriedUp
  <2>3. CASE SessionIsReady(l.gen)
    <3> DEFINE next == [[l EXCEPT !.at = "settings"] EXCEPT !.image = v]
    <3>1. poll' = [poll EXCEPT ![p] = next]
      BY <1>0, <2>1, <2>3
    <3>2. next \in Polls /\ next.ans = l.ans /\ next.mode = l.mode
      BY <1>0 DEF Polls, Awaits
    <3> QED BY <1>2, <2>1, <2>2, <2>3, <3>1, <3>2
  <2>4. CASE ~SessionIsReady(l.gen)
    BY <1>0, <2>1, <2>2, <2>4, ReconcileEndsUp
  <2> QED BY <2>3, <2>4
<1>5. CASE AsyncGetArtSettings(p)
  <2>1. /\ l.at = "settings"
        /\ IF SessionIsReady(l.gen)
           THEN poll' = [poll EXCEPT ![p].at = "slideshow"] /\ Same
           ELSE ReconcileEnds(p, l, FALSE, FALSE)
    BY <1>5 DEF AsyncGetArtSettings, cacheVars, seenVars
  <2>2. l.at \in Reconciling /\ l.ans = Answer(TRUE, "on")
    BY <1>0, <2>1 DEF Reconciling, CarriedUp
  <2>3. CASE SessionIsReady(l.gen)
    <3> DEFINE next == [l EXCEPT !.at = "slideshow"]
    <3>1. poll' = [poll EXCEPT ![p] = next]
      BY <1>0, <2>1, <2>3
    <3>2. next \in Polls /\ next.ans = l.ans /\ next.mode = l.mode
      BY <1>0 DEF Polls, Awaits
    <3> QED BY <1>2, <2>1, <2>2, <2>3, <3>1, <3>2
  <2>4. CASE ~SessionIsReady(l.gen)
    BY <1>0, <2>1, <2>2, <2>4, ReconcileEndsUp
  <2> QED BY <2>3, <2>4
<1>6. CASE AsyncGetSlideshowState(p)
  <2>1. l.at \in Reconciling /\ l.ans = Answer(TRUE, "on")
    BY <1>0, <1>6 DEF AsyncGetSlideshowState, Reconciling, CarriedUp
  <2> QED BY <1>0, <1>6, <2>1, ReconcileEndsUp DEF AsyncGetSlideshowState
<1>7. CASE PollReturns(p)
  <2>1. /\ UNCHANGED <<latestPower, unreachable>> /\ l.at = "extras"
        /\ data' = Snapshot(l.ans, l.art, l.mode)
        /\ poll' = [poll EXCEPT ![p] = Idle]
    BY <1>7 DEF PollReturns, Reset, cacheVars, seenVars
  <2>2. data'.mode = l.mode /\ data'.power = l.ans.power
    BY <2>1 DEF Snapshot
  <2>3. \A q \in Pollers : CarriedUp(poll'[q])
    BY <1>0, <2>1 DEF SeenUp, CarriedUp, Idle, Reconciling, Unreachable, Answer
  <2>4. unreachable <= used'.faults
    BY DEF TypeOK, SeenUp
  <2> QED BY <1>0, <2>1, <2>2, <2>3, <2>4 DEF SeenUp, CarriedUp
<1> QED BY <1>1, <1>3, <1>4, <1>5, <1>6, <1>7 DEF PollStep

LEMMA PushUp ==
  ASSUME TypeOK, SeenUp, ArtEvent PROVE SeenUp'
<1>1. UNCHANGED <<latestPower, unreachable, poll, used>>
  BY DEF ArtEvent, ArtModePushed, ImagePushed, GoToStandby
<1>2. CASE PublishPush
  <2>1. PICK mode, power :
          /\ power = IF latestPower # "none" THEN latestPower
                     ELSE IF data.mode = "nodata" THEN "on" ELSE data.power
          /\ mode = HoldUnlessKnown(PushedMode(power))
          /\ data' = [data EXCEPT !.reachable = TRUE, !.power = power, !.mode = mode,
                                  !.art = artMode', !.image = image']
    BY <1>2 DEF PublishPush
  <2>2. power # "standby"
    BY <2>1 DEF SeenUp
  <2>3. mode # "off"
    BY <2>1, <2>2, UpIsNotOff DEF PushedMode, SeenUp
  <2>4. data'.mode = mode /\ data'.power = power
    BY <2>1 DEF TypeOK, Frames
  <2> QED BY <1>1, <2>2, <2>3, <2>4 DEF SeenUp
<1>3. CASE GoToStandby
  BY <1>1, <1>3 DEF GoToStandby, SeenUp
<1> QED BY <1>2, <1>3 DEF ArtEvent, ArtModePushed, ImagePushed

LEMMA NextUp ==
  ASSUME TypeOK, TypeOK', UpInv, [Next]_vars PROVE UpInv'
<1> SUFFICES ASSUME FewLosses' PROVE SeenUp'
  BY DEF UpInv
<1>0. poll \in [Pollers -> Polls] /\ used \in [changes : Nat, faults : Nat, requests : Nat]
      /\ used'.faults \in Nat /\ used'.changes \in Nat /\ OffDebounce \in Nat
  BY LimitsAssumption DEF TypeOK
<1>1. /\ used'.faults < OffDebounce /\ used'.changes = 0
      /\ tv' \in {"watching", "art"} /\ Family = "2022"
  BY DEF FewLosses, UpThroughout
\* What has been used up is not given back, and the TV has not changed.
<1>2. ASSUME tv' = tv, used'.faults >= used.faults, used'.changes >= used.changes
      PROVE  FewLosses /\ SeenUp
  BY <1>0, <1>1, <1>2 DEF FewLosses, UpThroughout, UpInv
<1>3. ASSUME tv' = tv, used'.faults >= used.faults, used'.changes >= used.changes,
             UNCHANGED <<latestPower, unreachable, data>>,
             \A q \in Pollers : CarriedUp(poll[q]) => CarriedUp(poll'[q])
      PROVE  SeenUp'
  <2>1. unreachable <= used'.faults
    BY <1>0, <1>2, <1>3 DEF TypeOK, SeenUp
  <2> QED BY <1>2, <1>3, <2>1 DEF SeenUp
<1>4. ASSUME NEW p \in Pollers, StartPoll(p) \/ AsyncRequestArtReconcile(p)
      PROVE  SeenUp'
  <2>1. /\ tv' = tv /\ UNCHANGED <<latestPower, unreachable, data>>
        /\ poll' = [poll EXCEPT ![p].at = "info"]
    BY <1>4 DEF StartPoll, AsyncRequestArtReconcile, deviceVars, cacheVars, seenVars
  <2>2. used' = used \/ used' = [used EXCEPT !.requests = @ + 1]
    BY <1>4 DEF StartPoll, AsyncRequestArtReconcile
  <2>3. used'.faults >= used.faults /\ used'.changes >= used.changes
    BY <1>0, <2>2
  <2>4. /\ poll'[p] = [poll[p] EXCEPT !.at = "info"]
        /\ \A q \in Pollers : q # p => poll'[q] = poll[q]
    BY <1>0, <2>1
  <2>5. poll'[p].at = "info" /\ poll'[p].mode = poll[p].mode /\ poll'[p].ans = poll[p].ans
    BY <1>0, <2>4 DEF Polls
  <2>6. \A q \in Pollers : CarriedUp(poll[q]) => CarriedUp(poll'[q])
    BY <2>4, <2>5 DEF CarriedUp, Reconciling
  <2> QED BY <1>3, <2>1, <2>3, <2>6
<1>5. ASSUME NEW p \in Pollers, PollStep(p) PROVE SeenUp'
  <2>1. tv' = tv
    BY <1>5 DEF PollStep, AsyncDeviceInfo, InfoAnswer, AsyncGetArtmode, AsyncGetCurrentArt,
       AsyncGetArtSettings, AsyncGetSlideshowState, PollReturns, ReconcileEnds, deviceVars
  <2>2. used' = used \/ used' = [used EXCEPT !.faults = @ + 1]
    BY <1>5 DEF PollStep, AsyncDeviceInfo, AsyncGetArtmode, AsyncGetCurrentArt,
       AsyncGetArtSettings, AsyncGetSlideshowState, PollReturns, Reads, ReadFails
  <2>3. used'.faults >= used.faults /\ used'.changes >= used.changes
    BY <1>0, <2>2
  <2> QED BY <1>0, <1>1, <1>2, <1>5, <2>1, <2>3, PollStepUp
<1>6. ASSUME NEW p \in Pollers, DeviceInfoLost(p) PROVE SeenUp'
  <2>1. tv' = tv /\ InfoAnswer(p, Unreachable) /\ used' = [used EXCEPT !.faults = @ + 1]
    BY <1>6 DEF DeviceInfoLost, InfoAnswer, deviceVars
  <2>2. used'.faults = used.faults + 1 /\ used'.changes = used.changes
    BY <1>0, <2>1
  <2>3. SeenUp
    BY <1>0, <1>2, <2>1, <2>2
  <2> QED BY <1>0, <1>1, <2>1, <2>2, <2>3, InfoAnswerUp
<1>7. ASSUME NEW p \in Pollers, PollExpires(p) PROVE SeenUp'
  <2>1. /\ tv' = tv /\ UNCHANGED <<latestPower, unreachable, data>>
        /\ poll' = [poll EXCEPT ![p] = Idle] /\ used' = [used EXCEPT !.faults = @ + 1]
    BY <1>7 DEF PollExpires, Reset, deviceVars, cacheVars, seenVars
  <2>2. used'.faults >= used.faults /\ used'.changes >= used.changes
    BY <1>0, <2>1
  <2>3. CarriedUp(Idle)
    BY DEF CarriedUp, Idle, Unreachable, Answer, Reconciling
  <2>4. \A q \in Pollers : CarriedUp(poll[q]) => CarriedUp(poll'[q])
    BY <1>0, <2>1, <2>3
  <2> QED BY <1>3, <2>1, <2>2, <2>4
<1>8. CASE ArtEvent
  <2>1. tv' = tv /\ used' = used
    BY <1>8 DEF ArtEvent, ArtModePushed, ImagePushed, GoToStandby
  <2>2. used'.faults >= used.faults /\ used'.changes >= used.changes
    BY <1>0, <2>1
  <2> QED BY <1>2, <1>8, <2>1, <2>2, PushUp
<1>9. CASE TvChanges \/ ImageChanges \/ RemoteConfirmed
  <2>1. used' = [used EXCEPT !.changes = @ + 1]
    BY <1>9 DEF TvChanges, ImageChanges, RemoteConfirmed
  <2> QED BY <1>0, <1>1, <2>1
<1>10. CASE SessionReady \/ SessionLost \/ WindowElapses \/ UNCHANGED vars
  <2>1. tv' = tv /\ used' = used /\ UNCHANGED <<latestPower, unreachable, data, poll>>
    BY <1>10 DEF SessionReady, SessionLost, WindowElapses, Others, vars, deviceVars, seenVars
  <2>2. used'.faults >= used.faults /\ used'.changes >= used.changes
    BY <1>0, <2>1
  <2> QED BY <1>3, <2>1, <2>2
<1> QED BY <1>4, <1>5, <1>6, <1>7, <1>8, <1>9, <1>10 DEF Next

(* A TV that works is never published as off for one lost answer, however   *)
(* many polls overlap, when the debounce is at least two.                   *)
THEOREM OneLossNeverOff ==
  ASSUME OffDebounce >= 2
  PROVE  Spec => []OneLossIsNotOff
<1>1. Init => UpInv
  <2> SUFFICES ASSUME Init PROVE SeenUp
    BY DEF UpInv
  <2>1. \A p \in Pollers : CarriedUp(poll[p])
    BY DEF Init, CarriedUp, Idle, Unreachable, Answer, Reconciling
  <2>2. /\ data.mode = "nodata" /\ data.power = "none" /\ latestPower = "none"
        /\ unreachable = 0 /\ used.faults = 0
    BY DEF Init
  <2> QED BY <2>1, <2>2 DEF SeenUp
<1>2. TypeOK /\ UpInv /\ [Next]_vars => TypeOK' /\ UpInv'
  BY StepType, NextUp
<1>3. TypeOK /\ UpInv => OneLossIsNotOff
  <2> SUFFICES ASSUME TypeOK, UpInv, UpThroughout, used.faults <= 1 PROVE data.mode # "off"
    BY DEF OneLossIsNotOff
  <2>1. used.faults \in Nat
    BY DEF TypeOK
  <2>2. FewLosses
    BY <2>1, LimitsAssumption DEF FewLosses
  <2> QED BY <2>2 DEF UpInv, SeenUp
<1> QED BY <1>1, <1>2, <1>3, InitType, PTL DEF Spec
=============================================================================
