----------------------- MODULE DialectDiscoveryProofs -----------------------
(***************************************************************************)
(* Theorems about DialectDiscovery, for any set of polls and of writes,    *)
(* any TV and any number of sessions: what silence and refusals may be     *)
(* concluded to mean, and what a write may go by.                          *)
(***************************************************************************)
EXTENDS DialectDiscovery, TLAPS

\* How far a pass p has come, and what it may go by.  Everything about the
\* session it began on holds as long as that session is the present one.
PassInv(p) ==
  p.at # "idle" =>
    /\ p.command \in Commands
    /\ p.g <= optGen
    /\ p.command \in {"aggregate", "rotation"} => ~p.known
    /\ p.well => alive /\ p.g = gen
    /\ p.g = gen =>
         /\ p.proven => p.heard = gen
         /\ p.command \in {"aggregate", "rotation"} /\ p.proven =>
              tv[p.command] = "error"
         /\ p.command \in {"brightness", "temperature"} =>
              tv["aggregate"] \in {"error", "silent"} \/ (~alive /\ ~p.proven)
         /\ p.command = "slideshow" =>
              tv["rotation"] \notin Answered \/ (~alive /\ ~p.proven)
         /\ p.command = "slideshow" /\ p.known => tv["slideshow"] \in Answered
    /\ p.well /\ ~p.proven =>
         /\ p.command = "temperature" => tv["brightness"] = "silent"
         /\ p.command = "slideshow" /\ ~p.known => tv["rotation"] = "silent"
PassesGood == \A r \in Readers : PassInv(pass[r])

-----------------------------------------------------------------------------
(* What the answer to one request leads to.                                *)

LEMMA OutcomeCases ==
  ASSUME NEW r \in Readers, NEW p, NEW way \in Ways, p.command \in Commands,
         Outcome(r, p, way)
  PROVE  \/ Finish(r) /\ KeepDialect /\ KeepSession
         \/ /\ IsCurrent(p) /\ Finish(r) /\ KeepSession
            /\ \/ p.command = "aggregate" /\ way = "value" /\ Conclude("settings", "aggregate", p)
               \/ p.command = "temperature" /\ p.proven /\ Conclude("settings", "legacy", p)
               \/ p.command = "rotation" /\ way \in Answered /\ Conclude("slideshow", "rotation", p)
               \/ /\ p.command = "slideshow" /\ (way = "error" \/ (way = "silent" /\ p.proven))
                  /\ Conclude("slideshow", "unsupported", p)
               \/ p.command = "slideshow" /\ way \in Answered /\ Conclude("slideshow", "legacy", p)
         \/ /\ KeepDialect /\ KeepSession
            /\ \/ p.command = "aggregate" /\ way \notin Answered /\ Reads(r, p, "brightness")
               \/ p.command = "brightness" /\ Reads(r, p, "temperature")
               \/ p.command = "rotation" /\ way \notin Answered /\ Reads(r, p, "slideshow")
         \/ /\ IsCurrent(p) /\ ~p.proven /\ RetireForSilence(r, p)
            /\ p.command = "temperature" \/ (p.command = "slideshow" /\ way = "silent")
<1> USE DEF Outcome, Commands, Settings, Ways, Answered
<1>1. CASE p.command = "aggregate"
  BY <1>1 DEF SettingsOutcome, AggregateAnswered, AggregateMissing
<1>2. CASE p.command = "brightness"
  <2>1. LegacySetting(r, p, way)
    BY <1>2 DEF SettingsOutcome
  <2>2. \/ Finish(r) /\ KeepDialect /\ KeepSession
        \/ Reads(r, p, "temperature") /\ KeepDialect /\ KeepSession
    BY <1>2, <2>1 DEF LegacySetting
  <2> QED
    BY <1>2, <2>2
<1>3. CASE p.command = "temperature"
  <2>1. LegacySetting(r, p, way)
    BY <1>3 DEF SettingsOutcome
  <2>2. \/ Finish(r) /\ KeepDialect /\ KeepSession
        \/ JudgeLegacySettings(r, p)
    BY <1>3, <2>1 DEF LegacySetting
  <2>3. \/ Finish(r) /\ KeepDialect /\ KeepSession
        \/ IsCurrent(p) /\ ~p.proven /\ RetireForSilence(r, p)
        \/ /\ IsCurrent(p) /\ p.proven /\ Conclude("settings", "legacy", p)
           /\ Finish(r) /\ KeepSession
    BY <2>2 DEF JudgeLegacySettings
  <2> QED
    BY <1>3, <2>3
<1>4. CASE p.command = "rotation"
  <2>1. RotationOutcome(r, p, way)
    BY <1>4 DEF SlideshowOutcome
  <2>2. CASE ~IsCurrent(p)
    BY <1>4, <2>1, <2>2 DEF RotationOutcome
  <2>3. CASE IsCurrent(p) /\ way \in {"value", "odd"}
    BY <1>4, <2>1, <2>3 DEF RotationOutcome
  <2>4. CASE IsCurrent(p) /\ way \notin {"value", "odd"}
    BY <1>4, <2>1, <2>4 DEF RotationOutcome
  <2> QED
    BY <2>2, <2>3, <2>4
<1>5. CASE p.command = "slideshow"
  <2>1. LegacySlideshowOutcome(r, p, way)
    BY <1>5 DEF SlideshowOutcome
  <2>2. CASE ~IsCurrent(p)
    BY <1>5, <2>1, <2>2 DEF LegacySlideshowOutcome
  <2>3. CASE IsCurrent(p) /\ (way = "error" \/ (way = "silent" /\ p.proven))
    BY <1>5, <2>1, <2>3 DEF LegacySlideshowOutcome
  <2>4. CASE IsCurrent(p) /\ way = "silent" /\ ~p.proven
    BY <1>5, <2>1, <2>4 DEF LegacySlideshowOutcome
  <2>5. CASE IsCurrent(p) /\ way \in {"value", "odd"}
    BY <1>5, <2>1, <2>5 DEF LegacySlideshowOutcome
  <2> QED
    BY <2>2, <2>3, <2>4, <2>5
<1> QED
  BY <1>1, <1>2, <1>3, <1>4, <1>5

-----------------------------------------------------------------------------
(* Types.                                                                  *)

Places == {"idle", "queued", "sent"}

LEMMA IdleType == Idle \in Passes /\ Idle.at = "idle"
BY DEF Idle, Passes

LEMMA NextReadType ==
  ASSUME NEW p \in Passes, NEW command \in Commands
  PROVE  [p EXCEPT !.at = "queued", !.command = command] \in Passes
BY DEF Passes

LEMMA SentType ==
  ASSUME NEW p \in Passes, NEW g \in Nat
  PROVE  [p EXCEPT !.at = "sent", !.on = g] \in Passes
BY DEF Passes

LEMMA HeardType ==
  ASSUME NEW p \in Passes, NEW proven \in BOOLEAN, NEW g \in Nat
  PROVE  [p EXCEPT !.proven = proven, !.heard = g] \in Passes
BY DEF Passes

LEMMA UnwellType ==
  ASSUME NEW p \in Passes
  PROVE  [p EXCEPT !.well = FALSE] \in Passes
BY DEF Passes

LEMMA PassType ==
  ASSUME NEW command \in Commands, NEW known \in BOOLEAN, gen \in Nat, alive \in BOOLEAN
  PROVE  Pass(command, known) \in Passes
BY DEF Pass, Idle, Passes

PassesTyped == pass \in [Readers -> Passes]

LEMMA DialectType ==
  ASSUME dialect \in Dialects, basis \in [settings : Nat, slideshow : Nat],
         gen \in Nat, optGen \in 0..gen
  PROVE  /\ Reset => /\ dialect' \in Dialects /\ basis' \in [settings : Nat, slideshow : Nat]
                     /\ optGen' = gen
         /\ \A p \in Passes :
              \/ Conclude("settings", "aggregate", p)
              \/ Conclude("settings", "legacy", p)
              \/ Conclude("slideshow", "rotation", p)
              \/ Conclude("slideshow", "legacy", p)
              \/ Conclude("slideshow", "unsupported", p)
              => /\ dialect' \in Dialects /\ basis' \in [settings : Nat, slideshow : Nat]
                 /\ optGen' = optGen
<1>1. Reset => /\ dialect' \in Dialects /\ basis' \in [settings : Nat, slideshow : Nat]
               /\ optGen' = gen
  BY DEF Reset, Unknown, NoBasis, Dialects, dialectVars
<1>2. ASSUME NEW p \in Passes, Conclude("settings", "aggregate", p) \/ Conclude("settings", "legacy", p)
      PROVE  /\ dialect' \in Dialects /\ basis' \in [settings : Nat, slideshow : Nat]
             /\ optGen' = optGen
  <2>1. p.heard \in Nat
    BY DEF Passes
  <2> QED
    BY <1>2, <2>1 DEF Conclude, Dialects
<1>3. ASSUME NEW p \in Passes,
             \/ Conclude("slideshow", "rotation", p) \/ Conclude("slideshow", "legacy", p)
             \/ Conclude("slideshow", "unsupported", p)
      PROVE  /\ dialect' \in Dialects /\ basis' \in [settings : Nat, slideshow : Nat]
             /\ optGen' = optGen
  <2>1. p.heard \in Nat
    BY DEF Passes
  <2> QED
    BY <1>3, <2>1 DEF Conclude, Dialects
<1> QED
  BY <1>1, <1>2, <1>3

\* The types of an outcome, for whatever record p the pass has become.
LEMMA OutcomeType ==
  ASSUME TypeOK, NEW r \in Readers, NEW p \in Passes, NEW way \in Ways,
         p.command \in Commands, Outcome(r, p, way), UNCHANGED <<tv, write>>
  PROVE  TypeOK'
<1>1. /\ pass \in [Readers -> Passes] /\ gen \in Nat /\ optGen \in 0..gen
      /\ dialect \in Dialects /\ basis \in [settings : Nat, slideshow : Nat]
  BY DEF TypeOK
<1>2. Finish(r) => pass' \in [Readers -> Passes]
  BY <1>1, IdleType DEF Finish
<1>3. \A c \in Commands : Reads(r, p, c) => pass' \in [Readers -> Passes]
  <2> SUFFICES ASSUME NEW c \in Commands, Reads(r, p, c) PROVE pass' \in [Readers -> Passes]
    OBVIOUS
  <2>1. [p EXCEPT !.at = "queued", !.command = c] \in Passes
    BY NextReadType
  <2> QED
    BY <1>1, <2>1, IdleType DEF Reads
<1>4. CASE Finish(r) /\ KeepDialect /\ KeepSession
  BY <1>2, <1>4 DEF TypeOK, KeepDialect, KeepSession, dialectVars, sessionVars
<1>5. ASSUME Finish(r), KeepSession,
             \/ Conclude("settings", "aggregate", p) \/ Conclude("settings", "legacy", p)
             \/ Conclude("slideshow", "rotation", p) \/ Conclude("slideshow", "legacy", p)
             \/ Conclude("slideshow", "unsupported", p)
      PROVE  TypeOK'
  <2>1. /\ dialect' \in Dialects /\ basis' \in [settings : Nat, slideshow : Nat]
        /\ optGen' = optGen
    BY <1>1, <1>5, DialectType
  <2> QED
    BY <1>2, <1>5, <2>1 DEF TypeOK, KeepSession, sessionVars
<1>6. ASSUME NEW c \in Commands, Reads(r, p, c), KeepDialect, KeepSession
      PROVE  TypeOK'
  <2>1. pass' \in [Readers -> Passes]
    BY <1>3, <1>6
  <2> QED
    BY <1>6, <2>1 DEF TypeOK, KeepDialect, KeepSession, dialectVars, sessionVars
<1>7. CASE RetireForSilence(r, p)
  <2>1. p.g \in Nat /\ p.well \in BOOLEAN /\ Kind(p.command) \in {"settings", "slideshow"}
    BY DEF Passes, Kind
  <2>2. verdict' \in [kind : {"none", "settings", "slideshow"}, g : Nat, gen : Nat,
                      well : BOOLEAN]
    BY <1>1, <1>7, <2>1 DEF RetireForSilence
  <2> QED
    BY <1>2, <1>7, <2>2 DEF TypeOK, RetireForSilence, KeepDialect, dialectVars
<1> QED
  BY <1>4, <1>5, <1>6, <1>7, OutcomeCases DEF Commands

LEMMA TypeInit == Init => TypeOK
<1> SUFFICES ASSUME Init PROVE TypeOK
  OBVIOUS
<1>1. tv \in [Commands -> Ways]
  BY TvsAssumption DEF Init
<1>2. pass \in [Readers -> Passes]
  BY IdleType DEF Init
<1>3. dialect \in Dialects /\ basis \in [settings : Nat, slideshow : Nat]
  BY DEF Init, Unknown, NoBasis, Dialects
<1>4. /\ verdict \in [kind : {"none", "settings", "slideshow"}, g : Nat, gen : Nat,
                      well : BOOLEAN]
      /\ write \in [Writers -> Writes]
  BY DEF Init, NoVerdict, NoWrite, Writes
<1>5. ready \in BOOLEAN /\ alive \in BOOLEAN /\ stopped \in BOOLEAN
  BY DEF Init
<1>6. gen \in Nat /\ optGen \in 0..gen
  BY DEF Init
<1> QED
  BY <1>1, <1>2, <1>3, <1>4, <1>5, <1>6 DEF TypeOK

\* A request that was sent is for a command.
SentIsCommand == \A r \in Readers : pass[r].at # "idle" => pass[r].command \in Commands

LEMMA UnwellIsTyped ==
  ASSUME pass \in [Readers -> Passes] PROVE Unwell \in [Readers -> Passes]
BY UnwellType DEF Unwell

LEMMA TypeStep == TypeOK /\ SentIsCommand /\ [Next]_vars => TypeOK'
<1> SUFFICES ASSUME TypeOK, SentIsCommand, [Next]_vars PROVE TypeOK'
  OBVIOUS
<1>1. /\ pass \in [Readers -> Passes] /\ gen \in Nat /\ optGen \in 0..gen
      /\ dialect \in Dialects /\ basis \in [settings : Nat, slideshow : Nat]
      /\ alive \in BOOLEAN /\ tv \in [Commands -> Ways]
  BY DEF TypeOK
<1> USE DEF KeepDialect, KeepSession, dialectVars, sessionVars
<1>2. ASSUME NEW r \in Readers, StartSettings(r) \/ StartSlideshow(r) PROVE TypeOK'
  <2>1. /\ Reset /\ UNCHANGED <<tv, write>> /\ KeepSession
        /\ \E c \in Commands, k \in BOOLEAN : pass' = [pass EXCEPT ![r] = Pass(c, k)]
    BY <1>2 DEF StartSettings, StartSlideshow, Commands
  <2>2. PICK c \in Commands, k \in BOOLEAN : pass' = [pass EXCEPT ![r] = Pass(c, k)]
    BY <2>1
  <2>3. pass' \in [Readers -> Passes]
    BY <1>1, <2>2, PassType
  <2>4. /\ dialect' \in Dialects /\ basis' \in [settings : Nat, slideshow : Nat]
        /\ optGen' = gen
    BY <1>1, <2>1, DialectType
  <2> QED
    BY <2>1, <2>3, <2>4 DEF TypeOK
<1>3. ASSUME NEW r \in Readers, Send(r) PROVE TypeOK'
  <2>1. pass' \in [Readers -> Passes]
    BY <1>1, <1>3, SentType DEF Send
  <2> QED
    BY <1>3, <2>1 DEF Send, TypeOK
<1>4. ASSUME NEW r \in Readers, SendRefused(r) \/ RequestBreaks(r) PROVE TypeOK'
  <2>1. ReadFailed(r)
    BY <1>4 DEF SendRefused, RequestBreaks
  <2>2. pass' \in [Readers -> Passes]
    BY <1>1, <2>1, IdleType DEF ReadFailed, Finish
  <2> QED
    BY <2>1, <2>2 DEF ReadFailed, TypeOK
<1>5. ASSUME NEW r \in Readers, Answer(r) PROVE TypeOK'
  <2> DEFINE way == tv[pass[r].command]
             q == [pass[r] EXCEPT !.proven = ProvenBy(pass[r], way), !.heard = gen]
  <2>1. pass[r].command \in Commands /\ pass[r] \in Passes
    BY <1>1, <1>5 DEF Answer, OnSession, SentIsCommand
  <2>2. way \in Ways
    BY <1>1, <2>1
  <2>3. ProvenBy(pass[r], way) \in BOOLEAN
    BY <2>1 DEF ProvenBy, Passes
  <2>4. q \in Passes
    BY <1>1, <2>1, <2>3, HeardType
  <2>5. q.command = pass[r].command
    BY <2>1 DEF Passes
  <2>6. Outcome(r, q, way) /\ UNCHANGED <<tv, write>>
    BY <1>5 DEF Answer
  <2> HIDE DEF q, way
  <2> QED
    BY <2>1, <2>2, <2>4, <2>5, <2>6, OutcomeType
<1>6. ASSUME NEW r \in Readers, ProbeTimeout(r) PROVE TypeOK'
  <2>1. pass[r].command \in Commands /\ pass[r] \in Passes
    BY <1>1, <1>6 DEF ProbeTimeout, OnSession, SentIsCommand
  <2>2. Outcome(r, pass[r], "silent") /\ UNCHANGED <<tv, write>>
    BY <1>6 DEF ProbeTimeout
  <2> QED
    BY <2>1, <2>2, OutcomeType DEF Ways
<1>7. ASSUME NEW w \in Writers, Write(w) PROVE TypeOK'
  <2>0. write \in [Writers -> Writes]
    BY DEF TypeOK
  <2>1. CASE AsyncSetSlideshow(w)
    <3>1. /\ dialect' \in Dialects /\ basis' \in [settings : Nat, slideshow : Nat]
          /\ optGen' = gen
      BY <1>1, <2>1, DialectType DEF AsyncSetSlideshow
    <3>2. RouteFor(dialect') \in Writes
      <4>1. basis'.slideshow \in Nat
        BY <3>1
      <4> QED
        BY <1>1, <4>1 DEF RouteFor, Writes
    <3>3. write' \in [Writers -> Writes]
      BY <2>0, <2>1, <3>2 DEF AsyncSetSlideshow
    <3> QED
      BY <2>1, <3>1, <3>3 DEF AsyncSetSlideshow, TypeOK
  <2>2. CASE SendWrite(w) \/ WriteAnswered(w) \/ WriteFails(w)
    <3>1. /\ write[w] \in Writes
          /\ NoWrite \in Writes /\ [write[w] EXCEPT !.at = "sent"] \in Writes
          /\ [write[w] EXCEPT !.at = "queued", !.as = "fallback"] \in Writes
      BY <2>0 DEF NoWrite, Writes
    <3>2. \/ write' = [write EXCEPT ![w] = NoWrite]
          \/ write' = [write EXCEPT ![w] = [write[w] EXCEPT !.at = "sent"]]
          \/ write' = [write EXCEPT ![w] =
                         [write[w] EXCEPT !.at = "queued", !.as = "fallback"]]
      BY <2>0, <2>2 DEF SendWrite, WriteAnswered, WriteFails
    <3>3. write' \in [Writers -> Writes]
      BY <2>0, <3>1, <3>2
    <3> QED
      BY <2>2, <3>3 DEF SendWrite, WriteAnswered, WriteFails, TypeOK
  <2> QED
    BY <1>7, <2>1, <2>2 DEF Write
<1>8. CASE SessionReady \/ SessionLost \/ HalfOpen \/ Stop
  <2>1. pass' \in [Readers -> Passes]
    BY <1>1, <1>8, UnwellIsTyped DEF SessionReady, SessionLost, HalfOpen, Stop
  <2>2. /\ ready' \in BOOLEAN /\ alive' \in BOOLEAN /\ stopped' \in BOOLEAN
        /\ gen' \in {gen, gen + 1}
    BY <1>8 DEF SessionReady, SessionLost, HalfOpen, Stop, TypeOK
  <2>3. gen' \in Nat /\ optGen \in 0..gen'
    BY <1>1, <2>2
  <2>4. UNCHANGED <<tv, optGen, dialect, basis, verdict, write>>
    BY <1>8 DEF SessionReady, SessionLost, HalfOpen, Stop
  <2> QED
    BY <2>1, <2>2, <2>3, <2>4 DEF TypeOK
<1>9. CASE UNCHANGED vars
  BY <1>9 DEF vars, TypeOK
<1> QED
  BY <1>2, <1>3, <1>4, <1>5, <1>6, <1>7, <1>8, <1>9 DEF Next, Read

-----------------------------------------------------------------------------
(* The inductive invariant.                                                *)

DialectInv == PassesGood /\ ConclusionsRestOnAnswers /\ DialectsAreTrue
Verdicts == SilenceRetiresItsOwn /\ AnsweringTvKeepsSession
\* A write goes by nothing, or by what the session it was routed for proved.
WriteInv(v) ==
  v.as \in {"rotation", "legacy"} =>
    /\ v.basis = v.gen /\ v.gen <= gen
    /\ tv[IF v.as = "rotation" THEN "rotation" ELSE "slideshow"] \in Answered
WritesGood == \A w \in Writers : WriteInv(write[w])
AllInv == TypeOK /\ DialectInv /\ Verdicts /\ WritesGood

\* What a pass knows when a request of it ends, p being the pass with the
\* answer, if there was one, noted.
Evidence(p, way) ==
  /\ p.command \in Commands /\ p.at # "idle" /\ PassInv(p)
  /\ way \in Ways
  /\ way = "silent" => ~alive \/ tv[p.command] = "silent"
  /\ way # "silent" =>
       /\ alive /\ way = tv[p.command] /\ p.heard = gen
       /\ way = "error" \/ p.command \in {"brightness", "temperature"} => p.proven

\* A pass is as good as the session, the TV and optGen it goes by.
LEMMA PassKept ==
  ASSUME NEW p, PassInv(p), p.g \in Nat, gen \in Nat, optGen \in 0..gen, optGen' \in Nat,
         optGen' >= optGen, UNCHANGED <<tv, gen, alive>>
  PROVE  PassInv(p)'
BY DEF PassInv

LEMMA IdleGood == PassInv(Idle) /\ PassInv(Idle)'
BY DEF PassInv, Idle

\* What a conclusion rests on.
LEMMA ConcludesRightly ==
  ASSUME TypeOK, DialectInv, NEW p \in Passes, NEW way, Evidence(p, way), IsCurrent(p),
         \/ p.command = "aggregate" /\ way = "value" /\ Conclude("settings", "aggregate", p)
         \/ p.command = "temperature" /\ p.proven /\ Conclude("settings", "legacy", p)
         \/ p.command = "rotation" /\ way \in Answered /\ Conclude("slideshow", "rotation", p)
         \/ /\ p.command = "slideshow" /\ (way = "error" \/ (way = "silent" /\ p.proven))
            /\ Conclude("slideshow", "unsupported", p)
         \/ p.command = "slideshow" /\ way \in Answered /\ Conclude("slideshow", "legacy", p),
         UNCHANGED tv
  PROVE  ConclusionsRestOnAnswers' /\ DialectsAreTrue'
<1>1. /\ dialect \in Dialects /\ basis \in [settings : Nat, slideshow : Nat]
      /\ gen \in Nat /\ optGen \in 0..gen /\ p.g \in Nat
  BY DEF TypeOK, Passes
<1>2. p.g = gen /\ p.g <= optGen /\ p.at # "idle"
  BY DEF IsCurrent, Evidence, PassInv
<1>3. optGen = gen
  BY <1>1, <1>2
<1>4. p.heard = gen
  BY <1>2 DEF Evidence, PassInv, Answered
<1>5. CASE Conclude("settings", "aggregate", p) /\ p.command = "aggregate" /\ way = "value"
  <2>1. tv["aggregate"] = "value"
    BY <1>5 DEF Evidence
  <2>2. /\ dialect' = [dialect EXCEPT !["settings"] = "aggregate"]
        /\ basis' = [basis EXCEPT !["settings"] = gen] /\ optGen' = gen
    BY <1>3, <1>4, <1>5 DEF Conclude
  <2> QED
    BY <1>1, <1>3, <2>1, <2>2 DEF DialectInv, ConclusionsRestOnAnswers, DialectsAreTrue, Dialects
<1>6. CASE Conclude("settings", "legacy", p) /\ p.command = "temperature" /\ p.proven
  <2>1. tv["aggregate"] \in {"error", "silent"}
    BY <1>2, <1>6 DEF Evidence, PassInv
  <2>2. /\ dialect' = [dialect EXCEPT !["settings"] = "legacy"]
        /\ basis' = [basis EXCEPT !["settings"] = gen] /\ optGen' = gen
    BY <1>3, <1>4, <1>6 DEF Conclude
  <2> QED
    BY <1>1, <1>3, <2>1, <2>2 DEF DialectInv, ConclusionsRestOnAnswers, DialectsAreTrue, Dialects
<1>7. CASE Conclude("slideshow", "rotation", p) /\ p.command = "rotation" /\ way \in Answered
  <2>1. tv["rotation"] \in Answered
    BY <1>7 DEF Evidence, Answered
  <2>2. /\ dialect' = [dialect EXCEPT !["slideshow"] = "rotation"]
        /\ basis' = [basis EXCEPT !["slideshow"] = gen] /\ optGen' = gen
    BY <1>3, <1>4, <1>7 DEF Conclude
  <2> QED
    BY <1>1, <1>3, <2>1, <2>2 DEF DialectInv, ConclusionsRestOnAnswers, DialectsAreTrue, Dialects
<1>8. CASE /\ Conclude("slideshow", "unsupported", p) /\ p.command = "slideshow"
           /\ way = "error" \/ (way = "silent" /\ p.proven)
  <2>1. tv["rotation"] \notin Answered
    BY <1>2, <1>8 DEF Evidence, PassInv
  <2>2. /\ dialect' = [dialect EXCEPT !["slideshow"] = "unsupported"]
        /\ basis' = [basis EXCEPT !["slideshow"] = gen] /\ optGen' = gen
    BY <1>3, <1>4, <1>8 DEF Conclude
  <2> QED
    BY <1>1, <1>3, <2>1, <2>2 DEF DialectInv, ConclusionsRestOnAnswers, DialectsAreTrue, Dialects
<1>9. CASE Conclude("slideshow", "legacy", p) /\ p.command = "slideshow" /\ way \in Answered
  <2>1. alive /\ way = tv["slideshow"]
    BY <1>9 DEF Evidence, Answered
  <2>2. tv["rotation"] \notin Answered
    BY <1>2, <1>9, <2>1 DEF Evidence, PassInv
  <2>3. /\ dialect' = [dialect EXCEPT !["slideshow"] = "legacy"]
        /\ basis' = [basis EXCEPT !["slideshow"] = gen] /\ optGen' = gen
    BY <1>3, <1>4, <1>9 DEF Conclude
  <2> QED
    BY <1>1, <1>3, <1>9, <2>1, <2>2, <2>3
    DEF DialectInv, ConclusionsRestOnAnswers, DialectsAreTrue, Dialects
<1> QED
  BY <1>5, <1>6, <1>7, <1>8, <1>9

\* The next read of a pass knows what the last one has shown.
LEMMA ReadsOn ==
  ASSUME TypeOK, NEW p \in Passes, NEW way, Evidence(p, way), NEW command \in Commands,
         \/ p.command = "aggregate" /\ way \notin Answered /\ command = "brightness"
         \/ p.command = "brightness" /\ command = "temperature"
         \/ p.command = "rotation" /\ way \notin Answered /\ command = "slideshow"
  PROVE  PassInv([p EXCEPT !.at = "queued", !.command = command])
<1> DEFINE q == [p EXCEPT !.at = "queued", !.command = command]
<1>1. /\ q.at = "queued" /\ q.command = command /\ q.g = p.g /\ q.known = p.known
      /\ q.well = p.well /\ q.proven = p.proven /\ q.heard = p.heard
  BY DEF Passes
<1> HIDE DEF q
<1>2. way \in {"error", "silent"} \/ way \in Answered
  BY DEF Evidence, Ways, Answered
<1>3. CASE p.command = "aggregate" /\ way \notin Answered /\ command = "brightness"
  <2>1. p.g = gen => tv["aggregate"] \in {"error", "silent"} \/ (~alive /\ ~p.proven)
    BY <1>2, <1>3 DEF Evidence, PassInv
  <2> QED
    BY <1>1, <1>3, <2>1 DEF Evidence, PassInv
<1>4. CASE p.command = "brightness" /\ command = "temperature"
  <2>1. p.well /\ ~p.proven => tv["brightness"] = "silent"
    BY <1>4 DEF Evidence, PassInv
  <2> QED
    BY <1>1, <1>4, <2>1 DEF Evidence, PassInv
<1>5. CASE p.command = "rotation" /\ way \notin Answered /\ command = "slideshow"
  <2>1. p.g = gen => tv["rotation"] \notin Answered \/ (~alive /\ ~p.proven)
    BY <1>2, <1>5 DEF Evidence, PassInv, Answered
  <2>2. p.well /\ ~p.proven => tv["rotation"] = "silent"
    BY <1>2, <1>5 DEF Evidence, PassInv
  <2>3. ~p.known
    BY <1>5 DEF Evidence, PassInv
  <2> QED
    BY <1>1, <1>5, <2>1, <2>2, <2>3 DEF Evidence, PassInv
<1> QED
  BY <1>3, <1>4, <1>5 DEF q

\* Silence is only held against the session of the pass, and only when a live
\* session was silent to every alternative.
LEMMA RetiresRightly ==
  ASSUME TypeOK, NEW r \in Readers, NEW p \in Passes, NEW way, Evidence(p, way),
         IsCurrent(p), ~p.proven, RetireForSilence(r, p), UNCHANGED tv,
         p.command = "temperature" \/ (p.command = "slideshow" /\ way = "silent")
  PROVE  Verdicts'
<1>1. /\ verdict' = [kind |-> Kind(p.command), g |-> p.g, gen |-> gen, well |-> p.well]
      /\ UNCHANGED <<gen, alive>> /\ p.g = gen
  BY DEF RetireForSilence, IsCurrent
<1>2. SilenceRetiresItsOwn'
  BY <1>1 DEF SilenceRetiresItsOwn
<1>3. ASSUME p.well
      PROVE  IF Kind(p.command) = "slideshow"
             THEN tv["rotation"] = "silent" /\ tv["slideshow"] = "silent"
             ELSE /\ tv["aggregate"] \in {"error", "silent"}
                  /\ tv["brightness"] = "silent" /\ tv["temperature"] = "silent"
  <2>1. alive
    BY <1>3 DEF Evidence, PassInv
  <2>2. CASE p.command = "temperature"
    <3>1. Kind(p.command) = "settings"
      BY <2>2 DEF Kind, Settings
    <3>2. way = "silent"
      BY <2>2 DEF Evidence
    <3> QED
      BY <1>1, <1>3, <2>1, <2>2, <3>1, <3>2 DEF Evidence, PassInv
  <2>3. CASE p.command = "slideshow" /\ way = "silent"
    <3>1. Kind(p.command) = "slideshow"
      BY <2>3 DEF Kind, Settings
    <3>2. tv["slideshow"] = "silent"
      BY <2>1, <2>3 DEF Evidence
    <3>3. ~p.known
      BY <1>1, <2>3, <3>2 DEF Evidence, PassInv, Answered
    <3> QED
      BY <1>3, <2>3, <3>1, <3>2, <3>3 DEF Evidence, PassInv
  <2> QED
    BY <2>2, <2>3
<1>4. AnsweringTvKeepsSession'
  BY <1>1, <1>3 DEF AnsweringTvKeepsSession
<1> QED
  BY <1>2, <1>4 DEF Verdicts

LEMMA OutcomeGood ==
  ASSUME AllInv, NEW r \in Readers, NEW p \in Passes, NEW way, Evidence(p, way),
         Outcome(r, p, way), UNCHANGED <<tv, write>>
  PROVE  DialectInv' /\ Verdicts' /\ WritesGood'
<1>1. /\ TypeOK /\ DialectInv /\ Verdicts /\ WritesGood
      /\ way \in Ways /\ p.command \in Commands
  BY DEF AllInv, Evidence
<1>2. /\ pass \in [Readers -> Passes] /\ gen \in Nat /\ optGen \in 0..gen
  BY <1>1 DEF TypeOK
<1>3. WritesGood'
  <2>1. gen' = gen
    BY <1>1, OutcomeCases DEF KeepSession, RetireForSilence, sessionVars
  <2> QED
    BY <1>1, <2>1 DEF WritesGood, WriteInv
<1>4. ASSUME UNCHANGED <<gen, alive, optGen>>, NEW q, PassInv(q), q.g \in Nat,
             pass' = [pass EXCEPT ![r] = q]
      PROVE  PassesGood'
  <2>1. PassInv(q)'
    BY <1>2, <1>4, PassKept
  <2>2. \A other \in Readers : PassInv(pass[other])'
    <3> SUFFICES ASSUME NEW other \in Readers PROVE PassInv(pass[other])'
      OBVIOUS
    <3>1. CASE other = r
      BY <1>2, <1>4, <2>1, <3>1 DEF PassInv
    <3>2. CASE other # r
      <4>1. pass'[other] = pass[other] /\ PassInv(pass[other])
        BY <1>1, <1>2, <1>4, <3>2 DEF DialectInv, PassesGood
      <4> QED
        BY <1>2, <1>4, <4>1 DEF PassInv
    <3> QED
      BY <3>1, <3>2
  <2> QED
    BY <2>2 DEF PassesGood
<1>5. ASSUME Finish(r), UNCHANGED <<gen, alive, optGen>> PROVE PassesGood'
  BY <1>4, <1>5, IdleGood DEF Finish, Idle
<1>6. KeepDialect => ConclusionsRestOnAnswers' /\ DialectsAreTrue'
  BY <1>1 DEF KeepDialect, dialectVars, DialectInv, ConclusionsRestOnAnswers, DialectsAreTrue
<1>7. UNCHANGED verdict => Verdicts'
  BY <1>1 DEF Verdicts, SilenceRetiresItsOwn, AnsweringTvKeepsSession
<1>8. CASE Finish(r) /\ KeepDialect /\ KeepSession
  BY <1>3, <1>5, <1>6, <1>7, <1>8 DEF DialectInv, KeepDialect, KeepSession, dialectVars, sessionVars
<1>9. ASSUME IsCurrent(p), Finish(r), KeepSession,
             \/ p.command = "aggregate" /\ way = "value" /\ Conclude("settings", "aggregate", p)
             \/ p.command = "temperature" /\ p.proven /\ Conclude("settings", "legacy", p)
             \/ p.command = "rotation" /\ way \in Answered /\ Conclude("slideshow", "rotation", p)
             \/ /\ p.command = "slideshow" /\ (way = "error" \/ (way = "silent" /\ p.proven))
                /\ Conclude("slideshow", "unsupported", p)
             \/ p.command = "slideshow" /\ way \in Answered /\ Conclude("slideshow", "legacy", p)
      PROVE  DialectInv' /\ Verdicts' /\ WritesGood'
  <2>1. ConclusionsRestOnAnswers' /\ DialectsAreTrue'
    BY <1>1, <1>9, ConcludesRightly
  <2>2. UNCHANGED <<gen, alive, optGen, verdict>>
    BY <1>9 DEF KeepSession, sessionVars, Conclude
  <2> QED
    BY <1>3, <1>5, <1>7, <1>9, <2>1, <2>2 DEF DialectInv
<1>10. ASSUME KeepDialect, KeepSession, NEW c \in Commands, Reads(r, p, c),
              \/ p.command = "aggregate" /\ way \notin Answered /\ c = "brightness"
              \/ p.command = "brightness" /\ c = "temperature"
              \/ p.command = "rotation" /\ way \notin Answered /\ c = "slideshow"
       PROVE  DialectInv' /\ Verdicts' /\ WritesGood'
  <2>1. PassInv([p EXCEPT !.at = "queued", !.command = c])
    BY <1>1, <1>10, ReadsOn
  <2>2. [p EXCEPT !.at = "queued", !.command = c].g \in Nat
    BY DEF Passes
  <2>3. UNCHANGED <<gen, alive, optGen, verdict>>
    BY <1>10 DEF KeepDialect, KeepSession, dialectVars, sessionVars
  <2>4. PassesGood'
    <3>1. CASE stopped \/ ~ready
      BY <1>5, <1>10, <2>3, <3>1 DEF Reads, Finish
    <3>2. CASE ~(stopped \/ ~ready)
      BY <1>4, <1>10, <2>1, <2>2, <2>3, <3>2 DEF Reads
    <3> QED
      BY <3>1, <3>2
  <2> QED
    BY <1>3, <1>6, <1>7, <1>10, <2>3, <2>4 DEF DialectInv
<1>11. ASSUME IsCurrent(p), ~p.proven, RetireForSilence(r, p),
              p.command = "temperature" \/ (p.command = "slideshow" /\ way = "silent")
       PROVE  DialectInv' /\ Verdicts' /\ WritesGood'
  <2>1. Verdicts'
    BY <1>1, <1>11, RetiresRightly
  <2>2. Finish(r) /\ KeepDialect /\ UNCHANGED <<gen, alive, optGen>>
    BY <1>11 DEF RetireForSilence, KeepDialect, dialectVars
  <2> QED
    BY <1>3, <1>5, <1>6, <2>1, <2>2 DEF DialectInv
<1> QED
  BY <1>1, <1>8, <1>9, <1>10, <1>11, OutcomeCases DEF Commands

-----------------------------------------------------------------------------
(* Every step preserves it.                                                *)

\* Reset keeps what is true of the present session, and forgets the rest.
LEMMA ResetGood ==
  ASSUME TypeOK, DialectInv, Reset, UNCHANGED tv
  PROVE  ConclusionsRestOnAnswers' /\ DialectsAreTrue'
<1>1. CASE optGen = gen
  BY <1>1 DEF Reset, dialectVars, DialectInv, ConclusionsRestOnAnswers, DialectsAreTrue
<1>2. CASE optGen # gen
  BY <1>2 DEF Reset, Unknown, ConclusionsRestOnAnswers, DialectsAreTrue
<1> QED
  BY <1>1, <1>2

\* What is proved of each pass of the next state, as a value, is proved of it.
LEMMA PassesPrimed ==
  ASSUME \A r \in Readers : \A q : q = pass'[r] => PassInv(q)'
  PROVE  PassesGood'
BY DEF PassesGood, PassInv

\* A pass begins by what the dialect, just reset, says.
LEMMA StartGood ==
  ASSUME AllInv, NEW r \in Readers, StartSettings(r) \/ StartSlideshow(r)
  PROVE  DialectInv'
<1>1. /\ TypeOK /\ DialectInv /\ Reset /\ UNCHANGED <<tv, gen, alive>>
  BY DEF AllInv, StartSettings, StartSlideshow, KeepSession, sessionVars
<1>2. ConclusionsRestOnAnswers' /\ DialectsAreTrue'
  BY <1>1, ResetGood
<1>3. /\ pass \in [Readers -> Passes] /\ gen \in Nat /\ optGen \in 0..gen
      /\ dialect \in Dialects /\ basis \in [settings : Nat, slideshow : Nat] /\ alive \in BOOLEAN
  BY <1>1 DEF TypeOK
<1>4. optGen' = gen
  BY <1>1, <1>3, DialectType
<1>5. \E c \in Commands, k \in BOOLEAN :
        /\ pass' = [pass EXCEPT ![r] = Pass(c, k)]
        /\ \/ c = "aggregate" /\ ~k
           \/ c = "rotation" /\ ~k
           \/ c = "brightness" /\ dialect'.settings = "legacy"
           \/ c = "slideshow" /\ dialect'.slideshow = "legacy" /\ k
  BY DEF StartSettings, StartSlideshow, Commands
<1>6. PICK c \in Commands, k \in BOOLEAN :
        /\ pass' = [pass EXCEPT ![r] = Pass(c, k)]
        /\ \/ c = "aggregate" /\ ~k
           \/ c = "rotation" /\ ~k
           \/ c = "brightness" /\ dialect'.settings = "legacy"
           \/ c = "slideshow" /\ dialect'.slideshow = "legacy" /\ k
  BY <1>5
<1>7. ASSUME NEW q, q = Pass(c, k) PROVE PassInv(q)'
  <2>1. /\ q.at = "queued" /\ q.command = c /\ q.g = gen /\ q.known = k
        /\ q.well = alive /\ ~q.proven /\ q.heard = 0
    BY <1>7 DEF Pass, Idle
  <2>2. c = "brightness" => tv["aggregate"] \in {"error", "silent"}
    BY <1>1, <1>2, <1>6 DEF DialectsAreTrue
  <2>3. c = "slideshow" => tv["rotation"] \notin Answered /\ tv["slideshow"] \in Answered /\ k
    BY <1>1, <1>2, <1>6 DEF DialectsAreTrue
  <2> QED
    BY <1>1, <1>3, <1>4, <1>6, <2>1, <2>2, <2>3 DEF PassInv
<1>8. \A other \in Readers : \A q : q = pass'[other] => PassInv(q)'
  <2> SUFFICES ASSUME NEW other \in Readers, NEW q, q = pass'[other] PROVE PassInv(q)'
    OBVIOUS
  <2>1. CASE other = r
    <3>1. q = Pass(c, k)
      BY <1>3, <1>6, <2>1
    <3> QED
      BY <1>7, <3>1
  <2>2. CASE other # r
    <3>1. q = pass[other] /\ PassInv(q) /\ q.g \in Nat
      BY <1>1, <1>3, <1>6, <2>2 DEF DialectInv, PassesGood, Passes
    <3> QED
      BY <1>1, <1>3, <1>4, <3>1, PassKept
  <2> QED
    BY <2>1, <2>2
<1>9. PassesGood'
  BY <1>8, PassesPrimed
<1> QED
  BY <1>2, <1>9 DEF DialectInv

\* A change of the session spoils every pass that is under way.
LEMMA SessionGood ==
  ASSUME AllInv, SessionReady \/ SessionLost \/ HalfOpen \/ Stop
  PROVE  DialectInv'
<1>1. /\ TypeOK /\ DialectInv /\ pass' = Unwell /\ UNCHANGED <<tv, optGen, dialect, basis>>
      /\ (gen' = gen + 1 \/ (gen' = gen /\ (alive' = alive \/ ~alive')))
  BY DEF AllInv, SessionReady, SessionLost, HalfOpen, Stop, KeepDialect, dialectVars
<1>2. ConclusionsRestOnAnswers' /\ DialectsAreTrue'
  BY <1>1 DEF DialectInv, ConclusionsRestOnAnswers, DialectsAreTrue
<1>3. pass \in [Readers -> Passes] /\ gen \in Nat /\ optGen \in 0..gen
  BY <1>1 DEF TypeOK
<1>4. \A r \in Readers : \A q : q = pass'[r] => PassInv(q)'
  <2> SUFFICES ASSUME NEW r \in Readers, NEW p, p = pass[r], NEW q, q = pass'[r]
               PROVE  PassInv(q)'
    OBVIOUS
  <2>1. p \in Passes /\ PassInv(p) /\ q = [p EXCEPT !.well = FALSE]
    BY <1>1, <1>3 DEF Unwell, DialectInv, PassesGood
  <2>2. /\ q.at = p.at /\ q.command = p.command /\ q.g = p.g /\ q.known = p.known
        /\ ~q.well /\ q.proven = p.proven /\ q.heard = p.heard /\ p.g \in Nat
    BY <2>1 DEF Passes
  <2>3. CASE gen' = gen + 1
    BY <1>1, <1>3, <2>1, <2>2, <2>3 DEF PassInv
  <2>4. CASE gen' = gen /\ (alive' = alive \/ ~alive')
    BY <1>1, <1>3, <2>1, <2>2, <2>4 DEF PassInv
  <2> QED
    BY <1>1, <2>3, <2>4
<1>5. PassesGood'
  BY <1>4, PassesPrimed
<1> QED
  BY <1>2, <1>5 DEF DialectInv

\* An answer is noted in the pass before it is judged.
LEMMA AnswerGood ==
  ASSUME AllInv, NEW r \in Readers, Answer(r)
  PROVE  DialectInv' /\ Verdicts' /\ WritesGood'
<1> DEFINE way == tv[pass[r].command]
           q == [pass[r] EXCEPT !.proven = ProvenBy(pass[r], way), !.heard = gen]
<1>1. /\ pass \in [Readers -> Passes] /\ gen \in Nat /\ alive \in BOOLEAN
      /\ tv \in [Commands -> Ways] /\ PassesGood
  BY DEF AllInv, TypeOK, DialectInv
<1>2. pass[r] \in Passes /\ pass[r].at = "sent" /\ PassInv(pass[r]) /\ alive /\ way # "silent"
  BY <1>1 DEF Answer, OnSession, PassesGood
<1>3. pass[r].command \in Commands
  BY <1>2 DEF PassInv
<1>4. way \in Ways
  BY <1>1, <1>3
<1>5. ProvenBy(pass[r], way) \in BOOLEAN
  BY <1>2 DEF ProvenBy, Passes
<1>6. q \in Passes
  BY <1>1, <1>2, <1>5, HeardType
<1>7. /\ q.at = "sent" /\ q.command = pass[r].command /\ q.g = pass[r].g
      /\ q.known = pass[r].known /\ q.well = pass[r].well /\ q.heard = gen
      /\ q.proven = ProvenBy(pass[r], way)
  BY <1>2 DEF Passes
<1>8. Outcome(r, q, way) /\ UNCHANGED <<tv, write>>
  BY DEF Answer
<1>9. /\ pass[r].proven => q.proven
      /\ way = "error" \/ q.command \in {"brightness", "temperature"} => q.proven
      /\ q.command \in {"aggregate", "rotation"} /\ q.proven =>
           way = "error" \/ pass[r].proven
  BY <1>7 DEF ProvenBy
<1> HIDE DEF q
<1>10. PassInv(q)
  BY <1>2, <1>3, <1>7, <1>9 DEF PassInv
<1>11. Evidence(q, way)
  BY <1>2, <1>3, <1>4, <1>7, <1>9, <1>10 DEF Evidence
<1> HIDE DEF way
<1> QED
  BY <1>6, <1>8, <1>11, OutcomeGood

LEMMA TimeoutGood ==
  ASSUME AllInv, NEW r \in Readers, ProbeTimeout(r)
  PROVE  DialectInv' /\ Verdicts' /\ WritesGood'
<1>1. pass[r] \in Passes /\ pass[r].at = "sent" /\ PassInv(pass[r])
  BY DEF AllInv, TypeOK, DialectInv, PassesGood, ProbeTimeout, OnSession
<1>2. Evidence(pass[r], "silent")
  BY <1>1 DEF Evidence, PassInv, ProbeTimeout, Ways
<1>3. Outcome(r, pass[r], "silent") /\ UNCHANGED <<tv, write>>
  BY DEF ProbeTimeout
<1> QED
  BY <1>1, <1>2, <1>3, OutcomeGood

\* A request that is sent, refused or broken off.
LEMMA RequestGood ==
  ASSUME AllInv, NEW r \in Readers, Send(r) \/ SendRefused(r) \/ RequestBreaks(r)
  PROVE  DialectInv'
<1>1. /\ TypeOK /\ DialectInv /\ pass \in [Readers -> Passes] /\ gen \in Nat /\ optGen \in 0..gen
  BY DEF AllInv, TypeOK
<1>2. UNCHANGED <<tv, gen, alive, optGen, dialect, basis>>
  BY DEF Send, SendRefused, RequestBreaks, ReadFailed, KeepDialect, KeepSession, dialectVars,
     sessionVars
<1>3. ConclusionsRestOnAnswers' /\ DialectsAreTrue'
  BY <1>1, <1>2 DEF DialectInv, ConclusionsRestOnAnswers, DialectsAreTrue
<1>4. \A other \in Readers : \A q : q = pass'[other] => PassInv(q)'
  <2> SUFFICES ASSUME NEW other \in Readers, NEW p, p = pass[other], NEW q, q = pass'[other]
               PROVE  PassInv(q)'
    OBVIOUS
  <2>1. p \in Passes /\ PassInv(p) /\ p.g \in Nat
    BY <1>1 DEF DialectInv, PassesGood, Passes
  <2>2. PassInv(p)'
    BY <1>1, <1>2, <2>1, PassKept
  <2>3. CASE q = p
    BY <2>2, <2>3
  <2>4. CASE q = Idle
    BY <2>4, IdleGood
  <2>5. CASE Send(r) /\ other = r
    <3>1. q = [p EXCEPT !.at = "sent", !.on = gen] /\ p.at = "queued"
      BY <1>1, <2>5 DEF Send
    <3>2. /\ q.at = "sent" /\ q.command = p.command /\ q.g = p.g /\ q.known = p.known
          /\ q.well = p.well /\ q.proven = p.proven /\ q.heard = p.heard
      BY <2>1, <3>1 DEF Passes
    <3> QED
      BY <2>2, <3>1, <3>2 DEF PassInv
  <2> QED
    BY <1>1, <2>3, <2>4, <2>5 DEF Send, SendRefused, RequestBreaks, ReadFailed, Finish
<1>5. PassesGood'
  BY <1>4, PassesPrimed
<1> QED
  BY <1>3, <1>5 DEF DialectInv

LEMMA WritesPrimed ==
  ASSUME \A w \in Writers : \A v : v = write'[w] => WriteInv(v)'
  PROVE  WritesGood'
BY DEF WritesGood, WriteInv

\* A write that is routed, sent, answered or given up.
LEMMA WriteGood ==
  ASSUME AllInv, NEW w \in Writers, Write(w)
  PROVE  DialectInv' /\ WritesGood'
<1>1. /\ TypeOK /\ DialectInv /\ WritesGood /\ UNCHANGED <<tv, pass, gen, alive>>
      /\ Reset \/ UNCHANGED <<optGen, dialect, basis>>
  BY DEF AllInv, Write, AsyncSetSlideshow, SendWrite, WriteAnswered, WriteFails, KeepSession,
     KeepDialect, sessionVars, dialectVars
<1>2. /\ pass \in [Readers -> Passes] /\ gen \in Nat /\ optGen \in 0..gen
      /\ dialect \in Dialects /\ basis \in [settings : Nat, slideshow : Nat]
      /\ write \in [Writers -> Writes]
  BY <1>1 DEF TypeOK
<1>3. ConclusionsRestOnAnswers' /\ DialectsAreTrue'
  BY <1>1, ResetGood DEF DialectInv, ConclusionsRestOnAnswers, DialectsAreTrue
<1>4. optGen' \in {optGen, gen}
  BY <1>1, <1>2, DialectType
<1>5. \A r \in Readers : \A q : q = pass'[r] => PassInv(q)'
  <2> SUFFICES ASSUME NEW r \in Readers, NEW q, q = pass[r] PROVE PassInv(q)'
    BY <1>1
  <2>1. q \in Passes /\ PassInv(q) /\ q.g \in Nat
    BY <1>1, <1>2 DEF DialectInv, PassesGood, Passes
  <2> QED
    BY <1>1, <1>2, <1>4, <2>1, PassKept
<1>6. PassesGood'
  BY <1>5, PassesPrimed
<1>7. ASSUME NEW v, WriteInv(v)', write' = [write EXCEPT ![w] = v] PROVE WritesGood'
  <2> SUFFICES ASSUME NEW other \in Writers, NEW u, u = write'[other] PROVE WriteInv(u)'
    BY WritesPrimed
  <2>1. u = v \/ u = write[other]
    BY <1>2, <1>7
  <2>2. u = write[other] => WriteInv(u)'
    BY <1>1 DEF WritesGood, WriteInv
  <2> QED
    BY <1>7, <2>1, <2>2
<1>8. CASE AsyncSetSlideshow(w)
  <2> SUFFICES ASSUME NEW v, v = RouteFor(dialect') PROVE WriteInv(v)'
    BY <1>3, <1>6, <1>7, <1>8 DEF AsyncSetSlideshow, DialectInv
  <2>1. /\ v.gen = gen /\ v.basis = basis'.slideshow
        /\ v.as = IF dialect'.slideshow \in {"legacy", "rotation"}
                  THEN dialect'.slideshow ELSE "either"
    BY DEF RouteFor
  <2>2. optGen' = gen
    BY <1>2, <1>8, DialectType DEF AsyncSetSlideshow
  <2>3. dialect'.slideshow \in {"legacy", "rotation"} => basis'.slideshow = gen
    BY <1>3, <2>2 DEF ConclusionsRestOnAnswers
  <2> QED
    BY <1>1, <1>2, <1>3, <2>1, <2>3 DEF WriteInv, DialectsAreTrue
<1>9. CASE SendWrite(w)
  <2> SUFFICES ASSUME NEW v, v = [write[w] EXCEPT !.at = "sent"] PROVE WriteInv(v)'
    BY <1>3, <1>6, <1>7, <1>9 DEF SendWrite, DialectInv
  <2>0. write[w] \in Writes
    BY <1>2
  <2>1. v.as = write[w].as /\ v.gen = write[w].gen /\ v.basis = write[w].basis
    BY <2>0 DEF Writes
  <2> QED
    BY <1>1, <2>1 DEF WritesGood, WriteInv
<1>10. CASE WriteAnswered(w) \/ WriteFails(w)
  <2> SUFFICES ASSUME NEW v, \/ v = [write[w] EXCEPT !.at = "queued", !.as = "fallback"]
                            \/ v = NoWrite
               PROVE  WriteInv(v)'
    BY <1>3, <1>6, <1>7, <1>10 DEF WriteAnswered, WriteFails, DialectInv
  <2>1. write[w] \in Writes
    BY <1>2
  <2>2. v.as \in {"fallback", "either"}
    <3>1. [write[w] EXCEPT !.at = "queued", !.as = "fallback"].as = "fallback"
      BY <2>1 DEF Writes
    <3>2. NoWrite.as = "either"
      BY DEF NoWrite
    <3> QED
      BY <3>1, <3>2
  <2> QED
    BY <2>2 DEF WriteInv
<1> QED
  BY <1>3, <1>6, <1>8, <1>9, <1>10 DEF DialectInv, Write

LEMMA InvStep == AllInv /\ [Next]_vars => AllInv'
<1> SUFFICES ASSUME AllInv, [Next]_vars PROVE AllInv'
  OBVIOUS
<1>1. TypeOK'
  BY TypeStep DEF AllInv, DialectInv, PassesGood, PassInv, SentIsCommand
<1>2. UNCHANGED verdict /\ UNCHANGED tv => Verdicts'
  BY DEF AllInv, Verdicts, SilenceRetiresItsOwn, AnsweringTvKeepsSession
<1>3. UNCHANGED <<tv, write>> /\ gen' \in {gen, gen + 1} => WritesGood'
  <2> SUFFICES ASSUME UNCHANGED <<tv, write>>, gen' \in {gen, gen + 1}, NEW w \in Writers
               PROVE  WriteInv(write[w])'
    BY DEF WritesGood
  <2>1. WriteInv(write[w]) /\ write[w].gen \in Nat /\ gen \in Nat
    BY DEF AllInv, WritesGood, TypeOK, Writes
  <2> QED
    BY <2>1 DEF WriteInv
<1>4. ASSUME NEW r \in Readers, StartSettings(r) \/ StartSlideshow(r) PROVE AllInv'
  <2>1. UNCHANGED <<tv, write, verdict, gen>>
    BY <1>4 DEF StartSettings, StartSlideshow, KeepSession, sessionVars
  <2> QED
    BY <1>1, <1>2, <1>3, <1>4, <2>1, StartGood DEF AllInv
<1>5. ASSUME NEW r \in Readers, Send(r) \/ SendRefused(r) \/ RequestBreaks(r) PROVE AllInv'
  <2>1. UNCHANGED <<tv, write, verdict, gen>>
    BY <1>5 DEF Send, SendRefused, RequestBreaks, ReadFailed, KeepSession, sessionVars
  <2> QED
    BY <1>1, <1>2, <1>3, <1>5, <2>1, RequestGood DEF AllInv
<1>6. ASSUME NEW r \in Readers, Answer(r) \/ ProbeTimeout(r) PROVE AllInv'
  BY <1>1, <1>6, AnswerGood, TimeoutGood DEF AllInv
<1>7. ASSUME NEW w \in Writers, Write(w) PROVE AllInv'
  <2>1. UNCHANGED <<tv, verdict>>
    BY <1>7 DEF Write, AsyncSetSlideshow, SendWrite, WriteAnswered, WriteFails, KeepSession
  <2> QED
    BY <1>1, <1>2, <1>7, <2>1, WriteGood DEF AllInv
<1>8. CASE SessionReady \/ SessionLost \/ HalfOpen \/ Stop
  <2>1. UNCHANGED <<tv, verdict, write>> /\ gen' \in {gen, gen + 1}
    BY <1>8 DEF SessionReady, SessionLost, HalfOpen, Stop
  <2> QED
    BY <1>1, <1>2, <1>3, <1>8, <2>1, SessionGood DEF AllInv
<1>9. CASE UNCHANGED vars
  <2>1. UNCHANGED <<tv, gen, alive, optGen, dialect, basis, pass, verdict, write>>
    BY <1>9 DEF vars, sessionVars, dialectVars
  <2>2. DialectInv'
    BY <2>1 DEF AllInv, DialectInv, PassesGood, PassInv, ConclusionsRestOnAnswers, DialectsAreTrue
  <2> QED
    BY <1>1, <1>2, <1>3, <2>1, <2>2 DEF AllInv
<1> QED
  BY <1>4, <1>5, <1>6, <1>7, <1>8, <1>9 DEF Next, Read

LEMMA InvInit == Init => AllInv
<1> SUFFICES ASSUME Init PROVE AllInv
  OBVIOUS
<1>1. PassesGood
  BY IdleGood DEF Init, PassesGood
<1>2. ConclusionsRestOnAnswers /\ DialectsAreTrue
  BY DEF Init, Unknown, ConclusionsRestOnAnswers, DialectsAreTrue
<1>3. Verdicts
  BY DEF Init, NoVerdict, Verdicts, SilenceRetiresItsOwn, AnsweringTvKeepsSession
<1>4. WritesGood
  BY DEF Init, NoWrite, WritesGood, WriteInv
<1> QED
  BY <1>1, <1>2, <1>3, <1>4, TypeInit DEF AllInv, DialectInv

LEMMA Invariant == Spec => []AllInv
BY InvInit, InvStep, PTL DEF Spec

-----------------------------------------------------------------------------
(* The theorems.                                                           *)

(* The variables stay in the sets the code keeps them in.                  *)
THEOREM TypeCorrect == Spec => []TypeOK
<1>1. AllInv => TypeOK
  BY DEF AllInv
<1> QED
  BY <1>1, Invariant, PTL

(* A dialect is concluded from an answer of the very session it is cached  *)
(* for, never from silence alone and never across a reconnection.          *)
THEOREM ConclusionsRest == Spec => []ConclusionsRestOnAnswers
<1>1. AllInv => ConclusionsRestOnAnswers
  BY DEF AllInv, DialectInv
<1> QED
  BY <1>1, Invariant, PTL

(* The cached dialect is the one the TV speaks, whenever sessions die.     *)
THEOREM DialectsStayTrue == Spec => []DialectsAreTrue
<1>1. AllInv => DialectsAreTrue
  BY DEF AllInv, DialectInv
<1> QED
  BY <1>1, Invariant, PTL

(* Silence retires the session that was silent, never its successor.       *)
THEOREM SilenceIsItsOwn == Spec => []SilenceRetiresItsOwn
<1>1. AllInv => SilenceRetiresItsOwn
  BY DEF AllInv, Verdicts
<1> QED
  BY <1>1, Invariant, PTL

(* A TV that answers an alternative with a value keeps its session.        *)
THEOREM AnswersKeepSession == Spec => []AnsweringTvKeepsSession
<1>1. AllInv => AnsweringTvKeepsSession
  BY DEF AllInv, Verdicts
<1> QED
  BY <1>1, Invariant, PTL

(* A slideshow write that is sent without the fallback goes by a dialect   *)
(* that the session it was routed for has proved and the TV speaks,        *)
(* whatever became of that session while the write waited for the lock.    *)
THEOREM RoutesAreProved == Spec => []RoutedByProof
<1>1. AllInv => RoutedByProof
  BY DEF AllInv, WritesGood, WriteInv, RoutedByProof
<1> QED
  BY <1>1, Invariant, PTL
=============================================================================
