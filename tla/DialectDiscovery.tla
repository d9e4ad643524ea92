-------------------------- MODULE DialectDiscovery --------------------------
(***************************************************************************)
(* How FrameDevice (device.py) learns, from silent and refused commands,   *)
(* which dialect a TV speaks for its art settings and for its slideshow,   *)
(* and when silence costs the art session.                                 *)
(*                                                                         *)
(* Several polls may run a pass at the same time (see FrameCoordinator),   *)
(* beside the user's slideshow writes, which go by what the passes found.  *)
(* Their requests are serialised by the operation lock of FrameArt         *)
(* (frame_art.py request), and the session may be lost, or be replaced by  *)
(* a new one, while one of them waits.  A request that was sent fails as   *)
(* soon as its session is lost, before another one can be opened.          *)
(*                                                                         *)
(* The TV answers each command in its own way, the same for ever: with a   *)
(* value, with one that does not parse ("odd"), with an error, or never.   *)
(* A session that is alive answers within ART_PROBE_DEADLINE; one that is  *)
(* half-open does not answer.  A write may be accepted, refused or never   *)
(* be answered, whatever the TV reads.  The values themselves are left out.*)
(*                                                                         *)
(* A definition named after a defect (ProvenByError, ...) is the faulty    *)
(* variant of the one after it; no action uses it.                         *)
(***************************************************************************)
EXTENDS Integers

CONSTANTS
  Readers,        \* the polls whose passes can overlap
  Writers,        \* the user's slideshow writes that can be under way together
  Tvs,            \* how a TV may answer: functions from Commands to Ways
  MaxSessions     \* bound: generations of the art session

ASSUME SessionsAssumption == MaxSessions \in Nat

Commands == {"aggregate", "brightness", "temperature", "rotation", "slideshow"}
Ways == {"value", "odd", "error", "silent"}
ASSUME TvsAssumption == Tvs \subseteq [Commands -> Ways]

VARIABLES
  tv,               \* how the TV answers each command
  ready, gen,       \* FrameDevice.art_ready, art_generation
  alive,            \* the TV end of the session still answers
  stopped,          \* FrameDevice._stopped
  optGen,           \* _optional_dialect_generation
  dialect,          \* _art_settings_dialect and _slideshow_dialect
  pass,             \* what each poll is reading, with its locals
  basis,            \* history: the generation of the answer a dialect rests on
  write,            \* the slideshow writes under way
  verdict           \* history: the pass that last retired a session for silence

sessionVars == <<ready, gen, alive, stopped>>
dialectVars == <<optGen, dialect, basis>>
vars == <<tv, sessionVars, dialectVars, pass, write, verdict>>

-----------------------------------------------------------------------------
(* Passes.                                                                 *)

\* Locals: the generation, liveness_proven, whether LEGACY was cached (known);
\* history: the generation of the last answer (heard), whether the session has
\* been alive ever since the pass began (well).
Idle == [at |-> "idle", command |-> "none", g |-> 0, on |-> 0, proven |-> FALSE,
         known |-> FALSE, heard |-> 0, well |-> FALSE]
Pass(command, known) ==
  [Idle EXCEPT !.at = "queued", !.command = command, !.g = gen, !.known = known,
               !.well = alive]

Settings == {"aggregate", "brightness", "temperature"}
Kind(command) == IF command \in Settings THEN "settings" ELSE "slideshow"

NoVerdict == [kind |-> "none", g |-> 0, gen |-> 0, well |-> FALSE]
\* A slideshow write: the command it takes, and as history the generation it
\* was routed in and the one whose answer the dialect rested on.
NoWrite == [at |-> "idle", as |-> "either", gen |-> 0, basis |-> 0]
Unknown == [settings |-> "unknown", slideshow |-> "unknown"]
NoBasis == [settings |-> 0, slideshow |-> 0]

\* _optional_generation_is_current.
IsCurrentWhenReady(p) == ~stopped /\ ready
IsCurrent(p) == ~stopped /\ ready /\ gen = p.g

Finish(r) == pass' = [pass EXCEPT ![r] = Idle]

\* The next read of a pass: nothing is read without a ready session.
Reads(r, p, command) ==
  pass' = [pass EXCEPT ![r] =
             IF stopped \/ ~ready THEN Idle
             ELSE [p EXCEPT !.at = "queued", !.command = command]]

KeepDialect == UNCHANGED dialectVars
KeepSession == UNCHANGED <<sessionVars, verdict>>

Conclude(what, d, p) ==
  /\ dialect' = [dialect EXCEPT ![what] = d]
  /\ basis' = [basis EXCEPT ![what] = p.heard]
  /\ optGen' = optGen

\* _reset_optional_dialects_for_generation.
ResetNever == UNCHANGED dialectVars
Reset ==
  IF optGen = gen THEN UNCHANGED dialectVars
  ELSE optGen' = gen /\ dialect' = Unknown /\ basis' = NoBasis

\* async_connection_failed after silence, and the pass returns nothing.
RetireForSilence(r, p) ==
  /\ Finish(r)
  /\ ready' = FALSE
  /\ verdict' = [kind |-> Kind(p.command), g |-> p.g, gen |-> gen, well |-> p.well]
  /\ UNCHANGED <<gen, alive, stopped>>
  /\ KeepDialect

-----------------------------------------------------------------------------
(* async_get_art_settings: aggregate, then the two legacy getters.         *)

StartSettings(r) ==
  /\ pass[r].at = "idle" /\ ready /\ ~stopped
  /\ Reset
  /\ pass' = [pass EXCEPT ![r] =
       IF dialect'.settings = "legacy" THEN Pass("brightness", TRUE)
       ELSE Pass("aggregate", FALSE)]
  /\ UNCHANGED <<tv, write>> /\ KeepSession

\* The aggregate answer parses, and its generation is still current.
AggregateAnswered(r, p, way) ==
  /\ IF IsCurrent(p) /\ way = "value" THEN Conclude("settings", "aggregate", p)
     ELSE KeepDialect
  /\ Finish(r)
  /\ KeepSession

AggregateMissing(r, p) ==
  /\ IF IsCurrent(p) THEN Reads(r, p, "brightness") ELSE Finish(r)
  /\ KeepDialect /\ KeepSession

\* The outcomes of both legacy getters have been collected.
JudgeLegacySettings(r, p) ==
  IF ~IsCurrent(p) THEN Finish(r) /\ KeepDialect /\ KeepSession
  ELSE IF ~p.proven THEN RetireForSilence(r, p)
  ELSE Conclude("settings", "legacy", p) /\ Finish(r) /\ KeepSession

\* One legacy getter answered, was refused, or stayed silent.
LegacySetting(r, p, way) ==
  IF way \in {"value", "odd"} /\ ~IsCurrent(p)
  THEN Finish(r) /\ KeepDialect /\ KeepSession
  ELSE IF p.command = "brightness"
  THEN Reads(r, p, "temperature") /\ KeepDialect /\ KeepSession
  ELSE JudgeLegacySettings(r, p)

SettingsOutcome(r, p, way) ==
  IF p.command # "aggregate" THEN LegacySetting(r, p, way)
  ELSE IF way \in {"value", "odd"} THEN AggregateAnswered(r, p, way)
  ELSE AggregateMissing(r, p)

-----------------------------------------------------------------------------
(* async_get_slideshow_state: modern, then legacy.                         *)

StartSlideshow(r) ==
  /\ pass[r].at = "idle" /\ ready /\ ~stopped
  /\ Reset
  /\ dialect'.slideshow # "unsupported"
  /\ pass' = [pass EXCEPT ![r] =
       IF dialect'.slideshow = "legacy" THEN Pass("slideshow", TRUE)
       ELSE Pass("rotation", FALSE)]
  /\ UNCHANGED <<tv, write>> /\ KeepSession

RotationOutcome(r, p, way) ==
  /\ IF ~IsCurrent(p) THEN Finish(r) /\ KeepDialect
     ELSE IF way \in {"value", "odd"}
     THEN Conclude("slideshow", "rotation", p) /\ Finish(r)
     ELSE Reads(r, p, "slideshow") /\ KeepDialect
  /\ KeepSession

\* A cached LEGACY is left as it is by an answer; a first one is cached.
UnsupportedBySilence(r, p, way) ==
  IF ~IsCurrent(p) THEN Finish(r) /\ KeepDialect /\ KeepSession
  ELSE IF way \in {"error", "silent"}
  THEN Conclude("slideshow", "unsupported", p) /\ Finish(r) /\ KeepSession
  ELSE /\ IF p.known THEN KeepDialect ELSE Conclude("slideshow", "legacy", p)
       /\ Finish(r) /\ KeepSession
LegacySlideshowOutcome(r, p, way) ==
  IF ~IsCurrent(p) THEN Finish(r) /\ KeepDialect /\ KeepSession
  ELSE IF way = "error" \/ (way = "silent" /\ p.proven)
  THEN Conclude("slideshow", "unsupported", p) /\ Finish(r) /\ KeepSession
  ELSE IF way = "silent" THEN RetireForSilence(r, p)
  ELSE /\ IF p.known THEN KeepDialect ELSE Conclude("slideshow", "legacy", p)
       /\ Finish(r) /\ KeepSession

SlideshowOutcome(r, p, way) ==
  IF p.command = "rotation" THEN RotationOutcome(r, p, way)
  ELSE LegacySlideshowOutcome(r, p, way)

Outcome(r, p, way) ==
  IF p.command \in Settings THEN SettingsOutcome(r, p, way)
  ELSE SlideshowOutcome(r, p, way)

-----------------------------------------------------------------------------
(* One request.                                                            *)

\* Any exception of the transport: async_connection_failed, and the pass ends.
ReadFailed(r) ==
  /\ Finish(r)
  /\ ready' = FALSE
  /\ UNCHANGED <<tv, gen, alive, stopped, verdict, write>> /\ KeepDialect

\* The operation lock is held while a request is sent and answered.
NothingSent ==
  /\ \A r \in Readers : pass[r].at # "sent"
  /\ \A w \in Writers : write[w].at # "sent"

\* The operation lock is acquired; FrameArt refuses without a connection.
Send(r) ==
  /\ pass[r].at = "queued" /\ NothingSent
  /\ ready /\ ~stopped
  /\ pass' = [pass EXCEPT ![r] = [@ EXCEPT !.at = "sent", !.on = gen]]
  /\ UNCHANGED <<tv, write>> /\ KeepDialect /\ KeepSession
SendRefused(r) ==
  /\ pass[r].at = "queued" /\ NothingSent
  /\ ~ready \/ stopped
  /\ ReadFailed(r)

OnSession(r) == pass[r].at = "sent" /\ ready /\ ~stopped /\ pass[r].on = gen

\* liveness_proven after an answer: a value ends the two whole reads.
ProvenByValue(p, way) == p.proven \/ p.command \in {"brightness", "temperature"}
ProvenByError(p, way) == p.proven \/ way = "error"
ProvenBy(p, way) == p.proven \/ way = "error" \/ p.command \in {"brightness", "temperature"}

\* A correlated value, or ResponseError; both prove that the session lives.
Answer(r) ==
  LET p == pass[r]
      way == tv[p.command]
  IN /\ OnSession(r) /\ alive
     /\ way # "silent"
     /\ Outcome(r, [p EXCEPT !.proven = ProvenBy(p, way), !.heard = gen], way)
     /\ UNCHANGED <<tv, write>>

\* ArtProbeTimeout: the TV never answers this command, or the session is dead.
ProbeTimeout(r) ==
  /\ OnSession(r)
  /\ ~alive \/ tv[pass[r].command] = "silent"
  /\ Outcome(r, pass[r], "silent")
  /\ UNCHANGED <<tv, write>>

\* The session of the request was lost or stopped.
RequestBreaks(r) ==
  /\ pass[r].at = "sent" /\ ~OnSession(r)
  /\ ReadFailed(r)

-----------------------------------------------------------------------------
(* async_set_slideshow: routed by what this generation's reads have proved, *)
(* and sent when the operation lock is free, perhaps on a later session.   *)

RouteFor(d) ==
  [at |-> "queued", gen |-> gen, basis |-> basis'.slideshow,
   as |-> IF d.slideshow \in {"legacy", "rotation"} THEN d.slideshow ELSE "either"]
AsyncSetSlideshow(w) ==
  /\ write[w].at = "idle" /\ ready /\ ~stopped
  /\ Reset
  /\ write' = [write EXCEPT ![w] = RouteFor(dialect')]
  /\ UNCHANGED <<tv, pass>> /\ KeepSession

SendWrite(w) ==
  /\ write[w].at = "queued" /\ NothingSent
  /\ ready /\ ~stopped
  /\ write' = [write EXCEPT ![w].at = "sent"]
  /\ UNCHANGED <<tv, pass>> /\ KeepDialect /\ KeepSession

\* The TV has accepted or refused it.  The modern command that is refused is
\* followed by the legacy one, which takes the lock again (set_slideshow).
WriteAnswered(w) ==
  /\ write[w].at = "sent" /\ ready /\ ~stopped /\ alive
  /\ \/ write' = [write EXCEPT ![w] = NoWrite]
     \/ /\ write[w].as = "either"
        /\ write' = [write EXCEPT ![w] = [@ EXCEPT !.at = "queued", !.as = "fallback"]]
  /\ UNCHANGED <<tv, pass>> /\ KeepDialect /\ KeepSession

\* It is refused by FrameArt, times out, or loses its session while it is out:
\* async_connection_failed (_async_art_mutation).
WriteFails(w) ==
  /\ \/ write[w].at = "queued" /\ NothingSent /\ (~ready \/ stopped)
     \/ write[w].at = "sent"
  /\ write' = [write EXCEPT ![w] = NoWrite]
  /\ ready' = FALSE
  /\ UNCHANGED <<tv, gen, alive, stopped, verdict, pass>> /\ KeepDialect

-----------------------------------------------------------------------------
(* The art session (ArtSession) and the TV (external).                     *)

Unwell == [r \in Readers |-> [pass[r] EXCEPT !.well = FALSE]]

SessionReady ==
  /\ ~ready /\ ~stopped /\ gen < MaxSessions
  /\ NothingSent
  /\ ready' = TRUE /\ alive' = TRUE /\ gen' = gen + 1
  /\ pass' = Unwell
  /\ UNCHANGED <<tv, stopped, verdict, write>> /\ KeepDialect

SessionLost ==
  /\ ready /\ ready' = FALSE
  /\ pass' = Unwell
  /\ UNCHANGED <<tv, gen, alive, stopped, verdict, write>> /\ KeepDialect

HalfOpen ==
  /\ ready /\ alive /\ alive' = FALSE
  /\ pass' = Unwell
  /\ UNCHANGED <<tv, ready, gen, stopped, verdict, write>> /\ KeepDialect

Stop ==
  /\ ~stopped /\ stopped' = TRUE
  /\ pass' = Unwell
  /\ UNCHANGED <<tv, ready, gen, alive, verdict, write>> /\ KeepDialect

-----------------------------------------------------------------------------

Init ==
  /\ tv \in Tvs
  /\ ready = FALSE /\ gen = 0 /\ alive = FALSE /\ stopped = FALSE
  /\ optGen = 0 /\ dialect = Unknown /\ basis = NoBasis
  /\ pass = [r \in Readers |-> Idle]
  /\ write = [w \in Writers |-> NoWrite]
  /\ verdict = NoVerdict

Read(r) == Send(r) \/ SendRefused(r) \/ Answer(r) \/ ProbeTimeout(r) \/ RequestBreaks(r)

Write(w) == AsyncSetSlideshow(w) \/ SendWrite(w) \/ WriteAnswered(w) \/ WriteFails(w)

Next ==
  \/ \E r \in Readers : StartSettings(r) \/ StartSlideshow(r) \/ Read(r)
  \/ \E w \in Writers : Write(w)
  \/ SessionReady \/ SessionLost \/ HalfOpen \/ Stop

Spec == Init /\ [][Next]_vars

-----------------------------------------------------------------------------
(* Properties.                                                             *)

Passes == [at : {"idle", "queued", "sent"}, command : Commands \cup {"none"},
           g : Nat, on : Nat, proven : BOOLEAN, known : BOOLEAN, heard : Nat,
           well : BOOLEAN]
Writes == [at : {"idle", "queued", "sent"},
           as : {"either", "rotation", "legacy", "fallback"}, gen : Nat, basis : Nat]
Dialects == [settings : {"unknown", "aggregate", "legacy"},
             slideshow : {"unknown", "rotation", "legacy", "unsupported"}]
\* The variables stay in the sets the code keeps them in.
TypeOK ==
  /\ tv \in [Commands -> Ways]
  /\ ready \in BOOLEAN /\ alive \in BOOLEAN /\ stopped \in BOOLEAN
  /\ gen \in Nat /\ optGen \in 0..gen
  /\ dialect \in Dialects
  /\ basis \in [settings : Nat, slideshow : Nat]
  /\ pass \in [Readers -> Passes]
  /\ verdict \in [kind : {"none", "settings", "slideshow"}, g : Nat, gen : Nat,
                  well : BOOLEAN]
  /\ write \in [Writers -> Writes]

\* A dialect is only concluded from an answer received, in the pass that
\* concludes it, from the very session it is cached for: never from silence
\* alone, never across a reconnection (hotfix design, "Dialect Discovery").
ConclusionsRestOnAnswers ==
  \A what \in {"settings", "slideshow"} :
    dialect[what] # "unknown" => basis[what] = optGen

\* A slideshow command the TV knows, whether or not its answer parses.
Answered == {"value", "odd"}

\* The dialect cached is the one this TV speaks, although a session that dies
\* in the middle of a pass looks like a command the TV does not know.
DialectsAreTrue ==
  /\ dialect.settings = "aggregate" => tv["aggregate"] = "value"
  /\ dialect.settings = "legacy" => tv["aggregate"] \in {"error", "silent"}
  /\ dialect.slideshow = "rotation" => tv["rotation"] \in Answered
  /\ dialect.slideshow = "legacy" =>
       tv["rotation"] \notin Answered /\ tv["slideshow"] \in Answered
  /\ dialect.slideshow = "unsupported" => tv["rotation"] \notin Answered

\* Silence retires the session that was silent, never the one that replaced it
\* while the pass was waiting (_optional_generation_is_current).
SilenceRetiresItsOwn == verdict.g = verdict.gen

\* A session that answered during the whole pass is only retired when the TV
\* answers none of the alternatives with a value: the TV of 2022, silent to
\* the modern slideshow command alone, keeps its session.
AnsweringTvKeepsSession ==
  verdict.well =>
    IF verdict.kind = "slideshow"
    THEN tv["rotation"] = "silent" /\ tv["slideshow"] = "silent"
    ELSE /\ tv["aggregate"] \in {"error", "silent"}
         /\ tv["brightness"] = "silent" /\ tv["temperature"] = "silent"

\* A slideshow write that is sent without the modern-first fallback goes by a
\* dialect that was proved by the session it was routed for, and that the TV
\* speaks, although that session may have been replaced while it waited for
\* the lock (async_set_slideshow, "this generation's read-proven dialect").
RoutedByProof ==
  \A w \in Writers : write[w].at = "sent" /\ write[w].as \in {"rotation", "legacy"} =>
    /\ write[w].basis = write[w].gen /\ write[w].gen <= gen
    /\ tv[IF write[w].as = "rotation" THEN "rotation" ELSE "slideshow"] \in Answered
=============================================================================
