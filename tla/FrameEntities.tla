--------------------------- MODULE FrameEntities ---------------------------
(***************************************************************************)
(* The entities of an entry and what Home Assistant shows of them: the     *)
(* controls of the Art settings (number.py, select.py, switch.py, with the *)
(* freshness rules of entity.py) and the picture of the current artwork    *)
(* (image.py), over the data the coordinator publishes.                    *)
(*                                                                         *)
(* The coordinator calls its listeners when a poll changes the data or its *)
(* success (always_update is False) and at every push; an entity's state   *)
(* is what it computes then from the data and the Art session.  A poll     *)
(* remembers the data and the success it began with, and compares what it  *)
(* publishes with these; polls overlap, and pushes come between.  The      *)
(* races of the reads inside a poll are FrameCoordinator's: here it reads, *)
(* caches and publishes as it ends.                                        *)
(*                                                                         *)
(* A definition named after a defect is the faulty variant of the one      *)
(* after it; no action uses it.                                            *)
(***************************************************************************)
EXTENDS ArtSettings, FiniteSets

CONSTANTS
  Arts,            \* artworks of the TV
  Refused,         \* those whose thumbnail it never delivers (DRM)
  Answers,         \* answers about the Art settings, as lists of items
  Lists,           \* further answers, and answers about the slideshow, that
  Slideshows,      \* the parsers are compared on
  Key,             \* the setting whose control is followed
  Polls,           \* polls of the coordinator that may overlap
  Requests,        \* concurrent downloads of the picture
  MaxGeneration,   \* bound: generations of the Art session
  MaxFailures      \* bound: transient failures of a download

ASSUME ArtsAssumption == None \notin Arts /\ Refused \subseteq Arts
ASSUME AnswersAssumption ==
  /\ \A items \in Answers \cup Lists : IsAnswer(items)
  /\ \A payload \in Slideshows : IsValue(payload.value)
ASSUME KeyAssumption == Key \in Keys
ASSUME EntityBounds == MaxGeneration \in Nat \ {0} /\ MaxFailures \in Nat

VARIABLES
  ready, generation,   \* art_ready and art_generation of the device
  tvArt, tvSettings,   \* what the TV shows, and its answer about settings
  cache,               \* _current_art, _art_settings, _optional_art_generation
  data, updateOk,      \* FrameData as published, last_update_success
  poll,                \* per poll in flight, the two it began with
  control,             \* the state of the control; None: unavailable
  fetched,             \* _fetched_id and the picture in _fetched_image
  moved,               \* image_last_updated moved since the frontend looked
  request, latest,     \* async_image calls, and the one the frontend waits for
  displayed,           \* the picture the frontend shows
  failures

sessionVars == <<ready, generation>>
tvVars == <<tvArt, tvSettings>>
coordinatorVars == <<cache, data, updateOk, poll>>
imageVars == <<fetched, request, latest, displayed, failures>>
vars == <<sessionVars, tvVars, coordinatorVars, control, moved, imageVars>>

-----------------------------------------------------------------------------
(* The data, and what the entities make of it when they are told.          *)

Reading == [items \in Answers |-> ParseArtSettings(items)]

NoCache == [art |-> None, settings |-> None, generation |-> None]

FrameData(mode, c, other) ==
  LET fresh == mode = "on" /\ ready /\ c.generation = generation
  IN [mode |-> mode,
      art |-> IF mode = "on" THEN c.art ELSE None,
      settings |-> IF fresh THEN c.settings ELSE None,
      generation |-> IF fresh THEN c.generation ELSE None,
      other |-> other]

OptionalArtStateFresh(d) ==
  ready /\ d.generation = generation /\ d.mode = "on"

\* art_setting_available, and the value the entity then has.
Control(d, ok) ==
  IF /\ ok /\ OptionalArtStateFresh(d)
     /\ d.settings # None /\ Key \in d.settings.supported
  THEN d.settings.value[Key] ELSE None

\* _handle_coordinator_update of the image entity.
TimestampMoves(d) == d.art # None /\ d.art # fetched.id

Listeners(d, ok) ==
  /\ control' = Control(d, ok)
  /\ moved' = (moved \/ TimestampMoves(d))

InFlight(p) == poll[p] # None

ChangedIgnoringGeneration(p, d) ==
  \E f \in DOMAIN d \ {"generation"} : d[f] # poll[p].data[f]
\* previous_data != self.data, once self.data is d.
Changed(p, d) == d # poll[p].data

-----------------------------------------------------------------------------
(* Polls and pushes.                                                       *)

\* The heartbeat, a refresh, or a forced reconciliation: no lock.
PollBegins(p) ==
  /\ ~InFlight(p)
  /\ poll' = [poll EXCEPT ![p] = [data |-> data, ok |-> updateOk]]
  /\ UNCHANGED <<sessionVars, tvVars, cache, data, updateOk, control, moved, imageVars>>

PollEnds(p, d) ==
  /\ InFlight(p)
  /\ poll' = [poll EXCEPT ![p] = None]
  /\ data' = d
  /\ updateOk' = TRUE
  /\ IF Changed(p, d) \/ ~poll[p].ok THEN Listeners(d, TRUE)
     ELSE UNCHANGED <<control, moved>>
  /\ UNCHANGED <<sessionVars, tvVars, imageVars>>

\* A poll that reconciles: the session is READY and the TV answers.
PollReconciles(p) ==
  /\ ready
  /\ cache' = [art |-> tvArt, settings |-> Reading[tvSettings],
               generation |-> generation]
  /\ PollEnds(p, FrameData("on", cache', data.other))

\* A poll between two reconciliations, or without a session.
PollOnly(p) ==
  /\ \E mode \in {"on"} \cup {m \in {"off"} : ~ready} :
       PollEnds(p, FrameData(mode, cache, data.other))
  /\ UNCHANGED cache

\* A poll that finds another field changed: the volume, the running app.
OtherChange(p) ==
  /\ PollEnds(p, FrameData("on", cache, ~data.other))
  /\ UNCHANGED cache

\* The poll blows its deadline; silent if it began after a failure.
PollFails(p) ==
  /\ InFlight(p)
  /\ poll' = [poll EXCEPT ![p] = None]
  /\ updateOk' = FALSE
  /\ IF poll[p].ok THEN Listeners(data, FALSE) ELSE UNCHANGED <<control, moved>>
  /\ UNCHANGED <<sessionVars, tvVars, cache, data, imageVars>>

\* image_selected; it sets the data whether or not they changed.
HandleArtEvent ==
  /\ ready
  /\ cache' = [cache EXCEPT !.art = tvArt]
  /\ data' = [data EXCEPT !.mode = "on", !.art = tvArt]
  /\ updateOk' = TRUE
  /\ Listeners(data', TRUE)
  /\ UNCHANGED <<sessionVars, tvVars, poll, imageVars>>

-----------------------------------------------------------------------------
(* The picture.                                                            *)

Idle(r) == request[r].at = "idle"
SetIdle(r) == request' = [request EXCEPT ![r] = [at |-> "idle", id |-> None]]

\* The answer to a request; the frontend ignores that of an older one.
Shows(r, picture) ==
  IF latest = r THEN displayed' = picture /\ latest' = None
  ELSE UNCHANGED <<displayed, latest>>

CacheAnswers ==
  data.art = None \/ (data.art = fetched.id /\ fetched.image # None)

\* async_image without a download: no artwork, or the one in the cache.
ServesCached ==
  /\ moved
  /\ CacheAnswers
  /\ moved' = FALSE
  /\ displayed' = IF fetched.image # None THEN fetched.image ELSE "placeholder"
  /\ latest' = None
  /\ UNCHANGED <<sessionVars, tvVars, coordinatorVars, control, fetched, request,
                 failures>>

AsyncImageEarlyId(r) ==
  /\ moved /\ Idle(r)
  /\ ~CacheAnswers
  /\ moved' = FALSE
  /\ request' = [request EXCEPT ![r] = [at |-> "fetching", id |-> data.art]]
  /\ latest' = r
  /\ fetched' = [fetched EXCEPT !.id = data.art]
  /\ UNCHANGED <<sessionVars, tvVars, coordinatorVars, control, displayed,
                 failures>>
AsyncImage(r) ==
  /\ moved /\ Idle(r)
  /\ ~CacheAnswers
  /\ moved' = FALSE
  /\ request' = [request EXCEPT ![r] = [at |-> "fetching", id |-> data.art]]
  /\ latest' = r
  /\ UNCHANGED <<sessionVars, tvVars, coordinatorVars, control, fetched,
                 displayed, failures>>

ThumbnailArrives(r) ==
  /\ request[r].at = "fetching" /\ ready /\ request[r].id \notin Refused
  /\ fetched' = [id |-> request[r].id, image |-> request[r].id]
  /\ Shows(r, request[r].id)
  /\ SetIdle(r)
  /\ UNCHANGED <<sessionVars, tvVars, coordinatorVars, control, moved, failures>>

\* None: no session, a refusal, or a transfer that fails.
ThumbnailFails(r) ==
  /\ request[r].at = "fetching"
  /\ ready /\ request[r].id \notin Refused => failures < MaxFailures
  /\ failures' = IF ready /\ request[r].id \notin Refused THEN failures + 1 ELSE failures
  /\ Shows(r, IF fetched.image # None THEN fetched.image ELSE "placeholder")
  /\ SetIdle(r)
  /\ UNCHANGED <<sessionVars, tvVars, coordinatorVars, control, moved, fetched>>

-----------------------------------------------------------------------------
(* The TV, its user, and the Art session.                                  *)

SessionLost ==
  /\ ready
  /\ ready' = FALSE
  /\ UNCHANGED <<generation, tvVars, coordinatorVars, control, moved, imageVars>>

SessionReady ==
  /\ ~ready /\ generation < MaxGeneration
  /\ ready' = TRUE
  /\ generation' = generation + 1
  /\ UNCHANGED <<tvVars, coordinatorVars, control, moved, imageVars>>

TvSelects ==
  /\ tvArt' \in Arts
  /\ UNCHANGED <<sessionVars, tvSettings, coordinatorVars, control, moved, imageVars>>

\* On the TV, or through a control, which asks for a reconciliation.
SettingChanges ==
  /\ tvSettings' \in Answers
  /\ UNCHANGED <<sessionVars, tvArt, coordinatorVars, control, moved, imageVars>>

-----------------------------------------------------------------------------
\* The platforms are set up after the first poll, which need not have met a
\* session that was READY.
Init ==
  /\ ready = TRUE /\ generation = 1
  /\ tvArt \in Arts /\ tvSettings \in Answers
  /\ cache = NoCache
  /\ data = [mode |-> "off", art |-> None, settings |-> None, generation |-> None,
             other |-> FALSE]
  /\ updateOk = TRUE
  /\ poll = [p \in Polls |-> None]
  /\ control = None
  /\ fetched = [id |-> None, image |-> None]
  /\ moved = FALSE
  /\ request = [r \in Requests |-> [at |-> "idle", id |-> None]]
  /\ latest = None
  /\ displayed = "placeholder"
  /\ failures = 0

Next ==
  \/ \E p \in Polls :
       PollBegins(p) \/ PollReconciles(p) \/ PollOnly(p) \/ OtherChange(p) \/ PollFails(p)
  \/ HandleArtEvent
  \/ ServesCached
  \/ \E r \in Requests : AsyncImage(r) \/ ThumbnailArrives(r) \/ ThumbnailFails(r)
  \/ SessionLost \/ SessionReady \/ TvSelects \/ SettingChanges

Spec == Init /\ [][Next]_vars

(* Polls go on, each ends at its deadline, and they do not miss it for     *)
(* ever while the TV could answer.                                         *)
PollFairness ==
  /\ WF_vars(\E p \in Polls : PollBegins(p))
  /\ \A p \in Polls : []<>~InFlight(p)
  /\ SF_vars(\E p \in Polls : PollReconciles(p))

(* The frontend downloads a picture whose timestamp moved, and a download  *)
(* ends at its deadline.                                                   *)
PictureFairness ==
  /\ WF_vars(ServesCached \/ \E r \in Requests : AsyncImage(r))
  /\ \A r \in Requests : WF_vars(ThumbnailArrives(r) \/ ThumbnailFails(r))

FairSpec == Spec /\ PollFairness /\ PictureFairness

-----------------------------------------------------------------------------
(* Properties.                                                             *)

(* What the answers of the TV denote; None: that nothing is known.         *)
Denotations == {None} \cup {SettingsOf(items) : items \in Answers \ {None}}

Art == Arts \cup {None}
Generations == 1..MaxGeneration \cup {None}
Published == [mode : {"on", "off"}, art : Art, settings : Denotations,
              generation : Generations, other : BOOLEAN]

(* The type of every variable; a picture of an artwork that is refused is  *)
(* never cached nor shown, and nothing is downloaded without an artwork.   *)
TypeOK ==
  /\ ready \in BOOLEAN /\ generation \in 1..MaxGeneration
  /\ tvArt \in Arts /\ tvSettings \in Answers
  /\ cache \in [art : Art, settings : Denotations, generation : Generations]
  /\ data \in Published /\ updateOk \in BOOLEAN
  /\ poll \in [Polls -> [data : Published, ok : BOOLEAN] \cup {None}]
  /\ moved \in BOOLEAN
  /\ fetched \in [id : Art, image : Art \ Refused]
  /\ request \in [Requests -> [at : {"idle", "fetching"}, id : Art]]
  /\ \A r \in Requests : request[r].at = "fetching" => request[r].id # None
  /\ latest \in Requests \cup {None}
  /\ displayed \in (Arts \ Refused) \cup {"placeholder"}
  /\ failures \in 0..MaxFailures

ParsersFaithful ==
  /\ \A items \in Lists \ {None} : ParseArtSettings(items) = SettingsOf(items)
  /\ \A payload \in Slideshows : ParseSlideshow(payload) = SlideshowOf(payload)

\* A control shows nothing, or what an answer denotes of its setting.
ControlIsDenoted ==
  control # None =>
    \E s \in Denotations \ {None} : Key \in s.supported /\ control = s.value[Key]

(* The parsers read every answer as what it denotes, and nothing into any  *)
(* other: no rounding, trimming or first-of-two (art_settings.py); so the  *)
(* settings that are cached and published are those that some answer of    *)
(* the TV denotes, and a control shows a value that one denotes for its    *)
(* setting, through failures, pushes, overlapping polls and sessions.  It  *)
(* does not say that the value is the published one (ControlShowsReadback).*)
Parsed ==
  /\ ParsersFaithful
  /\ cache.settings \in Denotations /\ data.settings \in Denotations
  /\ ControlIsDenoted

(* The cached picture belongs to the cached artwork, whatever downloads    *)
(* overlap: a picture served from the cache is the one that was asked for. *)
CachedPictureBelongs == fetched.image = fetched.id

Alone == \A p, q \in Polls : InFlight(p) /\ InFlight(q) => p = q

(* While a session lasts and the TV keeps its setting, the control comes   *)
(* to show that setting, or nothing when the answer denotes none, although *)
(* an entity looks only when data differ from those the poll began with:   *)
(* always if polls never overlapped, and if they once did, provided the    *)
(* data go on changing (coordinator.py:331-334; see ControlShowsReadback). *)
OtherFieldsKeepChanging == []<>data.other /\ []<>~data.other
ControlCatchesUp ==
  \A a \in Answers :
    <>[](ready /\ tvSettings = a /\ Alone) /\ ([]Alone \/ OtherFieldsKeepChanging)
      => []<>(control = IF a = None THEN None ELSE SettingsOf(a).value[Key])

(* CHANGELOG.md: the state of an entity reflects authoritative readback.   *)
(* Once no poll is in flight, a control that shows a value shows the one   *)
(* published.  FALSE when polls overlap: the later may find the data it    *)
(* began with again, and the entity is not told.                           *)
ControlShowsReadback ==
  (\A p \in Polls : ~InFlight(p)) /\ updateOk /\ control # None /\ data.settings # None
    => control = data.settings.value[Key]

(* The frontend comes to show the artwork that stays selected, provided    *)
(* the published data go on changing and polls do not overlap for ever     *)
(* (see README).                                                           *)
PictureCatchesUp ==
  \A a \in Arts \ Refused :
    <>[](ready /\ tvArt = a /\ Alone) /\ OtherFieldsKeepChanging
      => <>[](displayed = a)
=============================================================================
