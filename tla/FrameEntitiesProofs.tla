------------------------ MODULE FrameEntitiesProofs ------------------------
(***************************************************************************)
(* Proofs about FrameEntities: what is cached and published of the Art     *)
(* settings is what some answer of the TV denotes, a control shows a value *)
(* some answer denotes for its setting, and the cached picture is that of  *)
(* the artwork it is cached for, however polls and downloads overlap.      *)
(***************************************************************************)
EXTENDS FrameEntities, ArtSettingsProofs

-----------------------------------------------------------------------------
(* The parsers.                                                            *)

LEMMA ParsersAreFaithful == ParsersFaithful
<1>1. ASSUME NEW items \in Lists \ {None}
      PROVE  ParseArtSettings(items) = SettingsOf(items)
  BY ParseReadsWhatIsDenoted, AnswersAssumption
<1>2. ASSUME NEW payload \in Slideshows
      PROVE  ParseSlideshow(payload) = SlideshowOf(payload)
  BY SlideshowReadsWhatIsSaid, AnswersAssumption
<1> QED
  BY <1>1, <1>2 DEF ParsersFaithful

LEMMA ParsesToDenotation ==
  ASSUME NEW items \in Answers
  PROVE  ParseArtSettings(items) \in Denotations
<1>1. CASE items = None
  BY <1>1 DEF ParseArtSettings, Denotations
<1>2. CASE items # None
  <2>1. ParseArtSettings(items) = SettingsOf(items)
    BY <1>2, ParseReadsWhatIsDenoted, AnswersAssumption
  <2> QED
    BY <1>2, <2>1 DEF Denotations
<1> QED
  BY <1>1, <1>2

-----------------------------------------------------------------------------
(* Publishing data.                                                        *)

Caches == [art : Art, settings : Denotations, generation : Generations]
Began == [data : Published, ok : BOOLEAN]
NoneIsKnown == None \in Art /\ None \in Denotations /\ None \in Generations

LEMMA NoneKnown == NoneIsKnown
BY DEF NoneIsKnown, Art, Denotations, Generations

LEMMA FrameDataType ==
  ASSUME NEW mode \in {"on", "off"}, NEW c \in Caches, NEW other \in BOOLEAN
  PROVE  FrameData(mode, c, other) \in Published
BY NoneKnown DEF FrameData, Caches, Published, NoneIsKnown

(* What a control comes to show of well-typed data is denoted.             *)
LEMMA ListenersShow ==
  ASSUME NEW d \in Published, NEW ok \in BOOLEAN, moved \in BOOLEAN, Listeners(d, ok)
  PROVE  ControlIsDenoted' /\ moved' \in BOOLEAN
<1>1. control' = Control(d, ok) /\ moved' = (moved \/ TimestampMoves(d))
  BY DEF Listeners
<1>2. ASSUME control' # None
      PROVE  /\ d.settings \in Denotations \ {None}
             /\ Key \in d.settings.supported /\ control' = d.settings.value[Key]
  BY <1>1, <1>2 DEF Control, Published
<1>3. ControlIsDenoted'
  BY <1>2 DEF ControlIsDenoted, Denotations
<1> QED
  BY <1>1, <1>3

LEMMA ControlStays ==
  ASSUME ControlIsDenoted, UNCHANGED control
  PROVE  ControlIsDenoted'
BY DEF ControlIsDenoted, Denotations

(* A poll ends with data of the right type, and the controls look at them  *)
(* or keep what they show.                                                 *)
LEMMA PollEndsShows ==
  ASSUME TypeOK, ControlIsDenoted, NEW p \in Polls, NEW d \in Published, PollEnds(p, d)
  PROVE  /\ data' \in Published /\ updateOk' \in BOOLEAN /\ moved' \in BOOLEAN
         /\ poll' \in [Polls -> Began \cup {None}]
         /\ ControlIsDenoted'
         /\ UNCHANGED <<sessionVars, tvVars, imageVars>>
<1>1. /\ data' = d /\ updateOk' = TRUE /\ UNCHANGED <<sessionVars, tvVars, imageVars>>
      /\ poll' = [poll EXCEPT ![p] = None]
      /\ Listeners(d, TRUE) \/ UNCHANGED <<control, moved>>
  BY DEF PollEnds
<1>2. moved' \in BOOLEAN /\ ControlIsDenoted'
  BY <1>1, ListenersShow, ControlStays DEF TypeOK
<1>3. poll' \in [Polls -> Began \cup {None}]
  BY <1>1 DEF TypeOK, Began
<1> QED
  BY <1>1, <1>2, <1>3

-----------------------------------------------------------------------------
(* The inductive invariant.                                                *)

IInv == TypeOK /\ ControlIsDenoted /\ CachedPictureBelongs

LEMMA InitHolds == Init => IInv
<1> SUFFICES ASSUME Init PROVE IInv
  OBVIOUS
<1>1. TypeOK
  <2>1. ready \in BOOLEAN /\ updateOk \in BOOLEAN /\ moved \in BOOLEAN
    BY DEF Init
  <2>5. generation \in 1..MaxGeneration /\ failures \in 0..MaxFailures
    <3>1. generation = 1 /\ failures = 0
      BY DEF Init
    <3> QED
      BY <3>1, EntityBounds
  <2>2. /\ cache \in Caches /\ data \in Published
        /\ tvArt \in Arts /\ tvSettings \in Answers
        /\ poll \in [Polls -> Began \cup {None}]
    BY NoneKnown DEF Init, NoCache, NoneIsKnown, Caches, Published
  <2>3. /\ fetched \in [id : Art, image : Art \ Refused]
        /\ latest \in Requests \cup {None}
        /\ displayed \in (Arts \ Refused) \cup {"placeholder"}
    BY ArtsAssumption DEF Init, Art
  <2>4. /\ request \in [Requests -> [at : {"idle", "fetching"}, id : Art]]
        /\ \A r \in Requests : request[r].at = "fetching" => request[r].id # None
    BY DEF Init, Art
  <2> QED
    BY <2>1, <2>2, <2>3, <2>4, <2>5 DEF TypeOK, Caches, Began
<1>2. ControlIsDenoted /\ CachedPictureBelongs
  BY DEF Init, ControlIsDenoted, CachedPictureBelongs
<1> QED
  BY <1>1, <1>2 DEF IInv

(* What is left when the session, the TV and the pictures do not move.     *)
LEMMA PublishingHolds ==
  ASSUME IInv, cache' \in Caches, data' \in Published, updateOk' \in BOOLEAN,
         poll' \in [Polls -> Began \cup {None}],
         moved' \in BOOLEAN, ControlIsDenoted', UNCHANGED <<sessionVars, tvVars, imageVars>>
  PROVE  IInv'
<1>1. TypeOK'
  BY DEF IInv, TypeOK, Caches, Began, sessionVars, tvVars, imageVars
<1>2. CachedPictureBelongs'
  BY DEF IInv, CachedPictureBelongs, imageVars
<1> QED
  BY <1>1, <1>2 DEF IInv

LEMMA PollBeginsHolds ==
  ASSUME IInv, NEW p \in Polls, PollBegins(p)
  PROVE  IInv'
<1>1. /\ cache' = cache /\ data' = data /\ updateOk' = updateOk /\ moved' = moved
      /\ control' = control
      /\ UNCHANGED <<sessionVars, tvVars, imageVars>>
      /\ poll' = [poll EXCEPT ![p] = [data |-> data, ok |-> updateOk]]
  BY DEF PollBegins
<1>2. /\ cache \in Caches /\ data \in Published /\ updateOk \in BOOLEAN
      /\ moved \in BOOLEAN /\ poll \in [Polls -> Began \cup {None}]
  BY DEF IInv, TypeOK, Caches, Began
<1>3. poll' \in [Polls -> Began \cup {None}]
  BY <1>1, <1>2 DEF Began
<1>4. ControlIsDenoted'
  BY <1>1, ControlStays DEF IInv
<1> QED
  BY <1>1, <1>2, <1>3, <1>4, PublishingHolds

LEMMA PollReconcilesHolds ==
  ASSUME IInv, NEW p \in Polls, PollReconciles(p)
  PROVE  IInv'
<1>1. cache' = [art |-> tvArt, settings |-> ParseArtSettings(tvSettings),
                generation |-> generation]
  BY DEF PollReconciles, Reading, IInv, TypeOK
<1>2. cache' \in Caches
  BY <1>1, ParsesToDenotation DEF IInv, TypeOK, Caches, Art, Generations
<1>3. PICK d : d = FrameData("on", cache', data.other) /\ PollEnds(p, d)
  BY DEF PollReconciles
<1>4. data.other \in BOOLEAN
  BY DEF IInv, TypeOK, Published
<1>5. d \in Published
  BY <1>2, <1>3, <1>4, FrameDataType
<1> QED
  BY <1>2, <1>3, <1>5, PollEndsShows, PublishingHolds DEF IInv

LEMMA PollOnlyHolds ==
  ASSUME IInv, NEW p \in Polls, PollOnly(p)
  PROVE  IInv'
<1>1. cache \in Caches /\ cache' = cache /\ data.other \in BOOLEAN
  BY DEF IInv, TypeOK, Caches, Published, PollOnly
<1>2. PICK mode \in {"on", "off"} : PollEnds(p, FrameData(mode, cache, data.other))
  BY DEF PollOnly
<1>3. FrameData(mode, cache, data.other) \in Published
  BY <1>1, FrameDataType
<1> QED
  BY <1>1, <1>2, <1>3, PollEndsShows, PublishingHolds DEF IInv

LEMMA OtherChangeHolds ==
  ASSUME IInv, NEW p \in Polls, OtherChange(p)
  PROVE  IInv'
<1>1. cache \in Caches /\ cache' = cache /\ (~data.other) \in BOOLEAN
  BY DEF IInv, TypeOK, Caches, Published, OtherChange
<1>2. PollEnds(p, FrameData("on", cache, ~data.other))
  BY DEF OtherChange
<1>3. FrameData("on", cache, ~data.other) \in Published
  BY <1>1, FrameDataType
<1> QED
  BY <1>1, <1>2, <1>3, PollEndsShows, PublishingHolds DEF IInv

LEMMA PollFailsHolds ==
  ASSUME IInv, NEW p \in Polls, PollFails(p)
  PROVE  IInv'
<1>1. /\ cache' = cache /\ data' = data /\ updateOk' = FALSE
      /\ UNCHANGED <<sessionVars, tvVars, imageVars>>
      /\ poll' = [poll EXCEPT ![p] = None]
      /\ Listeners(data, FALSE) \/ UNCHANGED <<control, moved>>
  BY DEF PollFails
<1>2. /\ cache \in Caches /\ data \in Published /\ moved \in BOOLEAN
      /\ poll \in [Polls -> Began \cup {None}]
  BY DEF IInv, TypeOK, Caches, Began
<1>3. moved' \in BOOLEAN /\ ControlIsDenoted'
  BY <1>1, <1>2, ListenersShow, ControlStays DEF IInv
<1>4. poll' \in [Polls -> Began \cup {None}]
  BY <1>1, <1>2
<1> QED
  BY <1>1, <1>2, <1>3, <1>4, PublishingHolds

LEMMA HandleArtEventHolds == IInv /\ HandleArtEvent => IInv'
<1> SUFFICES ASSUME IInv, HandleArtEvent PROVE IInv'
  OBVIOUS
<1>1. cache' \in Caches /\ data' \in Published
  BY DEF HandleArtEvent, IInv, TypeOK, Caches, Published, Art
<1>2. /\ updateOk' = TRUE /\ UNCHANGED <<sessionVars, tvVars, imageVars>>
      /\ Listeners(data', TRUE) /\ poll' = poll
  BY DEF HandleArtEvent
<1>3. moved \in BOOLEAN /\ poll \in [Polls -> Began \cup {None}]
  BY DEF IInv, TypeOK, Began
<1>4. moved' \in BOOLEAN /\ ControlIsDenoted'
  BY <1>1, <1>2, <1>3, ListenersShow
<1> QED
  BY <1>1, <1>2, <1>3, <1>4, PublishingHolds

-----------------------------------------------------------------------------
(* The picture, and the session and the TV around it.                      *)

LEMMA SetIdleType ==
  ASSUME IInv, NEW r \in Requests, SetIdle(r)
  PROVE  /\ request' \in [Requests -> [at : {"idle", "fetching"}, id : Art]]
         /\ \A q \in Requests : request'[q].at = "fetching" => request'[q].id # None
BY NoneKnown DEF IInv, TypeOK, SetIdle, NoneIsKnown

LEMMA ShowsType ==
  ASSUME IInv, NEW r \in Requests, NEW picture \in (Arts \ Refused) \cup {"placeholder"},
         Shows(r, picture)
  PROVE  latest' \in Requests \cup {None} /\ displayed' \in (Arts \ Refused) \cup {"placeholder"}
BY DEF IInv, TypeOK, Shows

LEMMA ServesCachedHolds == IInv /\ ServesCached => IInv'
<1> SUFFICES ASSUME IInv, ServesCached PROVE IInv'
  OBVIOUS
<1>1. displayed' \in (Arts \ Refused) \cup {"placeholder"}
  BY DEF ServesCached, IInv, TypeOK, Art
<1>2. TypeOK'
  BY <1>1 DEF ServesCached, IInv, TypeOK, sessionVars, tvVars, coordinatorVars
<1>3. ControlIsDenoted' /\ CachedPictureBelongs'
  BY ControlStays DEF ServesCached, IInv, CachedPictureBelongs
<1> QED
  BY <1>2, <1>3 DEF IInv

LEMMA AsyncImageHolds ==
  ASSUME IInv, NEW r \in Requests, AsyncImage(r)
  PROVE  IInv'
<1>1. data.art \in Art /\ data.art # None
  BY DEF AsyncImage, CacheAnswers, IInv, TypeOK, Published
<1>2. /\ request' \in [Requests -> [at : {"idle", "fetching"}, id : Art]]
      /\ \A q \in Requests : request'[q].at = "fetching" => request'[q].id # None
  BY <1>1 DEF AsyncImage, IInv, TypeOK
<1>3. TypeOK'
  BY <1>2 DEF AsyncImage, IInv, TypeOK, sessionVars, tvVars, coordinatorVars
<1>4. ControlIsDenoted' /\ CachedPictureBelongs'
  BY ControlStays DEF AsyncImage, IInv, CachedPictureBelongs
<1> QED
  BY <1>3, <1>4 DEF IInv

LEMMA ThumbnailArrivesHolds ==
  ASSUME IInv, NEW r \in Requests, ThumbnailArrives(r)
  PROVE  IInv'
<1>1. request[r].id \in Arts \ Refused
  BY DEF ThumbnailArrives, IInv, TypeOK, Art
<1>2. /\ latest' \in Requests \cup {None}
      /\ displayed' \in (Arts \ Refused) \cup {"placeholder"}
  BY <1>1, ShowsType DEF ThumbnailArrives
<1>3. /\ request' \in [Requests -> [at : {"idle", "fetching"}, id : Art]]
      /\ \A q \in Requests : request'[q].at = "fetching" => request'[q].id # None
  BY SetIdleType DEF ThumbnailArrives
<1>4. fetched' \in [id : Art, image : Art \ Refused] /\ CachedPictureBelongs'
  BY <1>1 DEF ThumbnailArrives, Art, CachedPictureBelongs
<1>5. TypeOK'
  BY <1>2, <1>3, <1>4
     DEF ThumbnailArrives, IInv, TypeOK, sessionVars, tvVars, coordinatorVars
<1>6. ControlIsDenoted'
  BY ControlStays DEF ThumbnailArrives, IInv
<1> QED
  BY <1>4, <1>5, <1>6 DEF IInv

LEMMA ThumbnailFailsHolds ==
  ASSUME IInv, NEW r \in Requests, ThumbnailFails(r)
  PROVE  IInv'
<1> DEFINE picture == IF fetched.image # None THEN fetched.image ELSE "placeholder"
<1>1. picture \in (Arts \ Refused) \cup {"placeholder"}
  BY DEF IInv, TypeOK, Art
<1>2. Shows(r, picture)
  BY DEF ThumbnailFails
<1>3. /\ latest' \in Requests \cup {None}
      /\ displayed' \in (Arts \ Refused) \cup {"placeholder"}
  BY <1>1, <1>2, ShowsType
<1>4. /\ request' \in [Requests -> [at : {"idle", "fetching"}, id : Art]]
      /\ \A q \in Requests : request'[q].at = "fetching" => request'[q].id # None
  BY SetIdleType DEF ThumbnailFails
<1>5. failures' \in 0..MaxFailures
  BY EntityBounds DEF ThumbnailFails, IInv, TypeOK
<1>6. TypeOK'
  BY <1>3, <1>4, <1>5
     DEF ThumbnailFails, IInv, TypeOK, sessionVars, tvVars, coordinatorVars
<1>7. ControlIsDenoted' /\ CachedPictureBelongs'
  BY ControlStays DEF ThumbnailFails, IInv, CachedPictureBelongs
<1> QED
  BY <1>6, <1>7 DEF IInv

LEMMA SurroundingsHold ==
  IInv /\ (SessionLost \/ SessionReady \/ TvSelects \/ SettingChanges) => IInv'
<1> SUFFICES ASSUME IInv, SessionLost \/ SessionReady \/ TvSelects \/ SettingChanges
             PROVE  IInv'
  OBVIOUS
<1>1. /\ ready' \in BOOLEAN /\ generation' \in 1..MaxGeneration
      /\ tvArt' \in Arts /\ tvSettings' \in Answers
      /\ UNCHANGED <<coordinatorVars, control, moved, imageVars>>
  <2>1. CASE SessionLost
    BY <2>1 DEF SessionLost, IInv, TypeOK, tvVars
  <2>2. CASE SessionReady
    <3>1. generation \in 1..MaxGeneration /\ generation < MaxGeneration
      BY <2>2 DEF SessionReady, IInv, TypeOK
    <3>2. generation + 1 \in 1..MaxGeneration
      BY <3>1, EntityBounds
    <3> QED
      BY <2>2, <3>2 DEF SessionReady, IInv, TypeOK, tvVars
  <2>3. CASE TvSelects
    BY <2>3 DEF TvSelects, IInv, TypeOK, sessionVars
  <2>4. CASE SettingChanges
    BY <2>4 DEF SettingChanges, IInv, TypeOK, sessionVars
  <2> QED
    BY <2>1, <2>2, <2>3, <2>4
<1>2. TypeOK'
  BY <1>1 DEF IInv, TypeOK, coordinatorVars, imageVars
<1>3. ControlIsDenoted' /\ CachedPictureBelongs'
  BY <1>1, ControlStays DEF IInv, CachedPictureBelongs, imageVars
<1> QED
  BY <1>2, <1>3 DEF IInv

LEMMA StutterHolds == IInv /\ UNCHANGED vars => IInv'
<1> SUFFICES ASSUME IInv, UNCHANGED vars PROVE IInv'
  OBVIOUS
<1>1. TypeOK'
  BY DEF IInv, TypeOK, vars, sessionVars, tvVars, coordinatorVars, imageVars
<1>2. ControlIsDenoted' /\ CachedPictureBelongs'
  BY ControlStays DEF IInv, CachedPictureBelongs, vars, imageVars
<1> QED
  BY <1>1, <1>2 DEF IInv

THEOREM Invariance == Spec => []IInv
<1>1. Init => IInv
  BY InitHolds
<1>2. IInv /\ [Next]_vars => IInv'
  <2> SUFFICES ASSUME IInv, [Next]_vars PROVE IInv'
    OBVIOUS
  <2>1. ASSUME NEW p \in Polls,
               PollBegins(p) \/ PollReconciles(p) \/ PollOnly(p) \/ OtherChange(p)
                 \/ PollFails(p)
        PROVE  IInv'
    BY <2>1, PollBeginsHolds, PollReconcilesHolds, PollOnlyHolds, OtherChangeHolds,
       PollFailsHolds
  <2>6. CASE HandleArtEvent
    BY <2>6, HandleArtEventHolds
  <2>2. CASE ServesCached
    BY <2>2, ServesCachedHolds
  <2>3. ASSUME NEW r \in Requests, AsyncImage(r) \/ ThumbnailArrives(r) \/ ThumbnailFails(r)
        PROVE  IInv'
    BY <2>3, AsyncImageHolds, ThumbnailArrivesHolds, ThumbnailFailsHolds
  <2>4. CASE SessionLost \/ SessionReady \/ TvSelects \/ SettingChanges
    BY <2>4, SurroundingsHold
  <2>5. CASE UNCHANGED vars
    BY <2>5, StutterHolds
  <2> QED
    BY <2>1, <2>2, <2>3, <2>4, <2>5, <2>6 DEF Next
<1> QED
  BY <1>1, <1>2, PTL DEF Spec

(* No refused artwork is cached or shown, and no download runs without an  *)
(* artwork (image.py).                                                     *)
THEOREM TypeCorrect == Spec => []TypeOK
<1>1. IInv => TypeOK
  BY DEF IInv
<1> QED
  BY <1>1, Invariance, PTL

(* For any answers of the TV, any list and any slideshow answer: the       *)
(* parsers read what is denoted, the settings that are cached and          *)
(* published are those some answer denotes, and a control shows nothing or *)
(* a value that some answer denotes for its setting, however polls overlap.*)
(* Not that it shows the published one, which is false of the code.        *)
THEOREM SettingsAreDenoted == Spec => []Parsed
<1>1. IInv => Parsed
  BY ParsersAreFaithful DEF IInv, TypeOK, Published, Parsed
<1> QED
  BY <1>1, Invariance, PTL

(* However many downloads overlap, the cached picture is that of the       *)
(* artwork it is cached for.                                               *)
THEOREM PictureBelongs == Spec => []CachedPictureBelongs
<1>1. IInv => CachedPictureBelongs
  BY DEF IInv
<1> QED
  BY <1>1, Invariance, PTL
=============================================================================
