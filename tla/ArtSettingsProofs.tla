------------------------- MODULE ArtSettingsProofs -------------------------
(***************************************************************************)
(* What the parsers of ArtSettings read in every answer of the TV: a value *)
(* for a setting that the value is written like, nothing for any other,    *)
(* whatever the number, the order and the repetition of the items.         *)
(***************************************************************************)
EXTENDS ArtSettings, WellFoundedInduction, TLAPS

-----------------------------------------------------------------------------
(* One value.                                                              *)

LEMMA UniqueElement == ASSUME NEW x PROVE Unique({x}) = x
BY DEF Unique

LEMMA UniqueEmpty == Unique({}) = None
BY DEF Unique

(* A number is read where the value is written like one of the range.      *)
LEMMA BoundedIntReads ==
  ASSUME NEW v, IsValue(v), NEW a \in -5..MaxDuration, NEW b \in -5..MaxDuration
  PROVE  /\ BoundedInt(v, a, b) = Unique({n \in a..b : Writes(v, n)})
         /\ \A n \in a..b : Writes(v, n) <=> BoundedInt(v, a, b) = n
<1> DEFINE W == {n \in a..b : Writes(v, n)}
<1>a. MaxDuration = 1440
  BY DEF MaxDuration
<1>b. \A n \in a..b : n \in -5..MaxDuration /\ n # None
  <2>1. \A n \in Int : n # None
    BY NoneAssumption
  <2>2. a \in Int /\ b \in Int /\ -5 <= a /\ b <= MaxDuration
    BY <1>a
  <2>3. \A n \in a..b : n \in Int /\ n \in -5..MaxDuration
    BY <1>a, <2>2
  <2> QED
    BY <2>1, <2>3
<1>1. \A n \in a..b : Writes(v, n) => v.int = n /\ v.str = Str(v.int)
  BY <1>b DEF Writes, IsValue
<1>2. CASE /\ v.type \in {"int", "text"} /\ v.int # None
           /\ v.str = Str(v.int) /\ v.int \in a..b
  <2>1. W = {v.int}
    BY <1>1, <1>2 DEF Writes
  <2>2. BoundedInt(v, a, b) = v.int
    BY <1>2 DEF BoundedInt
  <2> QED
    BY <2>1, <2>2, <1>1, <1>2, UniqueElement DEF Writes
<1>3. CASE ~(/\ v.type \in {"int", "text"} /\ v.int # None
             /\ v.str = Str(v.int) /\ v.int \in a..b)
  <2>1. W = {}
    BY <1>1, <1>3, <1>b DEF Writes
  <2>2. BoundedInt(v, a, b) = None
    BY <1>3 DEF BoundedInt
  <2> QED
    BY <2>1, <2>2, <1>b, UniqueEmpty
<1> QED
  BY <1>2, <1>3

LEMMA ChoiceReads ==
  ASSUME NEW v, IsValue(v), NEW options \in {MotionTimers, MotionSensitivities}
  PROVE  Choice(v, options)
           = Unique({o \in options : v.type \in {"text", "int"} /\ v.str = o})
<1> DEFINE W == {o \in options : v.type \in {"text", "int"} /\ v.str = o}
<1>1. CASE v.type # "bool" /\ v.str \in options
  <2>1. W = {v.str}
    BY <1>1 DEF IsValue
  <2> QED
    BY <1>1, <2>1, UniqueElement DEF Choice
<1>2. CASE ~(v.type # "bool" /\ v.str \in options)
  <2>1. W = {}
    BY <1>2 DEF IsValue
  <2> QED
    BY <1>2, <2>1, UniqueEmpty DEF Choice
<1> QED
  BY <1>1, <1>2

LEMMA OnOffReads ==
  ASSUME NEW v, IsValue(v)
  PROVE  OnOff(v) = Unique({b \in BOOLEAN :
                              /\ v.type \in {"text", "bool"}
                              /\ v.lower = IF v.type = "text" THEN OnOffText[b]
                                           ELSE BoolText[b]})
<1> DEFINE Text(b) == IF v.type = "text" THEN OnOffText[b] ELSE BoolText[b]
           W == {b \in BOOLEAN : v.type \in {"text", "bool"} /\ v.lower = Text(b)}
<1>1. CASE v.type = "bool"
  <2>1. CASE v.lower = "true"
    <3>1. W = {TRUE}
      BY <1>1, <2>1 DEF BoolText
    <3> QED
      BY <1>1, <2>1, <3>1, UniqueElement DEF OnOff
  <2>2. CASE v.lower = "false"
    <3>1. W = {FALSE}
      BY <1>1, <2>2 DEF BoolText
    <3> QED
      BY <1>1, <2>2, <3>1, UniqueElement DEF OnOff
  <2> QED
    BY <1>1, <2>1, <2>2 DEF IsValue
<1>2. CASE v.type = "text"
  <2>1. CASE v.lower = "on"
    <3>1. W = {TRUE}
      BY <1>2, <2>1 DEF OnOffText
    <3> QED
      BY <1>2, <2>1, <3>1, UniqueElement DEF OnOff
  <2>2. CASE v.lower = "off"
    <3>1. W = {FALSE}
      BY <1>2, <2>2 DEF OnOffText
    <3> QED
      BY <1>2, <2>2, <3>1, UniqueElement DEF OnOff
  <2>3. CASE v.lower \notin {"on", "off"}
    <3>1. W = {}
      BY <1>2, <2>3 DEF OnOffText
    <3> QED
      BY <1>2, <2>3, <3>1, UniqueEmpty DEF OnOff
  <2> QED
    BY <2>1, <2>2, <2>3
<1>3. CASE v.type \notin {"bool", "text"}
  <2>1. W = {}
    BY <1>3
  <2> QED
    BY <1>3, <2>1, UniqueEmpty DEF OnOff
<1> QED
  BY <1>1, <1>2, <1>3

(* The parsers read a value of a setting as the one value of that setting  *)
(* that is written like it, and as unknown when none is                    *)
(* (normalize_art_setting).                                                *)
THEOREM NormalizeReadsWhatIsDenoted ==
  ASSUME NEW key \in Keys, NEW v, IsValue(v)
  PROVE  NormalizeArtSetting(key, v) = Denoted(key, v)
<1>1. CASE key = "brightness"
  <2>1. NormalizeArtSetting(key, v) = BoundedInt(v, 0, 10)
    BY <1>1 DEF NormalizeArtSetting, Booleans
  <2>2. Denoted(key, v) = Unique({n \in 0..10 : Writes(v, n)})
    BY <1>1 DEF Denoted, Booleans
  <2>3. 0 \in -5..MaxDuration /\ 10 \in -5..MaxDuration
    BY DEF MaxDuration
  <2> QED
    BY <2>1, <2>2, <2>3, BoundedIntReads
<1>2. CASE key = "color_temperature"
  <2>1. NormalizeArtSetting(key, v) = BoundedInt(v, -5, 5)
    BY <1>2 DEF NormalizeArtSetting, Booleans
  <2>2. Denoted(key, v) = Unique({n \in -5..5 : Writes(v, n)})
    BY <1>2 DEF Denoted, Booleans
  <2>3. -5 \in -5..MaxDuration /\ 5 \in -5..MaxDuration
    BY DEF MaxDuration
  <2> QED
    BY <2>1, <2>2, <2>3, BoundedIntReads
<1>3. CASE key = "motion_timer"
  <2>1. NormalizeArtSetting(key, v) = Choice(v, MotionTimers)
    BY <1>3 DEF NormalizeArtSetting, Booleans
  <2>2. Denoted(key, v)
          = Unique({o \in MotionTimers : v.type \in {"text", "int"} /\ v.str = o})
    BY <1>3 DEF Denoted, Booleans
  <2> QED
    BY <2>1, <2>2, ChoiceReads
<1>4. CASE key = "motion_sensitivity"
  <2>1. NormalizeArtSetting(key, v) = Choice(v, MotionSensitivities)
    BY <1>4 DEF NormalizeArtSetting, Booleans
  <2>2. Denoted(key, v)
          = Unique({o \in MotionSensitivities : v.type \in {"text", "int"} /\ v.str = o})
    BY <1>4 DEF Denoted, Booleans
  <2> QED
    BY <2>1, <2>2, ChoiceReads
<1>5. CASE key \in Booleans
  <2>1. NormalizeArtSetting(key, v) = OnOff(v)
    BY <1>5 DEF NormalizeArtSetting, Booleans
  <2>2. Denoted(key, v) = Unique({b \in BOOLEAN :
                              /\ v.type \in {"text", "bool"}
                              /\ v.lower = IF v.type = "text" THEN OnOffText[b]
                                           ELSE BoolText[b]})
    BY <1>5 DEF Denoted, Booleans
  <2> QED
    BY <2>1, <2>2, OnOffReads
<1> QED
  BY <1>1, <1>2, <1>3, <1>4, <1>5 DEF Keys

(* A slideshow answer is read as the one state that it says, and as        *)
(* unknown when it says none or its category is no text                    *)
(* (parse_slideshow).                                                      *)
THEOREM SlideshowReadsWhatIsSaid ==
  ASSUME NEW payload, IsValue(payload.value)
  PROVE  ParseSlideshow(payload) = SlideshowOf(payload)
<1> DEFINE v == payload.value
           c == payload.category
           duration == BoundedInt(v, 1, MaxDuration)
           mode == CASE payload.type = "slideshow"        -> "sequential"
                     [] payload.type = "shuffleslideshow" -> "shuffle"
                     [] OTHER                             -> None
           Off == [mode |-> "off", duration |-> 0, category |-> c]
           On == [mode |-> mode, duration |-> duration, category |-> c]
           States == [mode : {"off", "sequential", "shuffle"}, duration : 0..MaxDuration,
                      category : {c} \ {"number"}]
           W == {s \in States : Says(payload, s)}
<1>a. MaxDuration = 1440
  BY DEF MaxDuration
<1>b. 1 \in -5..MaxDuration /\ MaxDuration \in -5..MaxDuration
  BY <1>a
<1>1. \A n \in 1..MaxDuration : Writes(v, n) <=> duration = n
  BY <1>b, BoundedIntReads
<1>2. duration \in (1..MaxDuration) \cup {None}
  BY DEF BoundedInt
<1>3. None \notin 0..MaxDuration /\ None \notin {"off", "sequential", "shuffle"}
  <2>1. None \notin 0..MaxDuration
    <3>1. None \notin Int
      BY NoneAssumption
    <3> QED
      BY <1>a, <3>1
  <2>2. None # "off" /\ None # "sequential" /\ None # "shuffle"
    BY NoneAssumption
  <2> QED
    BY <2>1, <2>2
<1>4. v.type = "text" /\ v.str = "off" => duration = None
  <2>1. ASSUME v.type = "text", v.str = "off"
        PROVE  v.int = None
    BY <2>1 DEF IsValue
  <2> QED
    BY <2>1 DEF BoundedInt
<1>5. SlideshowOf(payload) = Unique(W)
  BY DEF SlideshowOf
<1>6. ASSUME NEW s \in W
      PROVE  /\ s = [mode |-> s.mode, duration |-> s.duration, category |-> s.category]
             /\ s.category = c /\ c # "number"
             /\ \/ /\ s.mode = "off" /\ s.duration = 0
                   /\ v.type = "text" /\ v.str = "off"
                \/ /\ s.duration \in 1..MaxDuration /\ s.duration = duration
                   /\ \/ s.mode = "sequential" /\ payload.type = "slideshow"
                      \/ s.mode = "shuffle" /\ payload.type = "shuffleslideshow"
  BY <1>1 DEF Says
<1> HIDE DEF duration
<1>7. CASE c = "number"
  <2>1. W = {}
    BY <1>6, <1>7
  <2> QED
    BY <1>5, <1>7, <2>1, UniqueEmpty DEF ParseSlideshow
<1>8. CASE c # "number" /\ v.type = "text" /\ v.str = "off"
  <2>1. Off \in W
    BY <1>a, <1>8 DEF Says
  <2>2. \A s \in W : s = Off
    BY <1>3, <1>4, <1>6, <1>8
  <2>3. W = {Off}
    BY <2>1, <2>2
  <2> QED
    BY <1>5, <1>8, <2>3, UniqueElement DEF ParseSlideshow
<1>9. CASE /\ c # "number" /\ ~(v.type = "text" /\ v.str = "off")
           /\ duration # None /\ mode # None
  <2>1. payload.type \in {"slideshow", "shuffleslideshow"}
    BY <1>9
  <2>2. On \in W
    BY <1>a, <1>1, <1>2, <1>9, <2>1 DEF Says
  <2>3. \A s \in W : s = On
    BY <1>6, <1>9, <2>1
  <2>4. W = {On}
    BY <2>2, <2>3
  <2> QED
    BY <1>5, <1>9, <2>4, UniqueElement DEF ParseSlideshow, duration
<1>10. CASE /\ c # "number" /\ ~(v.type = "text" /\ v.str = "off")
            /\ duration = None \/ mode = None
  <2>1. W = {}
    BY <1>3, <1>6, <1>10
  <2> QED
    BY <1>5, <1>10, <2>1, UniqueEmpty DEF ParseSlideshow, duration
<1> QED
  BY <1>7, <1>8, <1>9, <1>10

-----------------------------------------------------------------------------
(* The fold over the items.                                                *)

(* Indices of the items of a set I that are of key k.                      *)
KeyIn(items, I, k) == {i \in I : items[i].key = k}

(* What the items at the indices I contribute, whatever their order.       *)
Taken(items, I) ==
  [supported |-> {k \in Keys : KeyIn(items, I, k) # {}},
   value |-> [k \in Keys |->
                IF \E i \in I : KeyIn(items, I, k) = {i}
                THEN NormalizeArtSetting(k, items[CHOOSE i \in KeyIn(items, I, k) : TRUE].value)
                ELSE None]]

LEMMA TakenNothing == ASSUME NEW items PROVE Taken(items, {}) = NoSettings
BY DEF Taken, NoSettings, KeyIn

LEMMA KeysAreNoNone == None \notin Keys
BY NoneAssumption

(* One item more: it adds its key, or makes the value of its key unknown.  *)
LEMMA TakenOneMore ==
  ASSUME NEW items, NEW I, NEW m \in I, items[m].key \in Keys \cup {None}
  PROVE  Taken(items, I) = TakeItem(Taken(items, I \ {m}), items[m])
<1> DEFINE J == I \ {m}
           key == items[m].key
           Value(K, k) == IF \E i \in K : KeyIn(items, K, k) = {i}
                          THEN NormalizeArtSetting(k, items[CHOOSE i \in KeyIn(items, K, k) : TRUE].value)
                          ELSE None
           Supported(K) == {k \in Keys : KeyIn(items, K, k) # {}}
<1>1. \A k \in Keys : k # key => KeyIn(items, I, k) = KeyIn(items, J, k)
  BY DEF KeyIn
<1>2. \A k \in Keys : k # key => Value(I, k) = Value(J, k)
  BY <1>1 DEF KeyIn
<1>3. \A K : /\ Taken(items, K).supported = Supported(K)
             /\ Taken(items, K).value = [k \in Keys |-> Value(K, k)]
             /\ Taken(items, K) = [supported |-> Supported(K),
                                    value |-> [k \in Keys |-> Value(K, k)]]
  BY DEF Taken
<1>4. CASE key = None
  <2>1. Supported(I) = Supported(J)
    BY <1>1, <1>4, KeysAreNoNone
  <2>2. [k \in Keys |-> Value(I, k)] = [k \in Keys |-> Value(J, k)]
    BY <1>2, <1>4, KeysAreNoNone
  <2> QED
    BY <1>3, <1>4, <2>1, <2>2, KeysAreNoNone DEF TakeItem
<1>5. CASE key \in Keys
  <2>1. KeyIn(items, I, key) = KeyIn(items, J, key) \cup {m} /\ m \notin KeyIn(items, J, key)
    BY DEF KeyIn
  <2>2. Supported(I) = Supported(J) \cup {key}
    BY <1>1, <1>5, <2>1
  <2>3. Value(I, key) = IF key \in Supported(J) THEN None
                        ELSE NormalizeArtSetting(key, items[m].value)
    <3>1. CASE KeyIn(items, J, key) = {}
      <4>1. KeyIn(items, I, key) = {m}
        BY <2>1, <3>1
      <4> QED
        BY <3>1, <4>1
    <3>2. CASE KeyIn(items, J, key) # {}
      <4>1. ~ \E i \in I : KeyIn(items, I, key) = {i}
        BY <2>1, <3>2
      <4> QED
        BY <1>5, <3>2, <4>1
    <3> QED
      BY <3>1, <3>2
  <2> DEFINE new == IF key \in Supported(J) THEN None
                    ELSE NormalizeArtSetting(key, items[m].value)
  <2> HIDE DEF Value, new, Supported
  <2>4. [k \in Keys |-> Value(I, k)] = [[k \in Keys |-> Value(J, k)] EXCEPT ![key] = new]
    BY <1>2, <2>3 DEF new
  <2> QED
    BY <1>3, <1>5, <2>2, <2>4, KeysAreNoNone DEF TakeItem, new
<1> QED
  BY <1>4, <1>5

(* Sets of naturals below a bound have a greatest element, and Max is it.  *)
LEMMA MaxOfBounded ==
  ASSUME NEW n \in Nat, NEW S \in SUBSET (1..n), S # {}
  PROVE  Max(S) \in S /\ \A y \in S : Max(S) >= y
<1> DEFINE Bounds == {b \in Nat : \A y \in S : b >= y}
<1>1. n \in Bounds
  OBVIOUS
<1>2. PICK b \in Bounds : \A c \in Bounds : ~(<<c, b>> \in OpToRel(<, Nat))
  <2>1. Bounds \subseteq Nat /\ Bounds # {}
    BY <1>1
  <2> QED
    BY <2>1, NatLessThanWellFounded, WFMin
<1>3. \A c \in Bounds : ~(c < b)
  BY <1>2 DEF OpToRel
<1>4. b \in S
  <2>1. SUFFICES ASSUME b \notin S PROVE FALSE
    OBVIOUS
  <2>2. \A y \in S : y \in Nat /\ 1 <= y /\ y < b
    BY <2>1
  <2>3. PICK y \in S : y \in Nat /\ 1 <= y /\ y < b
    BY <2>2
  <2>4. b \in Nat /\ b - 1 \in Nat /\ b - 1 < b
    BY <2>3
  <2>5. \A z \in S : b - 1 >= z
    BY <2>2, <2>4
  <2> QED
    BY <1>3, <2>4, <2>5
<1> QED
  BY <1>4 DEF Max

LEMMA MaxOfPrefix ==
  ASSUME NEW k \in Nat, k # 0
  PROVE  Max(1..k) = k /\ (1..k) \ {k} = 1..(k - 1)
<1>1. 1..k # {} /\ 1..k \in SUBSET (1..k) /\ k \in 1..k
  OBVIOUS
<1>2. Max(1..k) \in 1..k /\ Max(1..k) >= k
  BY <1>1, MaxOfBounded
<1> QED
  BY <1>2

(* The equation that defines the fold over the items.                      *)
Folds(f, items) ==
  f = [I \in SUBSET DOMAIN items |->
         IF I = {} THEN NoSettings
         ELSE TakeItem(f[I \ {Max(I)}], items[Max(I)])]

LEMMA ParseFolds ==
  ASSUME NEW items, items # None
  PROVE  ParseArtSettings(items) = (CHOOSE f : Folds(f, items))[DOMAIN items]
BY DEF ParseArtSettings, FoldLeft, MapThenFoldSet, Folds

(* What the items contribute satisfies it ...                              *)
LEMMA TakenFolds ==
  ASSUME NEW items, items # None, IsAnswer(items)
  PROVE  Folds([I \in SUBSET DOMAIN items |-> Taken(items, I)], items)
<1> DEFINE g == [I \in SUBSET DOMAIN items |-> Taken(items, I)]
<1>1. PICK n \in Nat : DOMAIN items = 1..n
  BY DEF IsAnswer
<1>2. ASSUME NEW I \in SUBSET DOMAIN items, I # {}
      PROVE  g[I] = TakeItem(g[I \ {Max(I)}], items[Max(I)])
  <2>1. Max(I) \in I
    BY <1>1, <1>2, MaxOfBounded
  <2>2. items[Max(I)].key \in Keys \cup {None}
    BY <2>1 DEF IsAnswer, IsItem
  <2>3. Taken(items, I) = TakeItem(Taken(items, I \ {Max(I)}), items[Max(I)])
    BY <2>1, <2>2, TakenOneMore
  <2> QED
    BY <2>3
<1>3. g[{}] = NoSettings
  BY TakenNothing
<1> HIDE DEF g
<1>4. \A I \in SUBSET DOMAIN items :
        g[I] = IF I = {} THEN NoSettings ELSE TakeItem(g[I \ {Max(I)}], items[Max(I)])
  BY <1>2, <1>3
<1>5. g = [I \in SUBSET DOMAIN items |-> g[I]]
  BY DEF g
<1>6. Folds(g, items)
  BY <1>4, <1>5 DEF Folds
<1> QED
  BY <1>6 DEF g

(* ... and is its only solution on the prefixes of the list: there is no   *)
(* first prefix where another one differs.                                 *)
LEMMA FoldsOnce ==
  ASSUME NEW items, items # None, IsAnswer(items), NEW f, Folds(f, items)
  PROVE  f[DOMAIN items] = Taken(items, DOMAIN items)
<1> DEFINE Wrong == {k \in Nat : 1..k \subseteq DOMAIN items /\ f[1..k] # Taken(items, 1..k)}
<1>1. PICK n \in Nat : DOMAIN items = 1..n
  BY DEF IsAnswer
<1>2. SUFFICES ASSUME Wrong # {} PROVE FALSE
  BY <1>1
<1>3. PICK k \in Wrong : \A c \in Wrong : ~(<<c, k>> \in OpToRel(<, Nat))
  <2>1. Wrong \subseteq Nat /\ Wrong # {}
    BY <1>2
  <2> QED
    BY <2>1, NatLessThanWellFounded, WFMin
<1>4. \A c \in Wrong : ~(c < k)
  BY <1>3 DEF OpToRel
<1>5. CASE k = 0
  <2>1. 1..k = {}
    BY <1>5
  <2>2. f[{}] = NoSettings
    BY DEF Folds
  <2> QED
    BY <2>1, <2>2, TakenNothing
<1>6. CASE k # 0
  <2>1. k \in Nat /\ k - 1 \in Nat /\ k - 1 < k
    BY <1>6
  <2>2. 1..(k - 1) \subseteq 1..k /\ k \in 1..k /\ 1..k # {}
    BY <1>6, <2>1
  <2>3. f[1..(k - 1)] = Taken(items, 1..(k - 1))
    BY <1>4, <2>1, <2>2
  <2>4. f[1..k] = TakeItem(f[(1..k) \ {Max(1..k)}], items[Max(1..k)])
    BY <2>2 DEF Folds
  <2>5. f[1..k] = TakeItem(Taken(items, (1..k) \ {k}), items[k])
    BY <1>6, <2>3, <2>4, MaxOfPrefix
  <2>6. items[k].key \in Keys \cup {None}
    BY <2>2 DEF IsAnswer, IsItem
  <2>7. Taken(items, 1..k) = TakeItem(Taken(items, (1..k) \ {k}), items[k])
    BY <2>2, <2>6, TakenOneMore
  <2> QED
    BY <2>5, <2>7
<1> QED
  BY <1>5, <1>6

(* The aggregate answer is read as the settings it denotes, for every list *)
(* of items: a key of several items is supported without a value, in what  *)
(* order soever they come (parse_art_settings).                            *)
THEOREM ParseReadsWhatIsDenoted ==
  ASSUME NEW items, items # None, IsAnswer(items)
  PROVE  ParseArtSettings(items) = SettingsOf(items)
<1>1. PICK f : f = (CHOOSE h : Folds(h, items)) /\ Folds(f, items)
  BY TakenFolds
<1>2. ParseArtSettings(items) = Taken(items, DOMAIN items)
  BY <1>1, ParseFolds, FoldsOnce
<1>3. \A k \in Keys : KeyIn(items, DOMAIN items, k) = ItemsOf(items, k)
  BY DEF KeyIn, ItemsOf
<1>4. ASSUME NEW k \in Keys, \E i \in DOMAIN items : ItemsOf(items, k) = {i}
      PROVE  LET v == items[CHOOSE i \in ItemsOf(items, k) : TRUE].value
             IN  NormalizeArtSetting(k, v) = Denoted(k, v)
  <2>1. (CHOOSE i \in ItemsOf(items, k) : TRUE) \in DOMAIN items
    BY <1>4
  <2> QED
    BY <2>1, NormalizeReadsWhatIsDenoted DEF IsAnswer, IsItem
<1>5. Taken(items, DOMAIN items) = SettingsOf(items)
  BY <1>3, <1>4 DEF Taken, SettingsOf
<1> QED
  BY <1>2, <1>5
=============================================================================
