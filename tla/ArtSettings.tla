---------------------------- MODULE ArtSettings ----------------------------
(***************************************************************************)
(* The pure functions of art_settings.py: what a TV's answer about Art     *)
(* settings and the slideshow means.                                       *)
(*                                                                         *)
(* A JSON value is a record: its type, str(value), str(value).lower(), and *)
(* the integer it is or int(value) reads it as (None when int raises).     *)
(* A definition named after a defect is the faulty variant of the one      *)
(* after it.                                                               *)
(***************************************************************************)
EXTENDS Integers, SequencesExt, TLC

CONSTANT None   \* Python's None

Booleans == {"brightness_sensor_setting"}
Keys == {"brightness", "color_temperature", "motion_timer", "motion_sensitivity"} \cup Booleans
MotionTimers == {"off", "5", "15", "30", "60", "120", "240"}
MotionSensitivities == {"1", "2", "3"}
MaxDuration == 24 * 60

ASSUME NoneAssumption == None \notin Int \cup Keys \cup {"off", "sequential", "shuffle"}

\* str() of an integer.
Str(n) == ToString(n)

(* What the record of a JSON value satisfies: int() and str() are inverse  *)
(* on the integers the parsers look for, "off" is no integer, and str() of *)
(* a value of another type is none of the options.                         *)
IsValue(v) ==
  /\ v.type \in {"int", "text", "bool", "other"}
  /\ v.int \in Int \cup {None}
  /\ v.type = "int" => v.int # None /\ v.str = Str(v.int)
  /\ v.type \in {"int", "text"} =>
       /\ \A n \in -5..MaxDuration : v.str = Str(n) => v.int = n
       /\ v.str = "off" => v.int = None
  /\ v.type = "bool" => v.lower \in {"true", "false"}
  /\ v.type = "other" => v.str \notin MotionTimers \cup MotionSensitivities

-----------------------------------------------------------------------------
(* Values.                                                                 *)

BoundedIntLax(v, minimum, maximum) ==
  IF v.type \in {"int", "text"} /\ v.int # None /\ v.int \in minimum..maximum
  THEN v.int ELSE None
\* A text counts only in the canonical form str() gives its integer.
BoundedInt(v, minimum, maximum) ==
  IF /\ v.type \in {"int", "text"} /\ v.int # None
     /\ v.str = Str(v.int)
     /\ v.int \in minimum..maximum
  THEN v.int ELSE None

Choice(v, options) == IF v.type # "bool" /\ v.str \in options THEN v.str ELSE None

OnOff(v) ==
  CASE v.type = "bool"                                -> v.lower = "true"
    [] v.type = "text" /\ v.lower \in {"on", "off"} -> v.lower = "on"
    [] OTHER                                          -> None

NormalizeArtSetting(key, v) ==
  CASE key = "brightness"         -> BoundedInt(v, 0, 10)
    [] key = "color_temperature"  -> BoundedInt(v, -5, 5)
    [] key = "motion_timer"       -> Choice(v, MotionTimers)
    [] key = "motion_sensitivity" -> Choice(v, MotionSensitivities)
    [] key \in Booleans           -> OnOff(v)

-----------------------------------------------------------------------------
(* The aggregate answer: the items of its JSON list, or None when the data *)
(* is no text, no JSON or no list.  An item that is no object, or is of no *)
(* known key, has the key None.                                            *)

IsItem(item) == item.key \in Keys \cup {None} /\ IsValue(item.value)
IsAnswer(items) ==
  items # None => /\ Len(items) \in Nat /\ DOMAIN items = 1..Len(items)
                  /\ \A i \in DOMAIN items : IsItem(items[i])

NoSettings == [supported |-> {}, value |-> [k \in Keys |-> None]]

TakeItemLast(snapshot, item) ==
  IF item.key = None THEN snapshot
  ELSE [supported |-> snapshot.supported \cup {item.key},
        value |-> [snapshot.value EXCEPT
                     ![item.key] = NormalizeArtSetting(item.key, item.value)]]
\* A key that occurs twice is supported, and its value unknown.
TakeItem(snapshot, item) ==
  IF item.key = None THEN snapshot
  ELSE [supported |-> snapshot.supported \cup {item.key},
        value |-> [snapshot.value EXCEPT
                     ![item.key] = IF item.key \in snapshot.supported THEN None
                                   ELSE NormalizeArtSetting(item.key, item.value)]]

ParseArtSettings(items) ==
  IF items = None THEN None ELSE FoldLeft(TakeItem, NoSettings, items)

(* The slideshow answer: category_id (None, a text, or a value of another  *)
(* type), value and type.                                                  *)
ParseSlideshow(payload) ==
  LET duration == BoundedInt(payload.value, 1, MaxDuration)
      mode == CASE payload.type = "slideshow"        -> "sequential"
                [] payload.type = "shuffleslideshow" -> "shuffle"
                [] OTHER                             -> None
  IN IF payload.category = "number" THEN None
     ELSE IF payload.value.type = "text" /\ payload.value.str = "off"
     THEN [mode |-> "off", duration |-> 0, category |-> payload.category]
     ELSE IF duration = None \/ mode = None THEN None
     ELSE [mode |-> mode, duration |-> duration, category |-> payload.category]

-----------------------------------------------------------------------------
(* What an answer denotes, without saying how to read it.                  *)

(* The setting a value denotes: the one that is written like it.           *)
Writes(v, n) == v.type \in {"int", "text"} /\ v.str = Str(n)
Unique(S) == IF \E x \in S : S = {x} THEN CHOOSE x \in S : TRUE ELSE None

OnOffText == [b \in BOOLEAN |-> IF b THEN "on" ELSE "off"]
BoolText == [b \in BOOLEAN |-> IF b THEN "true" ELSE "false"]

Denoted(key, v) ==
  CASE key = "brightness" -> Unique({n \in 0..10 : Writes(v, n)})
    [] key = "color_temperature" -> Unique({n \in -5..5 : Writes(v, n)})
    [] key = "motion_timer" ->
         Unique({o \in MotionTimers : v.type \in {"text", "int"} /\ v.str = o})
    [] key = "motion_sensitivity" ->
         Unique({o \in MotionSensitivities : v.type \in {"text", "int"} /\ v.str = o})
    [] key \in Booleans ->
         Unique({b \in BOOLEAN : /\ v.type \in {"text", "bool"}
                                 /\ v.lower = IF v.type = "text" THEN OnOffText[b]
                                              ELSE BoolText[b]})

ItemsOf(items, key) == {i \in DOMAIN items : items[i].key = key}

(* A key's value is the one its only item denotes.                         *)
SettingsOf(items) ==
  [supported |-> {k \in Keys : ItemsOf(items, k) # {}},
   value |-> [k \in Keys |->
                IF \E i \in DOMAIN items : ItemsOf(items, k) = {i}
                THEN Denoted(k, items[CHOOSE i \in ItemsOf(items, k) : TRUE].value)
                ELSE None]]

(* A slideshow state is the one the answer says, with a known category.    *)
Says(payload, state) ==
  \/ /\ state.mode = "off" /\ state.duration = 0
     /\ payload.value.type = "text" /\ payload.value.str = "off"
  \/ /\ state.duration \in 1..MaxDuration /\ Writes(payload.value, state.duration)
     /\ \/ state.mode = "sequential" /\ payload.type = "slideshow"
        \/ state.mode = "shuffle" /\ payload.type = "shuffleslideshow"

SlideshowOf(payload) ==
  Unique({s \in [mode : {"off", "sequential", "shuffle"}, duration : 0..MaxDuration,
                 category : {payload.category} \ {"number"}] : Says(payload, s)})
=============================================================================
