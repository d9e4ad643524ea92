-------------------------- MODULE MCFrameEntities --------------------------
(***************************************************************************)
(* FrameEntities on a small instance, and the parsers of ArtSettings       *)
(* compared with what an answer denotes: every value for every key, every  *)
(* list of up to three items over few values, every slideshow answer.      *)
(*                                                                         *)
(* The instance is FrameEntities with two polls, two artworks, two         *)
(* downloads and two sessions, but not with all of these at once (Small).  *)
(***************************************************************************)
EXTENDS FrameEntities

Number(n) == [type |-> "int", int |-> n, str |-> ToString(n), lower |-> ToString(n)]
Text(s, n) == [type |-> "text", int |-> n, str |-> s, lower |-> s]
Bool(b) == [type |-> "bool", int |-> None, str |-> IF b THEN "True" ELSE "False",
            lower |-> IF b THEN "true" ELSE "false"]

\* Both sides of every limit, the options, texts that int() reads although
\* they are not canonical, and values of other types.
Numbers == -6..12 \cup {15, 30, 60, 120, 240, 1439, 1440, 1441}
Odd == {Text("007", 7), Text("-0", 0), Text(" 5", 5), Text("+5", 5), Text("1_0", 10),
        Text("01440", 1440), Text("", None), Text("warm", None), Text("true", None),
        Text("on", None), Text("off", None),
        [Text("On", None) EXCEPT !.lower = "on"],
        [Text("OFF", None) EXCEPT !.lower = "off"],
        [type |-> "other", int |-> None, str |-> "5.0", lower |-> "5.0"],
        [type |-> "other", int |-> None, str |-> "None", lower |-> "none"]}
Values == {Number(n) : n \in Numbers} \cup {Text(ToString(n), n) : n \in Numbers}
            \cup {Bool(b) : b \in BOOLEAN} \cup Odd

Item(key, value) == [key |-> key, value |-> value]
FewItems == {Item("brightness", Number(5)), Item("brightness", Text("007", 7)),
             Item("motion_timer", Number(5)), Item("motion_timer", Text("off", None)),
             Item("brightness_sensor_setting", Bool(TRUE)), Item(None, Number(5))}
MCLists == {<<Item(k, v)>> : k \in Keys, v \in Values} \cup BoundedSeq(FewItems, 3)
MCSlideshows == [value : Values, type : {"slideshow", "shuffleslideshow", "none"},
                 category : {None, "MY-C0002", "number"}]

MCAnswers == {<<Item("brightness", Text("7", 7))>>,
              <<Item("brightness", Number(5)), Item("brightness", Number(7))>>}
MCWritten == {<<Item("brightness", Number(n))>> : n \in {5, 7}}

-----------------------------------------------------------------------------
(* What is left out; no step that PollFairness needs is among it: a poll   *)
(* can always end.                                                         *)

\* Artworks other than the first.
Second == Arts \ {CHOOSE a \in Arts : TRUE}
OneArtwork ==
  /\ {tvArt, cache.art, data.art, fetched.id} \cap Second = {}
  /\ \A p \in Polls : InFlight(p) => poll[p].data.art \notin Second

\* The second poll and the second session are those of one artwork without
\* downloads, the second poll also without changes of other fields; two
\* downloads overlap without failed polls and such changes.
Small ==
  /\ InFlight(2) \/ generation = 2 =>
       OneArtwork /\ fetched.id = None /\ \A r \in Requests : Idle(r)
  /\ InFlight(2) => ~data.other /\ \A p \in Polls : InFlight(p) => ~poll[p].data.other
  /\ (\A r \in Requests : ~Idle(r)) => updateOk /\ ~data.other

\* Polls differ by name only: a second one begins beside the first.
LowestFirst == ~InFlight(2) /\ InFlight(2)' => InFlight(1)

MCSpec == Init /\ [][Next /\ Small' /\ LowestFirst]_vars /\ PollFairness
=============================================================================
