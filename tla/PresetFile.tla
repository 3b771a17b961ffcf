----------------------------- MODULE PresetFile ------------------------------
(***************************************************************************)
(* The text of a preset's file (.efpdata), as write_set of Effect_Piano.cpp *)
(* prints it and read_set scans it: words, numbers and ends of lines.      *)
(*                                                                         *)
(* read_set mixes scanf, which passes over ends of lines, with             *)
(* cin.getline, which reads up to one; one call of getline, before the     *)
(* serial port's name, is one too many.  That does no harm once cin has    *)
(* failed, which nothing in the program undoes: show_set leaves it so when *)
(* setting_list.txt does not end with an end of line.  That is the case    *)
(* modelled: GetLine reads nothing.                                        *)
(*                                                                         *)
(* Settings are records of EffectHost; of what is not in them the channels *)
(* can be chosen, and the rest (latency, the log, the port) has one value.  *)
(***************************************************************************)
EXTENDS Integers, SequencesExt, TLC

Word(w) == <<"word", w>>
Num(n)  == <<"num", n>>
NL      == <<"nl">>

Truth(b) == IF b THEN 1 ELSE 0

(* The settings as the numbers they are in the program. *)
Numbers(c) ==
  [latency |-> 0, show_in_front |-> 0, show_num_log |-> 0,
   circle |-> Truth(c.circle), ends |-> Truth(c.ends), extend |-> Truth(c.extend),
   remain |-> Truth(c.remain), bg |-> Truth(c.bg), num_extend |-> c.num_extend,
   num_remain |-> c.num_remain, brightness |-> c.brightness, color |-> c.color,
   bgcolor |-> c.bgcolor, bgbright |-> c.bgbright]

Entry(label, n) == <<Word(label), Num(n), NL>>
List(label, s)  == <<Word(label), Num(Len(s))>> \o [i \in DOMAIN s |-> Num(s[i])] \o <<NL>>

(* The colours are numbered from 0 in the program and from 1 in the file,   *)
(* as they are in EffectHost.                                              *)
PrintSet(c, using, ignored) ==
  Entry("latency", 0) \o Entry("show_in_front", 0) \o Entry("show_number_log", 0)
    \o Entry("circle_on", Truth(c.circle)) \o Entry("LEDs_at_two_end", Truth(c.ends))
    \o <<Word("serial_name"), NL, Word("COM3"), NL>>
    \o List("using_channel", using) \o List("ignore_channel", ignored)
    \o Entry("brightness", c.brightness)
    \o Entry("extend_on", Truth(c.extend)) \o Entry("extend_num", c.num_extend)
    \o Entry("remain_on", Truth(c.remain)) \o Entry("remain_time", c.num_remain)
    \o Entry("color_default", c.color) \o Entry("background_on", Truth(c.bg))
    \o Entry("background_brightness", c.bgbright)
    \o Entry("background_color_default", c.bgcolor)

-----------------------------------------------------------------------------
(* What is left of the text after each of the reads. *)

After(t, n) == SubSeq(t, n + 1, Len(t))

Ends(t) == {i \in DOMAIN t : t[i] = NL}
Blank(t) ==
  CHOOSE n \in 0..Len(t) :
    /\ \A i \in 1..n : t[i] = NL
    /\ n = Len(t) \/ t[n + 1] # NL

(* scanf("%s"), scanf("%d"): a number that is not there leaves the text. *)
ScanWord(t) == After(t, Blank(t) + 1)

IsNum(t)   == After(t, Blank(t)) # <<>> /\ After(t, Blank(t))[1][1] = "num"
ScanNum(t) == IF IsNum(t) THEN After(t, Blank(t) + 1) ELSE After(t, Blank(t))
Garbage    == -1  \* a variable that was not assigned
Scanned(t) == IF IsNum(t) THEN After(t, Blank(t))[1][2] ELSE Garbage

(* cin.getline *)
GetLineFresh(t) ==  \* mutant: as if cin had been cleared
  IF Ends(t) = {} THEN <<>> ELSE After(t, CHOOSE i \in Ends(t) : \A j \in Ends(t) : i <= j)
GetLine(t) == t

(* The number behind a word, and what is left after it. *)
ReadNum(s, field) ==
  LET t == ScanWord(s.text)
  IN  [text |-> GetLine(ScanNum(t)), got |-> s.got @@ (field :> Scanned(t))]

(* A word, how many numbers there are, and the numbers. *)
ReadList(s) ==
  LET t == ScanWord(s.text)
      rest == FoldLeft(LAMBDA u, i : ScanNum(u), ScanNum(t), [i \in 1..Scanned(t) |-> i])
  IN  [s EXCEPT !.text = GetLine(rest)]

ReadSerial(s) ==
  [s EXCEPT !.text = GetLine(ScanWord(GetLine(ScanWord(GetLine(s.text)))))]

ReadNums(s, fields) == FoldLeft(ReadNum, s, fields)

(* read_set *)
ReadSet(text) ==
  LET head == ReadNums([text |-> text, got |-> [f \in {} |-> Garbage]],
                       <<"latency", "show_in_front", "show_num_log", "circle", "ends">>)
      mid  == ReadList(ReadList(ReadSerial(head)))
  IN  ReadNums(mid, <<"brightness", "extend", "num_extend", "remain", "num_remain",
                      "color", "bg", "bgbright", "bgcolor">>).got
=============================================================================
