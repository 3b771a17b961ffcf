----------------------------- MODULE MCLightBar -----------------------------
(* LightBar on a small piano, with one colour channel. *)
EXTENDS LightBar, FiniteSets

MCBoot    == [ch \in 1..NumChannels |-> 140]
MCFirst   == [ch \in 1..NumChannels |-> 20]
MCDivByZero == -1
MCRing    == [ch \in 1..NumChannels |-> 255]
MCRainbow == [ch \in 1..NumChannels |-> 255]

\* Bounds: of the parameters that commands may read, 5 is followed up (an
\* extension of 5 reaches the circle), and the firmware is away from its first
\* settings in one respect at a time, with at most ten ticks of fading left
\* and the key's LEDs off, at a full colour, or at one of them less the other.
Away ==
  {s \in {"colour", "extend", "remain", "background", "rainbow"} :
     CASE s = "colour"     -> rgb \notin {Black, FirstColor}
       [] s = "extend"     -> extend \/ numofextend # 0
       [] s = "remain"     -> rm_status \/ rm_time # 0
       [] s = "background" -> on_background \/ bgc # Black
       [] s = "rainbow"    -> rbstatus}

MCFewAway ==
  /\ flagz /\ brightness = BootBrightness
  /\ rgb[1] \in {0, 5, 255} /\ {numofextend, rm_time, bgc[1]} \subseteq {0, 5}
  /\ \A k \in Keys : rm_times[k] <= 10
  /\ leds[4][1] \in {0, 5, 250, 255}
  /\ Cardinality(Away) <= 1
=============================================================================
