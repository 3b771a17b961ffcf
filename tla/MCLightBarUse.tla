--------------------------- MODULE MCLightBarUse ---------------------------
(* LightBarUse on a small piano, with one colour channel. *)
EXTENDS LightBarUse

MCColor     == [ch \in 1..NumChannels |-> 5]
MCDivByZero == -1
MCRainbow   == [ch \in 1..NumChannels |-> 255]

\* Bound: no key goes down before the circle is switched off.  The circle
\* shares neither LEDs nor state with the bar.
MCNoCircle == flagc => \A k \in Keys : ~flag[k]
=============================================================================
