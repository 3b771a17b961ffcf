--------------------------- MODULE MCEffectPiano ---------------------------
(* EffectPiano with three keys, one of which lights LEDs, and one preset of *)
(* two colours or two of them, in two or three channels.                    *)
EXTENDS EffectPiano, FiniteSets

CONSTANT MaxChanged

ASSUME Legible

MCPalettes1 == <<<<<<60, 90>>, <<30, 53>>>>>>
MCPalettes2 == <<<<<<40, 60, 90>>, <<92, 30, 53>>>>,
                 <<<<70, 80, 20>>, <<30, 12, 99>>>>>>
\* 17 is also the code of the longest command, "background on".
MCPresets2 ==
  <<[circle |-> TRUE, ends |-> TRUE, extend |-> FALSE, remain |-> FALSE,
     bg |-> FALSE, num_extend |-> 2, num_remain |-> 3, brightness |-> 17,
     color |-> 1, bgcolor |-> 2, bgbright |-> 32],
    [circle |-> FALSE, ends |-> TRUE, extend |-> TRUE, remain |-> TRUE,
     bg |-> TRUE, num_extend |-> 2, num_remain |-> 3, brightness |-> 50,
     color |-> 2, bgcolor |-> 1, bgbright |-> 32]>>
MCPresets1  == <<MCPresets2[1]>>
MCBlack == [ch \in 1..NumChannels |-> 0]
MCTail == <<>>

MCDivByZero == -1

\* The LEDs, the sweep and the ticks left are functions of the bytes read that
\* no guard and no property of EffectPiano looks at.
MCView == <<settings, sent, line, parser, flag, flagc, flagz, colors, rbstatus,
            extend, numofextend, rm_status, rm_time, on_background, ghosts>>

\* Bound: all settings but at most MaxChanged are those of one preset as it
\* was at first; or, MCNearBackground, only those of the background are not, and
\* it has no brightness.
Changed(c, p) == {f \in DOMAIN c : c[f] # Presets[p][f]}
NearPreset(c) == \E p \in Host!Sets : Cardinality(Changed(c, p)) <= MaxChanged
MCNearPreset  == NearPreset(cfg) /\ \A p \in Host!Sets : NearPreset(file[p])

NearBackground(c) ==
  \/ NearPreset(c)
  \/ /\ c.bgbright = 0
     /\ \E p \in Host!Sets : Changed(c, p) \subseteq {"bgbright", "bg", "color"}
MCNearBackground ==
  NearBackground(cfg) /\ \A p \in Host!Sets : NearBackground(file[p])

\* Bounds: the host leaves one thing out of step, or what "set select" does,
\* until the next start(), and contains no rainbow between a fault and that.
MCFewDrifts ==
  Cardinality(drift) <= 1 \/ drift \in {{"color", "file"}, {"back", "color"}}
MCNoRainbow == fault = "now" => ~contain_rainbow
=============================================================================
