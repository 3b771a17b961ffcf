----------------------------- MODULE EffectPiano -----------------------------
(***************************************************************************)
(* The whole light controller: EffectHost, a serial line, and LightBar.    *)
(*                                                                         *)
(* Nothing flows back from the firmware to the host.  The host keeps its   *)
(* own copy of the settings and trusts that the firmware's agrees; the     *)
(* firmware trusts that the host's "key toggled" bytes come in pairs, and  *)
(* that each byte it reads is the command or parameter it takes it for.    *)
(* The properties below say when that trust is justified.                  *)
(*                                                                         *)
(* The line loses bytes (the Arduino's interrupts are off while FastLED    *)
(* shows a frame, and its input buffer is small), and the board may be     *)
(* powered off and on, at most MaxFaults times in a behaviour.             *)
(***************************************************************************)
EXTENDS LightBar

CONSTANTS   \* of the host: see EffectHost
  NumColors, NumSets, Palettes, Presets, Brights, Spreads, Times, BackBrights,
  EffectWidth, Notes, CommuTail, LineCap,
  MaxFaults   \* bound: faults of the line and the board

VARIABLES   \* of the host: see EffectHost
  running, using_set, palette, cfg, real, plus, queued, on_rainbow,
  contain_rainbow, file, line

Host == INSTANCE EffectHost
Text == INSTANCE PresetFile

ASSUME EffectPianoAssumption ==
  Host!EffectHostAssumption /\ LineCap \in Nat /\ MaxFaults \in Nat

VARIABLES
  faults,  \* how many there have been
  fault,   \* "none" so far; "now": since the last start(); "past": before it
  drift,   \* settings the host leaves out of step, see Drift
  held,    \* held[k]: key k of the piano is down
  upset    \* the firmware may have missed one of the two bytes of a key

settings == <<running, using_set, palette, cfg, file>>
sent     == <<real, plus, queued, on_rainbow, contain_rainbow>>
ghosts   == <<faults, fault, drift, held, upset>>

pianoVars == <<vars, settings, sent, line, ghosts>>

-----------------------------------------------------------------------------
(* Bookkeeping for the properties; none of it is in the code. *)

AnyHeld == \E k \in Keys : held[k]

(* What the host's handlers leave out of step for good: effect1 ends with  *)
(* "circle on" whatever the setting is; switching the background off       *)
(* leaves the keys the colour they had on top of it; a colour picked while  *)
(* the background is on without a brightness switches it off on one side   *)
(* only; "set select" reads the colours after start() has sent one, and    *)
(* the settings of the new preset not at all; nothing but "rainbow off"    *)
(* ends a rainbow, a reset does not.                                       *)
Drift(handler) ==
  CASE handler = "start"  -> drift \cap {"rainbow"}
    [] handler = "again"  -> drift \cap {"rainbow", "file"}
    [] handler = "select" -> (drift \cap {"rainbow"}) \cup {"color", "file"}
    [] handler = "effect" -> drift \cup {"circle"}
    [] handler = "back"   -> drift \cup {"color"}
    [] handler = "backOn" -> drift \ {"back"}
    [] handler \in {"color", "bgcolor"} /\ cfg.bg /\ ~Host!HasBg(cfg)
                          -> drift \cup {"back", "color"}
    [] handler = "color" /\ (cfg.bg => Host!HasBg(cfg))
                          -> drift \ {"color"}
    [] handler = "dark"   -> drift \ {"rainbow"}
    [] handler = "exit" /\ (on_rainbow \/ contain_rainbow)
                          -> drift \cup {"rainbow"}
    [] OTHER -> drift

Note(handler, k) ==
  /\ drift' = Drift(handler)
  /\ held' = IF handler = "midi" /\ k \in Keys THEN [held EXCEPT ![k] = ~@]
                                               ELSE held
  /\ upset' = \/ upset
              \/ handler = "midi" /\ (on_rainbow \/ "rainbow" \in drift)
              \/ /\ AnyHeld
                 /\ \/ handler \in {"start", "again", "select", "effect", "clear", "exit"}
                    \/ handler = "midi" /\ k = NumKeys
  /\ UNCHANGED faults

Resync(certain) == fault' = IF fault = "now" /\ certain THEN "past" ELSE fault

Restart ==
  \E p \in Host!Sets :
    \/ Host!Main(p)         /\ Note("start", 0)  /\ Resync(mode = "setup")
    \/ Host!LoadPreset(p)   /\ Note("start", 0)  /\ Resync(TRUE)
    \/ /\ Host!SelectPreset(p)
       /\ Note(IF p = using_set THEN "again" ELSE "select", 0)
       /\ Resync(TRUE)

Play == \E k \in Notes : Host!Midi(k) /\ Note("midi", k)

Drifting ==
  \/ \E i \in Host!Colors : Host!PickColor(i) /\ Note("color", 0)
  \/ \E i \in Host!Colors : Host!PickBackground(i) /\ Note("bgcolor", 0)
  \/ Host!SwitchBackgroundOff /\ Note("back", 0)
  \/ Host!SwitchBackgroundOn  /\ Note("backOn", 0)
  \/ Host!Effect1             /\ Note("effect", 0)
  \/ Host!ClearBar            /\ Note("clear", 0)
  \/ Host!ContainRainbow      /\ Note("clear", 0)
  \/ Host!RainbowReleased     /\ Note("dark", 0)
  \/ Host!Exit                /\ Note("exit", 0)
  \/ Host!ShutDown            /\ Note("exit", 0)

Switch ==
  /\ \/ Host!SwitchCircle \/ Host!SwitchEnds
     \/ Host!SwitchExtend \/ Host!SwitchRemain
     \/ Host!RainbowHeld  \/ Host!ContainFrame \/ Host!Tick
  /\ Note("other", 0)

Type ==
  /\ \/ \E i \in Host!Colors  : Host!SetBackgroundColor(i)
     \/ \E n \in Brights     : Host!SetBrightness(n)
     \/ \E n \in Spreads     : Host!SetExtend(n)
     \/ \E n \in Times       : Host!SetRemain(n)
     \/ \E n \in BackBrights : Host!SetBackgroundBrightness(n)
  /\ Note("other", 0)

HostStep ==
  /\ Restart \/ ((Play \/ Drifting \/ Switch \/ Type) /\ UNCHANGED fault)
  /\ UNCHANGED vars

-----------------------------------------------------------------------------
(* The firmware reads the next byte. *)
Deliver ==
  /\ line # <<>>
  /\ Receive(Head(line))
  /\ line' = Tail(line)
  /\ UNCHANGED <<settings, sent, ghosts>>

Fault ==
  /\ faults < MaxFaults
  /\ faults' = faults + 1
  /\ fault' = "now" /\ upset' = TRUE
  /\ UNCHANGED <<settings, sent, drift, held>>

Lose ==
  /\ line # <<>>
  /\ line' = Tail(line)
  /\ UNCHANGED vars
  /\ Fault

(* The board boots again; what is in its input buffer is gone. *)
PowerCycle ==
  /\ mode' = "setup" /\ pend' = <<>>
  /\ flag' = [k \in Keys |-> FALSE]
  /\ circle' = 0 /\ re' = FALSE /\ flagc' = TRUE /\ flagz' = TRUE
  /\ rgb' = Black /\ bgc' = Black /\ brightness' = BootBrightness
  /\ rbstatus' = FALSE /\ extend' = FALSE /\ numofextend' = 0
  /\ rm_status' = FALSE /\ rm_time' = 0 /\ rm_times' = [k \in Keys |-> 0]
  /\ on_background' = FALSE /\ leds' = [l \in Leds |-> Black]
  /\ stray' = {}
  /\ line' = <<>>
  /\ Fault

PianoInit ==
  /\ Init
  /\ Host!HostInit
  /\ faults = 0 /\ fault = "none" /\ drift = {}
  /\ held = [k \in Keys |-> FALSE] /\ upset = FALSE

PianoNext == HostStep \/ Deliver \/ Lose \/ PowerCycle

PianoSpec == PianoInit /\ [][PianoNext]_pianoVars

-----------------------------------------------------------------------------
(* The settings a line can carry: push() sends no 0, and the firmware keeps *)
(* one byte of a number.                                                   *)
BackNumbers == BackBrights \cup {Presets[p].bgbright : p \in Host!Sets}

Carried ==
  {c \in Host!Settings :
     /\ {c.color, c.bgcolor} \subseteq Host!Colors
     /\ {c.num_extend, c.num_remain} \subseteq 1..255
     /\ c.brightness > 0 /\ c.brightness % 256 # 0
     /\ c.bgbright \in BackNumbers}

(* What the properties below ask of the presets, the colours, the numbers   *)
(* typed and the piano: nothing the host means to send has a low byte of 0, *)
(* nor does a number after it in memory go out with it; no note is one of   *)
(* the commands but "clear"; and a command has no more parameters than      *)
(* start() has wake bytes to complete it with.                             *)
Legible ==
  /\ CommuTail = <<>>
  /\ NumKeys <= 88 /\ NumChannels <= 3
  /\ \A k \in Notes : k <= NumKeys
  /\ \A n \in Brights : n < 10 \/ n % 256 # 0
  /\ \A n \in Spreads \cup Times : n >= 1
  /\ \A p \in Host!Sets : Presets[p] \in Carried
  /\ \A p \in Host!Sets, i \in Host!Colors, ch \in Channels : Palettes[p][i][ch] # 0
  /\ \A p \in Host!Sets, i, j \in Host!Colors, n \in BackNumbers \ {0} :
       LET c == [Presets[p] EXCEPT !.color = i, !.bgcolor = j, !.bgbright = n]
       IN  \A ch \in Channels : /\ Host!BgReal(c, p)[ch] % 256 # 0
                                /\ Host!BgPlus(c, p)[ch] % 256 # 0

-----------------------------------------------------------------------------
Quiet == running /\ line = <<>> /\ queued = <<>>

LowByte(c) == [ch \in Channels |-> c[ch] % 256]

(* Once the firmware has read everything, it works with the host's         *)
(* settings: after any sequence of switches, typed commands, rainbows,     *)
(* preset changes and restarts, with their bytes interleaved in one        *)
(* stream.  It holds again after bytes have been lost or the board has     *)
(* been powered off and on in the middle of anything, as soon as a preset  *)
(* is loaded: reset, wake, wake brings the firmware to the start of a      *)
(* command from wherever it was.                                           *)
ConfigInSync ==
  Quiet /\ fault # "now" /\ ~on_rainbow /\ ~contain_rainbow =>
    /\ mode = "loop" /\ pend = <<>>
    /\ flagc = cfg.circle \/ "circle" \in drift
    /\ rbstatus => "rainbow" \in drift \/ fault # "none"
    /\ flagz = cfg.ends
    /\ rm_status = cfg.remain /\ (cfg.remain => rm_time = cfg.num_remain)
    /\ extend = cfg.extend /\ (cfg.extend => numofextend = cfg.num_extend)
    /\ brightness = cfg.brightness \/ cfg.brightness > 255
    /\ on_background = cfg.bg \/ "back" \in drift
    /\ cfg.bg => bgc = LowByte(real) /\ rgb = LowByte(plus)
    /\ ~cfg.bg => rgb = Palettes[palette][cfg.color] \/ "color" \in drift

(* The firmware's idea of which keys are down is right, as long as no key   *)
(* is moved under a rainbow, and the bar is cleared or reset with all keys  *)
(* up only.                                                                 *)
FlagsFollowKeys ==
  Quiet /\ ~upset => \A k \in Played : flag[k] = held[k]

(* Numbers that the program reports as errors and works with nevertheless. *)
Rejected(f) ==
  \/ f = "brightness" /\ cfg.brightness > 255
  \/ f \in {"bg", "bgbright"} /\ cfg.bgbright \notin 1..255

(* What the host works with is what a later start will read from the file  *)
(* of the selected preset; but a number that was rejected may be missing   *)
(* there, and as long as the background has no brightness it may be off    *)
(* here and on in the file.                                                *)
SettingsAreSaved ==
  running /\ "file" \notin drift =>
    \A f \in DOMAIN cfg : file[using_set][f] = cfg[f] \/ Rejected(f)

(* The files of the presets hold what EffectHost says they do when the      *)
(* program starts again: what write_set prints of any settings that came    *)
(* up, with a list of channels or without one, is what read_set scans.      *)
FilesReadBack ==
  ~running /\ line = <<>> =>
    \A p \in Host!Sets : \A s \in {<<>>, <<144, 128>>} :
      Text!ReadSet(Text!PrintSet(file[p], s, s)) = Text!Numbers(file[p])

(* Only settings that were read from a preset's file are saved to it:       *)
(* selecting a preset ("set select", the program's help file) does not let   *)
(* a later switch overwrite it with the settings of another one.             *)
PresetsKeepApart ==
  [][file' # file => "file" \notin drift]_pianoVars
=============================================================================
