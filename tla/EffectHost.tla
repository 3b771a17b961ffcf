----------------------------- MODULE EffectHost -----------------------------
(***************************************************************************)
(* The Windows program, Effect_Piano.cpp: settings, presets and keyboard   *)
(* switches on one side, a line of bytes to the firmware on the other.     *)
(*                                                                         *)
(* The program is one thread.  Its main loop tests the keys of the switch  *)
(* board one after the other, polls the MIDI input and sleeps; con_mode()  *)
(* does the same for typed commands.  Any key may be down at its test and  *)
(* any command may be typed, so the module has no program counter: each    *)
(* handler is an action, and the loop (in EffectPiano) is any sequence of  *)
(* them.  The counters kbcd and kbecd only space out repetitions.          *)
(*                                                                         *)
(* push() sends everything that pta() has queued, one byte per WriteFile,  *)
(* so a handler's bytes reach the line in one piece.  A queue of 200 never *)
(* fills up: every handler queues fewer than 30 before it pushes.          *)
(*                                                                         *)
(* Left out: output to the console, the channel filter (a message that is  *)
(* filtered out does nothing) and latency (a wait).  Presets' files hold   *)
(* the settings and colours themselves; their text is not modelled.        *)
(***************************************************************************)
EXTENDS Integers, Sequences, SequencesExt

CONSTANTS
  NumKeys,      \* keys of the piano (88); codes are relative to it, as in LightBar
  NumChannels,  \* r, g, b
  NumColors,    \* colours of each preset
  NumSets,      \* presets with a key of their own, at most LOSET_FORM
  Palettes,     \* Palettes[s][i]: colour i of preset s (the .efpcolor files)
  Presets,      \* Presets[s]: the settings first found in preset s (.efpdata)
  Brights,      \* numbers typed for "set brightness"
  Spreads,      \* ... "set extend"
  Times,        \* ... "set remain", in ticks
  BackBrights,  \* ... "set background brightness"
  EffectWidth,  \* keys lit at once by the effect of key U (10)
  Notes,        \* what data1 - 20 may be for the MIDI messages received
  CommuTail,    \* bytes strlen() finds behind commu[1]; <<>> if a 0 follows it
  LineCap       \* bound: the host waits for the line to be this short

VARIABLES
  running,      \* between start() and the end of main_test_input()
  using_set,    \* the preset selected
  palette,      \* the preset whose colours are loaded
  cfg,          \* the settings
  real, plus,   \* color_bg_real and color_plus
  queued,       \* data[op + 1 .. cl]: queued by pta(), not pushed
  on_rainbow, contain_rainbow,
  file,         \* the settings in each preset's file
  line          \* bytes written to the serial port and not yet read

hostVars == <<running, using_set, palette, cfg, real, plus, queued, on_rainbow,
              contain_rainbow, file, line>>

bgVars  == <<real, plus>>
setVars == <<running, using_set, palette>>
rbVars  == <<on_rainbow, contain_rainbow>>

Sets     == 1..NumSets
Channels == 1..NumChannels
Colors   == 1..NumColors

Settings ==
  [circle : BOOLEAN, ends : BOOLEAN, extend : BOOLEAN, remain : BOOLEAN,
   bg : BOOLEAN, num_extend : Int, num_remain : Int, brightness : Int,
   color : Int, bgcolor : Int, bgbright : Int]

EffectHostAssumption ==
  /\ NumKeys \in Nat \ {0} /\ NumChannels \in Nat \ {0}
  /\ NumColors \in Nat \ {0} /\ NumSets \in 1..6
  /\ Palettes \in [Sets -> [Colors -> [Channels -> 0..255]]]
  /\ Presets \in [Sets -> Settings]
  /\ Brights \cup Spreads \cup Times \cup BackBrights \subseteq Int
  /\ Notes \subseteq -20..107
  /\ EffectWidth \in 1..(NumKeys - 1)

-----------------------------------------------------------------------------
(* Sending. *)

Code == [clear     |-> NumKeys,      color      |-> NumKeys + 1,
         circleOff |-> NumKeys + 2,  circleOn   |-> NumKeys + 3,
         endsOn    |-> NumKeys + 4,  bright     |-> NumKeys + 5,
         rainbowOn |-> NumKeys + 6,  rainbowOff |-> NumKeys + 7,
         extendOn  |-> NumKeys + 8,  endsOff    |-> NumKeys + 9,
         remainOn  |-> NumKeys + 10, remainOff  |-> NumKeys + 11,
         tick      |-> NumKeys + 12, extendOff  |-> NumKeys + 13,
         backOn    |-> NumKeys + 14, backOff    |-> NumKeys + 15,
         reset     |-> NumKeys + 37, wake       |-> NumKeys + 39]

(* push() writes strlen(commu) bytes from commu, a char array of one: none *)
(* if the number's low byte is 0, and else that byte and whatever follows  *)
(* it in memory up to the next 0.                                          *)
Written(n) == IF n % 256 = 0 THEN <<>> ELSE <<n % 256>> \o CommuTail

Transmit(s) == FlattenSeq([i \in DOMAIN s |-> Written(s[i])])

Ready == running /\ Len(line) <= LineCap

Push(s) ==
  /\ line' = line \o Transmit(queued \o s)
  /\ queued' = <<>>

(* The background light: get_bg_color computes how much of the background  *)
(* colour is shown and what a key adds to it; with a brightness of 0 it    *)
(* switches the background off instead and leaves both as they were.       *)
BgReal(c, p) ==
  [ch \in Channels |-> (Palettes[p][c.bgcolor][ch] * c.bgbright) \div 256]
BgPlus(c, p) ==
  [ch \in Channels |-> Palettes[p][c.color][ch] - BgReal(c, p)[ch]]

HasBg(c)  == c.bgbright # 0
WithBg(c) == IF HasBg(c) THEN c ELSE [c EXCEPT !.bg = FALSE]

GetBgColor(c, p) ==
  /\ real' = IF HasBg(c) THEN BgReal(c, p) ELSE real
  /\ plus' = IF HasBg(c) THEN BgPlus(c, p) ELSE plus

RefreshBgOnly(r, p) == <<Code.backOff, Code.backOn>> \o r  \* mutant of RefreshBg
RefreshBg(r, p) ==
  <<Code.backOff, Code.backOn>> \o r \o <<Code.color>> \o p

(* The first byte of start() is never sent: it is 0.  The wake bytes end    *)
(* setup(), or complete a command the firmware was in the middle of.       *)
WakeOnce == <<0, Code.wake>>  \* mutant of WakeUp
WakeUp   == <<0, Code.wake, Code.wake>>

(* What start() sends for settings c and the colours of preset p; r and q  *)
(* are color_bg_real and color_plus after its call of get_bg_color.        *)
StartBytes(c, p, r, q) ==
  WakeUp \o <<Code.color>> \o Palettes[p][c.color]
    \o (IF HasBg(c) /\ c.bg THEN RefreshBg(r, q) ELSE <<Code.backOff>>)
    \o <<IF c.circle THEN Code.circleOn ELSE Code.circleOff>>
    \o <<IF c.ends THEN Code.endsOn ELSE Code.endsOff>>
    \o (IF c.remain THEN <<Code.remainOn, c.num_remain>> ELSE <<Code.remainOff>>)
    \o (IF c.extend THEN <<Code.extendOn, c.num_extend>> ELSE <<Code.extendOff>>)
    \o <<Code.bright, c.brightness>>

Start(before, c, p) ==
  /\ cfg' = WithBg(c)
  /\ GetBgColor(c, p)
  /\ Push(before \o StartBytes(c, p, real', plus'))

SaveFirst == file' = [file EXCEPT ![1] = cfg']  \* mutant of Save
Save      == file' = [file EXCEPT ![using_set] = cfg']

HostInit ==
  /\ running = FALSE
  /\ using_set = 1 /\ palette = 1
  /\ file = Presets /\ cfg = Presets[1]
  /\ real = [ch \in Channels |-> 0] /\ plus = [ch \in Channels |-> 0]
  /\ queued = <<>> /\ line = <<>>
  /\ on_rainbow = FALSE /\ contain_rainbow = FALSE

-----------------------------------------------------------------------------
(* Starting, choosing a preset, leaving. *)

(* main(): a preset is chosen and read, the port opened, start() called.   *)
Main(p) ==
  /\ ~running /\ line = <<>>
  /\ running' = TRUE
  /\ using_set' = p /\ palette' = p
  /\ Start(<<>>, file[p], p)
  /\ UNCHANGED <<rbVars, file>>

(* Q, W, E, R, T, Y: read_set, read_color, reset, start. *)
LoadPreset(p) ==
  /\ Ready
  /\ using_set' = p /\ palette' = p
  /\ Start(<<Code.reset>>, file[p], p)
  /\ UNCHANGED <<running, rbVars, file>>

(* "set select": the settings are not read again, the colours only after   *)
(* start() has sent one.                                                   *)
SelectPreset(p) ==
  /\ Ready
  /\ using_set' = p /\ palette' = p
  /\ Start(<<Code.reset>>, cfg, palette)
  /\ UNCHANGED <<running, rbVars, file>>

(* The process ends; a later one starts with its variables reset. *)
End ==
  /\ running' = FALSE
  /\ on_rainbow' = FALSE /\ contain_rainbow' = FALSE
  /\ real' = [ch \in Channels |-> 0] /\ plus' = [ch \in Channels |-> 0]
  /\ UNCHANGED <<using_set, palette, cfg, file>>

(* ESC *)
Exit == Ready /\ Push(<<Code.reset>>) /\ End

(* "shut_down": exit() on the spot; the firmware is not told. *)
ShutDown == Ready /\ queued' = <<>> /\ UNCHANGED line /\ End

-----------------------------------------------------------------------------
(* The switch board. *)

(* The handlers that change one setting, send a command and save. *)
Set(c, s) ==
  /\ Ready
  /\ cfg' = c
  /\ Push(s)
  /\ Save
  /\ UNCHANGED <<setVars, rbVars>>

SwitchCircle ==
  /\ Set([cfg EXCEPT !.circle = ~@],
         IF cfg.circle THEN <<Code.circleOff>> ELSE <<Code.circleOn>>)
  /\ UNCHANGED bgVars

SwitchEnds ==
  /\ Set([cfg EXCEPT !.ends = ~@],
         IF cfg.ends THEN <<Code.endsOff>> ELSE <<Code.endsOn>>)
  /\ UNCHANGED bgVars

(* SwitchExtendBare, which forgets the number, is the mutant of             *)
(* SwitchExtend.                                                           *)
SwitchExtendBare ==
  /\ Set([cfg EXCEPT !.extend = ~@],
         IF cfg.extend THEN <<Code.extendOff>> ELSE <<Code.extendOn>>)
  /\ UNCHANGED bgVars

SwitchExtend ==
  /\ Set([cfg EXCEPT !.extend = ~@],
         IF cfg.extend THEN <<Code.extendOff>>
                       ELSE <<Code.extendOn, cfg.num_extend>>)
  /\ UNCHANGED bgVars

SwitchRemain ==
  /\ Set([cfg EXCEPT !.remain = ~@],
         IF cfg.remain THEN <<Code.remainOff>>
                       ELSE <<Code.remainOn, cfg.num_remain>>)
  /\ UNCHANGED bgVars

SwitchBackgroundOff ==
  /\ cfg.bg
  /\ Set([cfg EXCEPT !.bg = FALSE], <<Code.backOff>>)
  /\ UNCHANGED bgVars

SwitchBackgroundOn ==
  /\ ~cfg.bg /\ HasBg(cfg)
  /\ GetBgColor(cfg, palette)
  /\ Set([cfg EXCEPT !.bg = TRUE], RefreshBg(real', plus'))

(* A digit: the colour of the keys.  With the background light on, what    *)
(* get_bg_color answers is ignored.                                        *)
PickColor(i) ==
  LET c == [cfg EXCEPT !.color = i]
  IN  IF cfg.bg
      THEN /\ GetBgColor(c, palette)
           /\ Set(WithBg(c), RefreshBg(real', plus'))
      ELSE /\ Set(c, <<Code.color>> \o Palettes[palette][i])
           /\ UNCHANGED bgVars

(* CTRL and a digit: the colour of the background; saved before            *)
(* get_bg_color and, unless that fails, after it.                          *)
PickBackground(i) ==
  LET c == [cfg EXCEPT !.bgcolor = i]
  IN  /\ Ready
      /\ GetBgColor(c, palette)
      /\ cfg' = WithBg(c)
      /\ file' = [file EXCEPT ![using_set] = c]
      /\ IF cfg.bg /\ HasBg(c)
         THEN Push(RefreshBg(real', plus'))
         ELSE UNCHANGED <<queued, line>>
      /\ UNCHANGED <<setVars, rbVars>>

Send(s) ==
  /\ Ready
  /\ Push(s)
  /\ UNCHANGED <<setVars, cfg, bgVars, rbVars, file>>

(* Backspace. *)
ClearBar == Send(<<Code.clear>>)

(* U: every key lights up and goes out, EffectWidth of them at a time. *)
EffectBytes ==
  LET last == NumKeys - 1
  IN  <<Code.circleOff>> \o [j \in 1..EffectWidth |-> j]
        \o FlattenSeq([j \in 1..(last - EffectWidth) |-> <<j + EffectWidth, j>>])
        \o [j \in 1..EffectWidth |-> last - EffectWidth + j]
        \o <<Code.circleOn, Code.clear>>

Effect1 == Send(EffectBytes)

(* M is down: the rainbow starts, or its next frame is drawn. *)
RainbowHeld ==
  /\ Ready
  /\ IF on_rainbow THEN Push(<<Code.rainbowOn>>)
     ELSE Push(<<Code.bright, 20, Code.circleOff, Code.rainbowOn>>)
  /\ on_rainbow' = TRUE
  /\ UNCHANGED <<setVars, cfg, bgVars, contain_rainbow, file>>

(* M has come up.  The brightness is queued behind "rainbow off", but only *)
(* pushed with "circle on": otherwise it waits for the next push().        *)
RainbowReleased ==
  /\ Ready /\ on_rainbow
  /\ on_rainbow' = FALSE
  /\ IF cfg.circle
     THEN Push(<<Code.rainbowOff, Code.bright, cfg.brightness, Code.circleOn>>)
     ELSE /\ line' = line \o Transmit(queued \o <<Code.rainbowOff>>)
          /\ queued' = <<Code.bright, cfg.brightness>>
  /\ UNCHANGED <<setVars, cfg, bgVars, contain_rainbow, file>>

(* CTRL and M: the rainbow stays on without M, until the same again.  As M *)
(* is down, RainbowHeld has just run.                                      *)
ContainRainbow ==
  /\ Ready /\ on_rainbow
  /\ contain_rainbow' = ~contain_rainbow
  /\ IF ~contain_rainbow
     THEN Push(<<Code.bright, 20, Code.circleOff, Code.rainbowOn>>)
     ELSE Push(<<Code.rainbowOff, Code.bright, cfg.brightness, Code.clear>>
                 \o (IF cfg.circle THEN <<Code.circleOn>> ELSE <<>>))
  /\ UNCHANGED <<setVars, cfg, bgVars, on_rainbow, file>>

-----------------------------------------------------------------------------
(* con_mode(): the commands that change settings. *)

(* A number above 255 is rejected, but stays the setting. *)
SetBrightness(n) ==
  LET v == IF n < 10 THEN 10 ELSE n
      c == [cfg EXCEPT !.brightness = v]
  IN  /\ IF v <= 255
         THEN Set(c, <<Code.bright, v>>)
         ELSE /\ Ready
              /\ cfg' = c
              /\ UNCHANGED <<queued, line, file, setVars, rbVars>>
      /\ UNCHANGED bgVars

Clamp(n, max) == IF n > max THEN max ELSE IF n < 0 THEN 0 ELSE n

(* Settings that are only sent while they are switched on. *)
SetSpread(c, on, s) ==
  /\ Ready
  /\ cfg' = c
  /\ IF on THEN Push(s) ELSE UNCHANGED <<queued, line>>
  /\ Save
  /\ UNCHANGED <<setVars, bgVars, rbVars>>

SetExtend(n) ==
  SetSpread([cfg EXCEPT !.num_extend = Clamp(n, 10)], cfg.extend,
            <<Code.extendOn, Clamp(n, 10)>>)

SetRemain(n) ==
  SetSpread([cfg EXCEPT !.num_remain = Clamp(n, 200)], cfg.remain,
            <<Code.remainOn, Clamp(n, 200)>>)

(* "set background color_default": nothing is sent. *)
SetBackgroundColor(i) == SetSpread([cfg EXCEPT !.bgcolor = i], FALSE, <<>>)

(* "set background brightness": a number outside 1..255 is rejected, but   *)
(* stays the setting.                                                      *)
SetBackgroundBrightness(n) ==
  LET c == [cfg EXCEPT !.bgbright = n]
  IN  /\ Ready
      /\ cfg' = c
      /\ IF n \in 1..255
         THEN /\ GetBgColor(c, palette)
              /\ IF cfg.bg THEN Push(RefreshBg(real', plus'))
                           ELSE UNCHANGED <<queued, line>>
              /\ Save
         ELSE UNCHANGED <<bgVars, queued, line, file>>
      /\ UNCHANGED <<setVars, rbVars>>

-----------------------------------------------------------------------------
(* The rest of the main loop.  While the contained rainbow runs, every     *)
(* pass ends with its next frame, before the MIDI input is looked at.      *)

ContainFrame == contain_rainbow /\ Send(<<Code.rainbowOn>>)

Midi(k) == ~contain_rainbow /\ Send(<<k>>)

Tick == ~contain_rainbow /\ cfg.remain /\ Send(<<Code.tick>>)
=============================================================================
