------------------------------ MODULE LightBar ------------------------------
(***************************************************************************)
(* The firmware of the light bar, Effect_Piano_v1.3.0.ino.                 *)
(*                                                                         *)
(* The Arduino executes one loop: it reads a command byte from the serial  *)
(* line, reads the parameter bytes that command takes, and redraws the     *)
(* LEDs.  It runs no other task, so one action of this module is one byte  *)
(* taken from Serial.read().  A byte that does not complete a command is   *)
(* kept in pend; the handler runs, as a whole, with the byte that does.    *)
(*                                                                         *)
(* Bytes are numbers.  The command codes are those of the switch statement *)
(* relative to the number of keys, which is 88 in the firmware: code 88,   *)
(* "clear", is also the number the highest key of the piano would have.    *)
(*                                                                         *)
(* Left out: pin 13, the breathing of leds[0] while setup() waits, and the *)
(* hue of the rainbow.  rb_refresh is FALSE between any two bytes, so the  *)
(* redraw it asks for is part of the action that sets it.                  *)
(***************************************************************************)
EXTENDS Integers, Sequences

CONSTANTS
  NumKeys,        \* keys of the piano (88); the bar has two LEDs for each
  NumLeds,        \* NUM_LEDS (288): end LED, bar, end LED, then the circle
  RingBase,       \* the sweep lights leds[RingBase + 1 ...] (226)
  RingLen,        \* number of LEDs that are swept (60)
  NumChannels,    \* colour channels of a CRGB (3)
  BootColor,      \* colour of the end LEDs after setup(): CRGB(140,154,255)
  FirstColor,     \* colour of the keys after setup(): r = 20; g = 24; b = 127
  RainbowColor,   \* stands for whatever fill_rainbow paints on the bar
  BootBrightness, \* FastLED's brightness after setup() (100)
  DivByZero,      \* what the AVR's integer division answers for x / 0 (-1)
  Inputs          \* the bytes the serial line may deliver

VARIABLES
  mode,          \* "setup": setup() waits for a wake byte; "loop": loop()
  pend,          \* the command being received and its parameters so far
  flag,          \* flag[k]: key k is taken to be down
  circle, re,    \* position of the circle's sweep; re: it is erasing
  flagc, flagz,  \* circle enabled; end LEDs enabled
  rgb,           \* r, g, b: the colour a key lights up in
  bgc,           \* br, bg, bb: the colour of the background light
  brightness,    \* FastLED's master brightness
  rbstatus,      \* the rainbow is running
  extend, numofextend,          \* neighbours that light up with a key
  rm_status, rm_time, rm_times, \* fading of released keys
  on_background,                \* background light on
  leds,          \* the frame buffer
  stray          \* places outside leds[0 .. RingBase] an extension wrote to

parser == <<mode, pend>>
ring   == <<circle, re, flagc>>
colors == <<rgb, bgc, brightness>>
spread == <<extend, numofextend, stray>>
remain == <<rm_status, rm_time, rm_times>>

vars == <<parser, flag, ring, flagz, colors, rbstatus, spread, remain,
          on_background, leds>>

Byte     == 0..255
Char     == -128..127             \* the AVR's char is signed
Channels == 1..NumChannels
Color    == [Channels -> Byte]
Leds     == 0..(NumLeds - 1)
Keys     == 1..NumKeys
Played   == 2..(NumKeys - 1)      \* the keys whose byte lights LEDs
Ends     == {0, 2 * NumKeys + 1}
Bar      == 1..(2 * NumKeys)
Black    == [ch \in Channels |-> 0]

ASSUME LightBarAssumption ==
  /\ NumKeys \in Nat \ {0} /\ NumLeds \in Nat /\ NumChannels \in Nat \ {0}
  /\ RingLen \in Nat \ {0} /\ RingBase \in Nat
  /\ 2 * NumKeys + 1 <= RingBase /\ RingBase + RingLen < NumLeds
  /\ BootColor \in Color /\ FirstColor \in Color /\ RainbowColor \in Color
  /\ BootBrightness \in Byte /\ DivByZero \in Int
  /\ Inputs \subseteq Byte

-----------------------------------------------------------------------------
(* Commands.  Cmd gives each its byte, Arity the parameter bytes it reads. *)

Cmd == [clear     |-> NumKeys,      color      |-> NumKeys + 1,
        circleOff |-> NumKeys + 2,  circleOn   |-> NumKeys + 3,
        endsOn    |-> NumKeys + 4,  bright     |-> NumKeys + 5,
        rainbowOn |-> NumKeys + 6,  rainbowOff |-> NumKeys + 7,
        extendOn  |-> NumKeys + 8,  endsOff    |-> NumKeys + 9,
        remainOn  |-> NumKeys + 10, remainOff  |-> NumKeys + 11,
        tick      |-> NumKeys + 12, extendOff  |-> NumKeys + 13,
        backOn    |-> NumKeys + 14, backOff    |-> NumKeys + 15,
        reset     |-> NumKeys + 37, wake       |-> NumKeys + 39]

(* The cases of the switch that end in return; every other byte goes on to *)
(* the rainbow, the fading and the keys.                                   *)
Returning ==
  {Cmd.clear, Cmd.color, Cmd.circleOff, Cmd.circleOn, Cmd.endsOn, Cmd.bright,
   Cmd.extendOn, Cmd.endsOff, Cmd.remainOn, Cmd.remainOff, Cmd.extendOff,
   Cmd.backOn, Cmd.backOff, Cmd.reset}

Arity(c) ==
  CASE c \in {Cmd.color, Cmd.backOn} -> NumChannels
    [] c \in {Cmd.bright, Cmd.extendOn, Cmd.remainOn} -> 1
    [] OTHER -> 0

(* What has been read of the current command, b included. *)
Message(b) == Append(pend, b)

(* The three bytes r, g, b or br, bg, bb of a colour command. *)
Params(b) == [ch \in Channels |-> Message(b)[ch + 1]]

(* b completes command c: its handler runs, and loop() starts over. *)
Received(c, b) ==
  /\ mode = "loop"
  /\ Message(b)[1] = c
  /\ Len(pend) = Arity(c)
  /\ pend' = <<>>

-----------------------------------------------------------------------------
(* Arithmetic of colours: CRGB's += and -= saturate, its constructor keeps *)
(* the low byte of each argument.                                          *)

qadd8(x, y) == IF x + y > 255 THEN 255 ELSE x + y
qsub8(x, y) == IF x < y THEN 0 ELSE x - y

Add(c, d) == [ch \in Channels |-> qadd8(c[ch], d[ch])]
Sub(c, d) == [ch \in Channels |-> qsub8(c[ch], d[ch])]

ToChar(x) == ((x + 128) % 256) - 128

(* The strip with the LEDs of the set S in one colour. *)
Paint(S, color) == [l \in Leds |-> IF l \in S THEN color ELSE leds[l]]

(* What reaches LED l from key k: its colour on the key's own two LEDs, at *)
(* 2k - 1 and 2k, and less and less of it on the numofextend LEDs to each  *)
(* side.  Reach is negative for the two LEDs, then 0, 1, ... outwards.     *)
Reach(k, l) == IF l > 2 * k THEN l - 2 * k - 1 ELSE 2 * k - l - 2

Share(k, l) ==
  [ch \in Channels |->
     (rgb[ch] \div (numofextend + 3)) * (numofextend - Reach(k, l))]

Glow(k, l) ==
  CASE Reach(k, l) < 0 -> rgb
    [] extend /\ Reach(k, l) \in 0..(numofextend - 1) -> Share(k, l)
    [] OTHER -> Black

(* What a fading key loses with each tick; FadeFloor, without the + 1 that *)
(* rounds it up, is the mutant of Fade.                                    *)
FadeFloor ==
  [ch \in Channels |->
     (IF rm_time = 0 THEN DivByZero ELSE rgb[ch] \div rm_time) % 256]

Fade ==
  [ch \in Channels |->
     ((IF rm_time = 0 THEN DivByZero ELSE rgb[ch] \div rm_time) + 1) % 256]

KeyOf(l) == (l + 1) \div 2

-----------------------------------------------------------------------------
(* Power on, and the two halves of setup(): what it resets, and what it    *)
(* does when the wake byte ends its wait.                                  *)

Init ==
  /\ mode = "setup" /\ pend = <<>>
  /\ flag = [k \in Keys |-> FALSE]
  /\ circle = 0 /\ re = FALSE /\ flagc = TRUE /\ flagz = TRUE
  /\ rgb = Black /\ bgc = Black /\ brightness = BootBrightness
  /\ rbstatus = FALSE /\ extend = FALSE /\ numofextend = 0
  /\ rm_status = FALSE /\ rm_time = 0 /\ rm_times = [k \in Keys |-> 0]
  /\ on_background = FALSE
  /\ leds = [l \in Leds |-> Black]
  /\ stray = {}

SetupReset(b) ==
  /\ Received(Cmd.reset, b)
  /\ mode' = "setup"
  /\ flagc' = TRUE /\ flagz' = TRUE
  /\ brightness' = BootBrightness
  /\ flag' = [k \in Keys |-> FALSE]
  /\ leds' = Paint(1..(NumLeds - 2), Black)
  /\ UNCHANGED <<circle, re, rgb, bgc, rbstatus, spread, remain, on_background>>

SetupWait(b) ==
  /\ mode = "setup"
  /\ b # Cmd.wake
  /\ UNCHANGED vars

SetupDone(b) ==
  /\ mode = "setup"
  /\ b = Cmd.wake
  /\ mode' = "loop"
  /\ rgb' = FirstColor
  /\ leds' = IF flagz THEN Paint(Ends, BootColor) ELSE leds
  /\ UNCHANGED <<pend, flag, ring, flagz, bgc, brightness, rbstatus, spread,
                 remain, on_background>>

-----------------------------------------------------------------------------
(* A byte that does not complete its command yet. *)
Gather(b) ==
  /\ mode = "loop"
  /\ Len(pend) < Arity(Message(b)[1])
  /\ pend' = Message(b)
  /\ UNCHANGED <<mode, flag, ring, flagz, colors, rbstatus, spread, remain,
                 on_background, leds>>

ClearAll(b) ==
  /\ Received(Cmd.clear, b)
  /\ flag' = [k \in Keys |-> FALSE]
  /\ circle' = 0
  /\ leds' = [l \in Leds |-> IF l \in Ends /\ flagz THEN BootColor ELSE Black]
  /\ UNCHANGED <<mode, re, flagc, flagz, colors, rbstatus, spread, remain,
                 on_background>>

CircleOff(b) ==
  /\ Received(Cmd.circleOff, b)
  /\ flagc' = FALSE
  /\ circle' = 0
  /\ leds' = Paint((2 * NumKeys + 2)..(NumLeds - 1), Black)
  /\ UNCHANGED <<mode, flag, re, flagz, colors, rbstatus, spread, remain,
                 on_background>>

CircleOn(b) ==
  /\ Received(Cmd.circleOn, b)
  /\ flagc' = TRUE
  /\ re' = FALSE
  /\ UNCHANGED <<mode, flag, circle, flagz, colors, rbstatus, spread, remain,
                 on_background, leds>>

SetColor(b) ==
  /\ Received(Cmd.color, b)
  /\ rgb' = Params(b)
  /\ leds' = Paint(Ends, IF flagz THEN Params(b) ELSE Black)
  /\ UNCHANGED <<mode, flag, ring, flagz, bgc, brightness, rbstatus, spread,
                 remain, on_background>>

EndsOff(b) ==
  /\ Received(Cmd.endsOff, b)
  /\ flagz' = FALSE
  /\ leds' = Paint(Ends, Black)
  /\ UNCHANGED <<mode, flag, ring, colors, rbstatus, spread, remain,
                 on_background>>

EndsOn(b) ==
  /\ Received(Cmd.endsOn, b)
  /\ flagz' = TRUE
  /\ leds' = Paint(Ends, rgb)
  /\ UNCHANGED <<mode, flag, ring, colors, rbstatus, spread, remain,
                 on_background>>

SetBrightness(b) ==
  /\ Received(Cmd.bright, b)
  /\ brightness' = b
  /\ UNCHANGED <<mode, flag, ring, flagz, rgb, bgc, rbstatus, spread, remain,
                 on_background, leds>>

ExtendOn(b) ==
  /\ Received(Cmd.extendOn, b)
  /\ extend' = TRUE
  /\ numofextend' = b
  /\ UNCHANGED <<mode, flag, ring, flagz, colors, rbstatus, stray, remain,
                 on_background, leds>>

ExtendOff(b) ==
  /\ Received(Cmd.extendOff, b)
  /\ extend' = FALSE
  /\ UNCHANGED <<mode, flag, ring, flagz, colors, rbstatus, numofextend, stray,
                 remain, on_background, leds>>

RemainOn(b) ==
  /\ Received(Cmd.remainOn, b)
  /\ rm_status' = TRUE
  /\ rm_time' = b
  /\ UNCHANGED <<mode, flag, ring, flagz, colors, rbstatus, spread, rm_times,
                 on_background, leds>>

RemainOff(b) ==
  /\ Received(Cmd.remainOff, b)
  /\ rm_status' = FALSE
  /\ UNCHANGED <<mode, flag, ring, flagz, colors, rbstatus, spread, rm_time,
                 rm_times, on_background, leds>>

BackgroundOn(b) ==
  /\ Received(Cmd.backOn, b)
  /\ on_background' = TRUE
  /\ bgc' = Params(b)
  /\ leds' = [l \in Leds |-> IF l \in Bar THEN Add(leds[l], Params(b))
                                          ELSE leds[l]]
  /\ UNCHANGED <<mode, flag, ring, flagz, rgb, brightness, rbstatus, spread,
                 remain>>

BackgroundOff(b) ==
  /\ Received(Cmd.backOff, b)
  /\ on_background' = FALSE
  /\ leds' = [l \in Leds |-> IF l \in Bar THEN Sub(leds[l], bgc) ELSE leds[l]]
  /\ UNCHANGED <<mode, flag, ring, flagz, colors, rbstatus, spread, remain>>

-----------------------------------------------------------------------------
(* While the rainbow runs every byte that no case returns from draws its   *)
(* next frame: keys and ticks are dropped.                                 *)
RainbowFrame(b) ==
  /\ Received(b, b)
  /\ b \notin Returning \cup {Cmd.rainbowOff}
  /\ rbstatus \/ b = Cmd.rainbowOn
  /\ rbstatus' = TRUE
  /\ leds' = Paint(Bar, RainbowColor)
  /\ UNCHANGED <<mode, flag, ring, flagz, colors, spread, remain, on_background>>

RainbowOff(b) ==
  /\ Received(Cmd.rainbowOff, b)
  /\ rbstatus' = FALSE
  /\ leds' = [l \in Leds |-> IF l \in Ends /\ flagz THEN rgb
                             ELSE IF l = NumLeds - 1 THEN leds[l] ELSE Black]
  /\ UNCHANGED <<mode, flag, ring, flagz, colors, spread, remain, on_background>>

(* One step of the fading of every released key that has ticks left. *)
Faded(l) ==
  LET k == KeyOf(l)
  IN  CASE rm_times[k] <= 0 -> leds[l]
        [] rm_times[k] = 1 /\ on_background /\ ~flag[k] -> bgc
        [] OTHER -> Sub(leds[l], Fade)

RemainTick(b) ==
  /\ Received(Cmd.tick, b)
  /\ ~rbstatus /\ rm_status
  /\ rm_times' = [k \in Keys |-> IF rm_times[k] > 0 THEN rm_times[k] - 1
                                                    ELSE rm_times[k]]
  /\ leds' = [l \in Leds |-> IF l \in Bar THEN Faded(l) ELSE leds[l]]
  /\ UNCHANGED <<mode, flag, ring, flagz, colors, rbstatus, spread, rm_status,
                 rm_time, on_background>>

(* The LEDs off the bar that an extension of key k writes to. *)
Strayed(k) ==
  {l \in (2 * k - 1 - numofextend)..(2 * k + numofextend) :
     extend /\ Reach(k, l) >= 0 /\ l \notin 0..RingBase}

(* The sweep has reached the end of the circle.  AtEndLate is its mutant. *)
AtEndLate == circle > RingLen
AtEnd     == circle >= RingLen

(* A key that is up goes down: it lights, with its neighbours, and the     *)
(* sweep of the circle moves one LED on, turning from drawing to erasing   *)
(* or back at the end of the circle.                                       *)
Press(b) ==
  /\ Received(b, b)
  /\ b \in Played
  /\ ~rbstatus /\ ~flag[b]
  /\ flag' = [flag EXCEPT ![b] = TRUE]
  /\ stray' = stray \cup Strayed(b)
  /\ LET lit == [l \in Leds |-> Add(leds[l], Glow(b, l))]
     IN  IF flagc
         THEN /\ circle' = (IF AtEnd THEN circle % RingLen ELSE circle) + 1
              /\ re' = IF AtEnd THEN ~re ELSE re
              /\ leds' = [lit EXCEPT ![RingBase + circle'] =
                            [ch \in Channels |-> IF re' THEN 0
                                                 ELSE rgb[ch] \div 2]]
         ELSE /\ leds' = lit
              /\ UNCHANGED <<circle, re>>
  /\ UNCHANGED <<mode, flagc, flagz, colors, rbstatus, extend, numofextend,
                 remain, on_background>>

(* What LED l loses when key k goes up; the mutant forgets the neighbours. *)
TakenOwn(k, l) == IF rm_status \/ Reach(k, l) >= 0 THEN Black ELSE rgb
Taken(k, l) == IF rm_status /\ Reach(k, l) < 0 THEN Black ELSE Glow(k, l)

(* A key that is down goes up: its LEDs lose its colour, at once or, while *)
(* remaining is on, in rm_time more ticks; its neighbours at once.         *)
Release(b) ==
  /\ Received(b, b)
  /\ b \in Played
  /\ ~rbstatus /\ flag[b]
  /\ flag' = [flag EXCEPT ![b] = FALSE]
  /\ stray' = stray \cup Strayed(b)
  /\ rm_times' = IF rm_status
                 THEN [rm_times EXCEPT ![b] = ToChar(@ + rm_time)]
                 ELSE rm_times
  /\ leds' = [l \in Leds |-> Sub(leds[l], Taken(b, l))]
  /\ UNCHANGED <<mode, ring, flagz, colors, rbstatus, extend, numofextend,
                 rm_status, rm_time, on_background>>

(* Any other byte is read and ignored. *)
Ignore(b) ==
  /\ Received(b, b)
  /\ ~rbstatus
  /\ b \notin Returning \cup Played \cup {Cmd.rainbowOn, Cmd.rainbowOff}
  /\ b = Cmd.tick => ~rm_status
  /\ UNCHANGED vars

-----------------------------------------------------------------------------
Receive(b) ==
  \/ SetupReset(b)   \/ SetupWait(b)    \/ SetupDone(b)
  \/ Gather(b)       \/ ClearAll(b)     \/ CircleOff(b)    \/ CircleOn(b)
  \/ SetColor(b)     \/ EndsOff(b)      \/ EndsOn(b)       \/ SetBrightness(b)
  \/ ExtendOn(b)     \/ ExtendOff(b)    \/ RemainOn(b)     \/ RemainOff(b)
  \/ BackgroundOn(b) \/ BackgroundOff(b)
  \/ RainbowFrame(b) \/ RainbowOff(b)   \/ RemainTick(b)
  \/ Press(b)        \/ Release(b)      \/ Ignore(b)

Next == \E b \in Inputs : Receive(b)

Spec == Init /\ [][Next]_vars

-----------------------------------------------------------------------------
ParserType ==
  /\ mode \in {"setup", "loop"}
  /\ pend \in Seq(Byte)
  /\ pend # <<>> => mode = "loop" /\ Len(pend) <= Arity(pend[1])
RingType   == circle \in 0..RingLen /\ re \in BOOLEAN /\ flagc \in BOOLEAN
ColorsType == rgb \in Color /\ bgc \in Color /\ brightness \in Byte
SpreadType == extend \in BOOLEAN /\ numofextend \in Byte /\ stray \in SUBSET Int
RemainType ==
  rm_status \in BOOLEAN /\ rm_time \in Byte /\ rm_times \in [Keys -> Char]
SwitchType ==
  /\ flag \in [Keys -> BOOLEAN]
  /\ flagz \in BOOLEAN /\ rbstatus \in BOOLEAN /\ on_background \in BOOLEAN

(* Every variable keeps its type; a command in pend still lacks parameters. *)
(* The sweep's position stays inside the circle, so that every step of it   *)
(* writes inside leds[], and no conversion leaves the range of its type.    *)
TypeOK ==
  /\ ParserType /\ RingType /\ ColorsType /\ SpreadType /\ RemainType
  /\ SwitchType
  /\ leds \in [Leds -> Color]

(* While the sweep erases, everything behind it is dark: whatever switches   *)
(* the circle off and on, clears or resets the bar in the middle of a sweep  *)
(* (circle and re survive a reset, re survives "clear" and "circle off").    *)
(* An extension so long that it reaches the circle's LEDs can light one.     *)
RingErasesBehind ==
  re /\ stray = {} => \A p \in 1..circle : leds[RingBase + p] = Black

(* No extension writes outside leds[]. *)
ExtendInBounds == stray \subseteq Leds
=============================================================================
