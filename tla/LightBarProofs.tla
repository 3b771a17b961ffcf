--------------------------- MODULE LightBarProofs ---------------------------
(***************************************************************************)
(* Theorems about LightBar for every number of keys and LEDs, every size   *)
(* of the circle, every number of colour channels and every byte sequence. *)
(***************************************************************************)
EXTENDS LightBar, SequenceTheorems, NaturalsInduction, WellFoundedInduction, TLAPS

-----------------------------------------------------------------------------
(* Colours. *)

(* One channel of a sum or a difference. *)
LEMMA Saturates ==
  ASSUME NEW x \in Byte, NEW y \in Byte
  PROVE  /\ qadd8(x, y) \in Byte /\ qadd8(x, 0) = x
         /\ qsub8(x, y) \in Byte /\ qsub8(0, y) = 0
BY DEF qadd8, qsub8, Byte

(* CRGB's saturating += and -= stay in a byte per channel, taking from     *)
(* black leaves black, and adding no light changes nothing.                *)
LEMMA AddSubType ==
  ASSUME NEW c \in Color, NEW d \in Color
  PROVE  /\ Add(c, d) \in Color /\ Add(c, Black) = c
         /\ Sub(c, d) \in Color /\ Sub(Black, d) = Black
<1>1. ASSUME NEW ch \in Channels
      PROVE  /\ qadd8(c[ch], d[ch]) \in Byte /\ qadd8(c[ch], 0) = c[ch]
             /\ qsub8(c[ch], d[ch]) \in Byte /\ qsub8(0, d[ch]) = 0
  <2>1. c[ch] \in Byte /\ d[ch] \in Byte
    BY DEF Color
  <2> QED
    BY <2>1, Saturates
<1> QED
  BY <1>1 DEF Add, Sub, Color, Black

(* Black, the colour of an LED that is off, is a colour. *)
LEMMA BlackType == Black \in Color
BY DEF Black, Color, Byte

(* The share of a colour that reaches a neighbour, r / (n + 3) * (n - i) in *)
(* the firmware, never exceeds the colour, so its byte does not wrap.       *)
LEMMA ShareBound ==
  ASSUME NEW r \in Byte, NEW n \in Byte, NEW m \in 1..n
  PROVE  (r \div (n + 3)) * m \in Byte
<1> DEFINE q == r \div (n + 3)
<1>1. q \in Nat /\ q * (n + 3) <= r
  <2>1. r \in Nat /\ n + 3 \in Nat /\ n + 3 > 0
    BY DEF Byte
  <2>2. ASSUME NEW d \in Nat, d > 0
        PROVE  r \div d \in Nat /\ (r \div d) * d <= r
    BY <2>1, <2>2
  <2> QED
    BY <2>1, <2>2
<1>2. n + 3 - m \in Nat /\ m \in Nat /\ n \in Nat
  BY DEF Byte
<1> HIDE DEF q
<1>3. q * (n + 3 - m) \in Nat
  BY <1>1, <1>2
<1>4. q * (n + 3) = q * (n + 3 - m) + q * m
  BY <1>1, <1>2
<1>5. q * m \in Nat
  BY <1>1, <1>2
<1> QED
  BY <1>1, <1>3, <1>4, <1>5 DEF Byte, q

(* What a key sends to an LED is a colour; nothing reaches the circle from  *)
(* a key whose extension has not strayed there.                             *)
LEMMA GlowType ==
  ASSUME TypeOK, NEW k \in Keys, NEW l \in Leds
  PROVE  Glow(k, l) \in Color
<1>1. rgb \in Color /\ numofextend \in Byte /\ NumKeys \in Nat /\ NumLeds \in Nat
  BY LightBarAssumption DEF TypeOK, ColorsType, SpreadType
<1>2. k \in Int /\ l \in Int /\ Reach(k, l) \in Int
  BY <1>1 DEF Reach, Keys, Leds
<1>3. ASSUME Reach(k, l) \in 0..(numofextend - 1)
      PROVE  Share(k, l) \in Color
  <2>1. numofextend - Reach(k, l) \in 1..numofextend
    BY <1>1, <1>2, <1>3 DEF Byte
  <2>2. ASSUME NEW ch \in Channels
        PROVE  (rgb[ch] \div (numofextend + 3)) * (numofextend - Reach(k, l)) \in Byte
    BY <1>1, <2>1, ShareBound DEF Color
  <2> QED
    BY <2>2 DEF Share, Color
<1> QED
  BY <1>1, <1>3, BlackType DEF Glow

(* A fading step takes a byte per channel. *)
LEMMA FadeType ==
  ASSUME TypeOK
  PROVE  Fade \in Color
<1>1. rgb \in Color /\ rm_time \in Byte /\ DivByZero \in Int
  BY LightBarAssumption DEF TypeOK, ColorsType, RemainType
<1>2. ASSUME NEW ch \in Channels
      PROVE  ((IF rm_time = 0 THEN DivByZero ELSE rgb[ch] \div rm_time) + 1) % 256
               \in Byte
  <2>1. rgb[ch] \in Nat /\ rm_time \in Nat
    BY <1>1 DEF Color, Byte
  <2>2. (IF rm_time = 0 THEN DivByZero ELSE rgb[ch] \div rm_time) + 1 \in Int
    BY <1>1, <2>1
  <2> DEFINE x == (IF rm_time = 0 THEN DivByZero ELSE rgb[ch] \div rm_time) + 1
  <2> HIDE DEF x
  <2>3. x \in Int => x % 256 \in 0..255
    OBVIOUS
  <2> QED
    BY <2>2, <2>3 DEF x, Byte
<1> QED
  BY <1>2 DEF Fade, Color

(* A char stays a char. *)
LEMMA CharType ==
  ASSUME NEW x \in Int
  PROVE  ToChar(x) \in Char
BY DEF ToChar, Char

(* A frame painted with a colour is a frame. *)
LEMMA PaintType ==
  ASSUME TypeOK, NEW S, NEW c \in Color
  PROVE  Paint(S, c) \in [Leds -> Color]
BY DEF Paint, TypeOK

-----------------------------------------------------------------------------
(* Commands. *)

(* Each command reads the parameters of one arm of Arity. *)
LEMMA Arities ==
  /\ NumKeys \in Nat /\ NumChannels \in Nat
  /\ Arity(Cmd.color) = NumChannels /\ Arity(Cmd.backOn) = NumChannels
  /\ \A c : Arity(c) \in Nat
<1>1. NumKeys \in Nat /\ NumChannels \in Nat
  BY LightBarAssumption
<1>2. {Cmd.color, Cmd.backOn} \cap {Cmd.bright, Cmd.extendOn, Cmd.remainOn} = {}
  BY <1>1 DEF Cmd
<1> QED
  BY <1>1, <1>2 DEF Arity

(* The parameters of a completed colour command are a colour. *)
LEMMA ParamsType ==
  ASSUME TypeOK, NEW b \in Byte, NEW c \in {Cmd.color, Cmd.backOn},
         Received(c, b)
  PROVE  Params(b) \in Color
<1>1. pend \in Seq(Byte) /\ Len(pend) = NumChannels /\ NumChannels \in Nat
  BY Arities DEF TypeOK, ParserType, Received
<1>2. ASSUME NEW ch \in Channels
      PROVE  Append(pend, b)[ch + 1] \in Byte
  <2>1. ch \in Nat /\ 1 <= ch /\ ch <= NumChannels
    BY <1>1, <1>2 DEF Channels
  <2>2. CASE ch + 1 <= Len(pend)
    <3>1. ch + 1 \in 1..Len(pend)
      BY <1>1, <2>1, <2>2
    <3>2. Append(pend, b)[ch + 1] = pend[ch + 1] /\ pend[ch + 1] \in Byte
      BY <1>1, <3>1
    <3> QED
      BY <3>2
  <2>3. CASE ch + 1 = Len(pend) + 1
    BY <1>1, <2>1, <2>3
  <2> QED
    BY <1>1, <2>1, <2>2, <2>3
<1> QED
  BY <1>2 DEF Params, Message, Color

(* A completed command leaves no part of it behind. *)
LEMMA ReceivedType ==
  ASSUME NEW b, NEW c, Received(c, b)
  PROVE  /\ mode = "loop" /\ pend' = <<>> /\ pend' \in Seq(Byte)
BY DEF Received

(* Collecting a parameter leaves the command still short of one, or whole. *)
LEMMA GatherType ==
  ASSUME TypeOK, NEW b \in Byte, Gather(b)
  PROVE  /\ pend' \in Seq(Byte)
         /\ Len(pend') <= Arity(pend'[1])
<1>1. pend \in Seq(Byte) /\ pend' = Append(pend, b)
  BY DEF TypeOK, ParserType, Gather, Message
<1>2. Len(pend) < Arity(pend'[1]) /\ Arity(pend'[1]) \in Nat
  BY <1>1, Arities DEF Gather, Message
<1>3. pend' \in Seq(Byte) /\ Len(pend') = Len(pend) + 1 /\ Len(pend) \in Nat
  BY <1>1
<1> QED
  BY <1>2, <1>3

-----------------------------------------------------------------------------
(* Type correctness: setup()'s first values have their types. *)
LEMMA InitType == Init => TypeOK
<1> SUFFICES ASSUME Init PROVE TypeOK
  OBVIOUS
<1>1. Black \in Color
  BY BlackType
<1>2. RingLen \in Nat /\ BootBrightness \in Byte
  BY LightBarAssumption
<1>3. 0 \in Byte /\ 0 \in Char
  BY DEF Byte, Char
<1>4. RingType
  <2>1. circle \in 0..RingLen
    BY <1>2 DEF Init
  <2> QED
    BY <2>1 DEF Init, RingType
<1>7. SpreadType
  BY <1>3 DEF Init, SpreadType
<1>0. ParserType
  BY DEF Init, ParserType
<1>5. ColorsType /\ RemainType /\ SwitchType
  BY <1>1, <1>2, <1>3 DEF Init, ColorsType, RemainType, SwitchType
<1>6. leds \in [Leds -> Color]
  BY <1>1 DEF Init
<1> QED
  BY <1>0, <1>4, <1>5, <1>6, <1>7 DEF TypeOK

(* What an action leaves alone keeps its type. *)
LEMMA Kept ==
  ASSUME TypeOK
  PROVE  /\ UNCHANGED ring => RingType'
         /\ UNCHANGED colors => ColorsType'
         /\ UNCHANGED spread => SpreadType'
         /\ UNCHANGED remain => RemainType'
         /\ UNCHANGED <<flag, flagz, rbstatus, on_background>> => SwitchType'
         /\ UNCHANGED leds => (leds \in [Leds -> Color])'
BY DEF TypeOK, ring, colors, spread, remain,
       RingType, ColorsType, SpreadType, RemainType, SwitchType

(* A completed command leaves the parser in its type. *)
LEMMA ParserKept ==
  ASSUME NEW b, NEW c, Received(c, b), mode' \in {"setup", "loop"}
  PROVE  ParserType'
BY DEF Received, ParserType

(* A byte of the line, handled, keeps every type: one case per action. *)
LEMMA TypeStep ==
  ASSUME TypeOK, NEW b \in Byte, Receive(b)
  PROVE  TypeOK'
<1>0. /\ Black \in Color /\ BootColor \in Color /\ FirstColor \in Color
      /\ RainbowColor \in Color /\ BootBrightness \in Byte
      /\ rgb \in Color /\ bgc \in Color /\ leds \in [Leds -> Color]
      /\ RingLen \in Nat \ {0}
  BY BlackType, LightBarAssumption DEF TypeOK, ColorsType
<1>T. ParserType /\ RingType /\ ColorsType /\ SpreadType /\ RemainType /\ SwitchType
  BY DEF TypeOK
<1>1. CASE SetupReset(b)
  <2>1. ParserType'
    BY <1>1, <1>T, ParserKept DEF SetupReset, ParserType
  <2>2. RingType' /\ ColorsType' /\ SpreadType' /\ RemainType' /\ SwitchType'
    BY <1>1, <1>0, <1>T, Kept DEF SetupReset, ring, colors, spread, remain, RingType, ColorsType, SwitchType
  <2>3. (leds \in [Leds -> Color])'
    BY <1>1, <1>0, PaintType DEF SetupReset
  <2> QED
    BY <2>1, <2>2, <2>3 DEF TypeOK
<1>2. CASE SetupWait(b)
  BY <1>2, <1>0, <1>T, Kept DEF SetupWait, vars, parser, ParserType, TypeOK
<1>3. CASE SetupDone(b)
  <2>1. ParserType'
    BY <1>3, <1>T DEF SetupDone, ParserType
  <2>2. RingType' /\ ColorsType' /\ SpreadType' /\ RemainType' /\ SwitchType'
    BY <1>3, <1>0, <1>T, Kept DEF SetupDone, ring, colors, spread, remain, ColorsType, SwitchType
  <2>3. (leds \in [Leds -> Color])'
    BY <1>3, <1>0, PaintType DEF SetupDone
  <2> QED
    BY <2>1, <2>2, <2>3 DEF TypeOK
<1>4. CASE Gather(b)
  <2>1. ParserType'
    BY <1>4, <1>T, GatherType DEF Gather, ParserType
  <2>2. RingType' /\ ColorsType' /\ SpreadType' /\ RemainType' /\ SwitchType'
    BY <1>4, <1>0, <1>T, Kept DEF Gather, ring, colors, spread, remain, SwitchType
  <2>3. (leds \in [Leds -> Color])'
    BY <1>4, <1>0 DEF Gather
  <2> QED
    BY <2>1, <2>2, <2>3 DEF TypeOK
<1>5. CASE ClearAll(b)
  <2>1. ParserType'
    BY <1>5, <1>T, ParserKept DEF ClearAll, ParserType
  <2>2. RingType' /\ ColorsType' /\ SpreadType' /\ RemainType' /\ SwitchType'
    BY <1>5, <1>0, <1>T, Kept DEF ClearAll, ring, colors, spread, remain, RingType, SwitchType
  <2>3. (leds \in [Leds -> Color])'
    BY <1>5, <1>0 DEF ClearAll
  <2> QED
    BY <2>1, <2>2, <2>3 DEF TypeOK
<1>6. CASE CircleOff(b)
  <2>0. 0 \in 0..RingLen
    BY <1>0
  <2>1. ParserType'
    BY <1>6, <1>T, ParserKept DEF CircleOff, ParserType
  <2>2. RingType'
    BY <1>6, <2>0, <1>T DEF CircleOff, RingType
  <2>3. ColorsType' /\ SpreadType' /\ RemainType' /\ SwitchType'
    BY <1>6, <1>T, Kept DEF CircleOff, SwitchType
  <2>4. (leds \in [Leds -> Color])'
    BY <1>6, <1>0, PaintType DEF CircleOff
  <2> QED
    BY <2>1, <2>2, <2>3, <2>4 DEF TypeOK
<1>7. CASE CircleOn(b)
  <2>1. ParserType'
    BY <1>7, <1>T, ParserKept DEF CircleOn, ParserType
  <2>2. RingType' /\ ColorsType' /\ SpreadType' /\ RemainType' /\ SwitchType'
    BY <1>7, <1>0, <1>T, Kept DEF CircleOn, ring, colors, spread, remain, RingType, SwitchType
  <2>3. (leds \in [Leds -> Color])'
    BY <1>7, <1>0 DEF CircleOn
  <2> QED
    BY <2>1, <2>2, <2>3 DEF TypeOK
<1>8. CASE SetColor(b)
  <2>1. ParserType'
    BY <1>8, <1>T, ParserKept DEF SetColor, ParserType
  <2>2. RingType' /\ ColorsType' /\ SpreadType' /\ RemainType' /\ SwitchType'
    BY <1>8, <1>0, <1>T, Kept, ParamsType DEF SetColor, ring, colors, spread, remain, ColorsType, SwitchType
  <2>3. (leds \in [Leds -> Color])'
    BY <1>8, <1>0, PaintType, ParamsType DEF SetColor
  <2> QED
    BY <2>1, <2>2, <2>3 DEF TypeOK
<1>9. CASE EndsOff(b)
  <2>1. ParserType'
    BY <1>9, <1>T, ParserKept DEF EndsOff, ParserType
  <2>2. RingType' /\ ColorsType' /\ SpreadType' /\ RemainType' /\ SwitchType'
    BY <1>9, <1>0, <1>T, Kept DEF EndsOff, ring, colors, spread, remain, SwitchType
  <2>3. (leds \in [Leds -> Color])'
    BY <1>9, <1>0, PaintType DEF EndsOff
  <2> QED
    BY <2>1, <2>2, <2>3 DEF TypeOK
<1>10. CASE EndsOn(b)
  <2>1. ParserType'
    BY <1>10, <1>T, ParserKept DEF EndsOn, ParserType
  <2>2. RingType' /\ ColorsType' /\ SpreadType' /\ RemainType' /\ SwitchType'
    BY <1>10, <1>0, <1>T, Kept DEF EndsOn, ring, colors, spread, remain, SwitchType
  <2>3. (leds \in [Leds -> Color])'
    BY <1>10, <1>0, PaintType DEF EndsOn
  <2> QED
    BY <2>1, <2>2, <2>3 DEF TypeOK
<1>11. CASE SetBrightness(b)
  <2>1. ParserType'
    BY <1>11, <1>T, ParserKept DEF SetBrightness, ParserType
  <2>2. RingType' /\ ColorsType' /\ SpreadType' /\ RemainType' /\ SwitchType'
    BY <1>11, <1>0, <1>T, Kept DEF SetBrightness, ring, colors, spread, remain, ColorsType, SwitchType
  <2>3. (leds \in [Leds -> Color])'
    BY <1>11, <1>0 DEF SetBrightness
  <2> QED
    BY <2>1, <2>2, <2>3 DEF TypeOK
<1>12. CASE ExtendOn(b)
  <2>1. ParserType'
    BY <1>12, <1>T, ParserKept DEF ExtendOn, ParserType
  <2>2. RingType' /\ ColorsType' /\ SpreadType' /\ RemainType' /\ SwitchType'
    BY <1>12, <1>0, <1>T, Kept DEF ExtendOn, ring, colors, spread, remain, SpreadType, SwitchType
  <2>3. (leds \in [Leds -> Color])'
    BY <1>12, <1>0 DEF ExtendOn
  <2> QED
    BY <2>1, <2>2, <2>3 DEF TypeOK
<1>13. CASE ExtendOff(b)
  <2>1. ParserType'
    BY <1>13, <1>T, ParserKept DEF ExtendOff, ParserType
  <2>2. RingType' /\ ColorsType' /\ SpreadType' /\ RemainType' /\ SwitchType'
    BY <1>13, <1>0, <1>T, Kept DEF ExtendOff, ring, colors, spread, remain, SpreadType, SwitchType
  <2>3. (leds \in [Leds -> Color])'
    BY <1>13, <1>0 DEF ExtendOff
  <2> QED
    BY <2>1, <2>2, <2>3 DEF TypeOK
<1>14. CASE RemainOn(b)
  <2>1. ParserType'
    BY <1>14, <1>T, ParserKept DEF RemainOn, ParserType
  <2>2. RingType' /\ ColorsType' /\ SpreadType' /\ RemainType' /\ SwitchType'
    BY <1>14, <1>0, <1>T, Kept DEF RemainOn, ring, colors, spread, remain, RemainType, SwitchType
  <2>3. (leds \in [Leds -> Color])'
    BY <1>14, <1>0 DEF RemainOn
  <2> QED
    BY <2>1, <2>2, <2>3 DEF TypeOK
<1>15. CASE RemainOff(b)
  <2>1. ParserType'
    BY <1>15, <1>T, ParserKept DEF RemainOff, ParserType
  <2>2. RingType' /\ ColorsType' /\ SpreadType' /\ RemainType' /\ SwitchType'
    BY <1>15, <1>0, <1>T, Kept DEF RemainOff, ring, colors, spread, remain, RemainType, SwitchType
  <2>3. (leds \in [Leds -> Color])'
    BY <1>15, <1>0 DEF RemainOff
  <2> QED
    BY <2>1, <2>2, <2>3 DEF TypeOK
<1>16. CASE BackgroundOn(b)
  <2>1. ParserType'
    BY <1>16, <1>T, ParserKept DEF BackgroundOn, ParserType
  <2>2. RingType' /\ ColorsType' /\ SpreadType' /\ RemainType' /\ SwitchType'
    BY <1>16, <1>0, <1>T, Kept, ParamsType DEF BackgroundOn, ring, colors, spread, remain, ColorsType, SwitchType
  <2>3. (leds \in [Leds -> Color])'
    BY <1>16, <1>0, ParamsType, AddSubType DEF BackgroundOn
  <2> QED
    BY <2>1, <2>2, <2>3 DEF TypeOK
<1>17. CASE BackgroundOff(b)
  <2>1. ParserType'
    BY <1>17, <1>T, ParserKept DEF BackgroundOff, ParserType
  <2>2. RingType' /\ ColorsType' /\ SpreadType' /\ RemainType' /\ SwitchType'
    BY <1>17, <1>0, <1>T, Kept DEF BackgroundOff, ring, colors, spread, remain, SwitchType
  <2>3. (leds \in [Leds -> Color])'
    BY <1>17, <1>0, AddSubType DEF BackgroundOff
  <2> QED
    BY <2>1, <2>2, <2>3 DEF TypeOK
<1>18. CASE RainbowFrame(b)
  <2>1. ParserType'
    BY <1>18, <1>T, ParserKept DEF RainbowFrame, ParserType
  <2>2. RingType' /\ ColorsType' /\ SpreadType' /\ RemainType' /\ SwitchType'
    BY <1>18, <1>0, <1>T, Kept DEF RainbowFrame, ring, colors, spread, remain, SwitchType
  <2>3. (leds \in [Leds -> Color])'
    BY <1>18, <1>0, PaintType DEF RainbowFrame
  <2> QED
    BY <2>1, <2>2, <2>3 DEF TypeOK
<1>19. CASE RainbowOff(b)
  <2>1. ParserType'
    BY <1>19, <1>T, ParserKept DEF RainbowOff, ParserType
  <2>2. RingType' /\ ColorsType' /\ SpreadType' /\ RemainType' /\ SwitchType'
    BY <1>19, <1>0, <1>T, Kept DEF RainbowOff, ring, colors, spread, remain, SwitchType
  <2>3. (leds \in [Leds -> Color])'
    BY <1>19, <1>0 DEF RainbowOff
  <2> QED
    BY <2>1, <2>2, <2>3 DEF TypeOK
<1>20. CASE RemainTick(b)
  <2>1. ParserType'
    BY <1>20, <1>T, ParserKept DEF RemainTick, ParserType
  <2>2. RingType' /\ ColorsType' /\ SpreadType' /\ SwitchType'
    BY <1>20, Kept, <1>T DEF RemainTick, SwitchType
  <2>3. RemainType'
    <3>1. ASSUME NEW k \in Keys
          PROVE  (IF rm_times[k] > 0 THEN rm_times[k] - 1 ELSE rm_times[k]) \in Char
      BY <1>T DEF RemainType, Char
    <3>2. rm_times' \in [Keys -> Char]
      BY <3>1, <1>20 DEF RemainTick
    <3> QED
      BY <3>2, <1>20, <1>T DEF RemainTick, RemainType
  <2>4. (leds \in [Leds -> Color])'
    <3>1. ASSUME NEW l \in Leds
          PROVE  Faded(l) \in Color
      BY <1>0, AddSubType, FadeType DEF Faded
    <3> QED
      BY <1>0, <1>20, <3>1 DEF RemainTick
  <2> QED
    BY <2>1, <2>2, <2>3, <2>4 DEF TypeOK
<1>21. CASE Press(b)
  <2>0. b \in Keys /\ Strayed(b) \in SUBSET Int
    BY <1>21, LightBarAssumption DEF Press, Played, Keys, Strayed
  <2>1. ParserType'
    BY <1>21, <1>T, ParserKept DEF Press, ParserType
  <2>2. ColorsType' /\ RemainType'
    BY <1>21, Kept DEF Press
  <2>3. SpreadType'
    BY <1>21, <1>T, <2>0 DEF Press, SpreadType
  <2>4. SwitchType'
    BY <1>21, <1>T DEF Press, SwitchType
  <2>5. RingType'
    <3>1. circle' \in 0..RingLen
      BY <1>0, <1>21, <1>T DEF Press, AtEnd, RingType
    <3>2. re' \in BOOLEAN /\ flagc' \in BOOLEAN
      BY <1>21, <1>T DEF Press, RingType
    <3> QED
      BY <3>1, <3>2 DEF RingType
  <2>6. (leds \in [Leds -> Color])'
    <3>1. [l \in Leds |-> Add(leds[l], Glow(b, l))] \in [Leds -> Color]
      BY <1>0, <2>0, AddSubType, GlowType
    <3>2. [ch \in Channels |-> IF re' THEN 0 ELSE rgb[ch] \div 2] \in Color
      <4>1. ASSUME NEW ch \in Channels
            PROVE  rgb[ch] \div 2 \in Byte /\ 0 \in Byte
        <5>1. rgb[ch] \in Byte
          BY <1>0 DEF Color
        <5> QED
          BY <5>1 DEF Byte
      <4> QED
        BY <4>1 DEF Color
    <3> QED
      BY <1>21, <3>1, <3>2 DEF Press
  <2> QED
    BY <2>1, <2>2, <2>3, <2>4, <2>5, <2>6 DEF TypeOK
<1>22. CASE Release(b)
  <2>0. b \in Keys /\ Strayed(b) \in SUBSET Int
    BY <1>22, LightBarAssumption DEF Release, Played, Keys, Strayed
  <2>1. ParserType'
    BY <1>22, <1>T, ParserKept DEF Release, ParserType
  <2>2. RingType' /\ ColorsType'
    BY <1>22, Kept DEF Release
  <2>3. SpreadType'
    BY <1>22, <1>T, <2>0 DEF Release, SpreadType
  <2>4. SwitchType'
    BY <1>22, <1>T DEF Release, SwitchType
  <2>5. RemainType'
    <3>1. ToChar(rm_times[b] + rm_time) \in Char
      <4>1. rm_times[b] \in Char /\ rm_time \in Byte
        BY <1>T, <2>0 DEF RemainType
      <4>2. rm_times[b] + rm_time \in Int
        BY <4>1 DEF Char, Byte
      <4> QED
        BY <4>2, CharType
    <3> QED
      BY <1>22, <1>T, <3>1 DEF Release, RemainType
  <2>6. (leds \in [Leds -> Color])'
    <3>1. ASSUME NEW l \in Leds
          PROVE  Sub(leds[l], Taken(b, l)) \in Color
      BY <1>0, <2>0, AddSubType, GlowType DEF Taken
    <3> QED
      BY <1>0, <1>22, <3>1 DEF Release
  <2> QED
    BY <2>1, <2>2, <2>3, <2>4, <2>5, <2>6 DEF TypeOK
<1>23. CASE Ignore(b)
  BY <1>23, <1>0, <1>T, Kept DEF Ignore, vars, parser, ParserType, TypeOK
<1> QED
  BY <1>1, <1>2, <1>3, <1>4, <1>5, <1>6, <1>7, <1>8, <1>9, <1>10, <1>11, <1>12,
     <1>13, <1>14, <1>15, <1>16, <1>17, <1>18, <1>19, <1>20, <1>21, <1>22, <1>23
     DEF Receive

(* Every byte sequence, from power on, on any bar: no variable ever leaves  *)
(* its type; in particular the sweep stays inside the circle.               *)
THEOREM TypeCorrect == Spec => []TypeOK
<1>1. ASSUME TypeOK, Next
      PROVE  TypeOK'
  BY <1>1, TypeStep, LightBarAssumption DEF Next
<1>2. ASSUME TypeOK, UNCHANGED vars
      PROVE  TypeOK'
  BY <1>2, Kept DEF vars, parser, ParserType, TypeOK
<1> QED
  BY <1>1, <1>2, InitType, PTL DEF Spec

-----------------------------------------------------------------------------
(* The sweep. *)

(* At the end of the circle the sweep starts over at its first LED. *)
LEMMA WrapToStart ==
  ASSUME NEW n \in Nat, n > 0
  PROVE  n % n = 0
<1>1. n % n \in 0..(n - 1)
  OBVIOUS
<1>2. n = n * (n \div n) + (n % n)
  OBVIOUS
<1>3. n \div n \in Nat
  OBVIOUS
<1>4. n \div n # 0
  BY <1>1, <1>2
<1> DEFINE q == n \div n
<1>5. q >= 1 => n * q >= n
  <2>1. ASSUME NEW m \in Nat, m >= 1 PROVE n * m >= n
    <3>1. n * m = n + n * (m - 1) /\ n * (m - 1) >= 0
      BY <2>1
    <3> QED
      BY <3>1, <2>1
  <2> QED
    BY <1>3, <2>1
<1> QED
  BY <1>1, <1>2, <1>3, <1>4, <1>5

(* Where the sweep is.  Its LEDs are above the bar and the end LEDs. *)
LEMMA RingPlace ==
  ASSUME NEW p \in 1..RingLen
  PROVE  /\ RingBase + p \in Leds
         /\ RingBase + p \notin Ends \cup Bar
         /\ RingBase + p \notin 0..RingBase
BY LightBarAssumption DEF Leds, Ends, Bar

(* A key lights no LED of the circle unless its extension strays there. *)
LEMMA NoGlowOnRing ==
  ASSUME TypeOK, NEW k \in Played, NEW p \in 1..RingLen, Strayed(k) = {}
  PROVE  Glow(k, RingBase + p) = Black
<1> DEFINE l == RingBase + p
<1>1. /\ k \in Int /\ l \in Int /\ numofextend \in Nat
      /\ 2 * k < l /\ l \notin 0..RingBase
  BY LightBarAssumption DEF Played, TypeOK, SpreadType, Byte
<1>2. Reach(k, l) = l - 2 * k - 1 /\ Reach(k, l) >= 0
  BY <1>1 DEF Reach
<1>3. ASSUME extend, Reach(k, l) \in 0..(numofextend - 1)
      PROVE  FALSE
  <2>1. l \in (2 * k - 1 - numofextend)..(2 * k + numofextend)
    BY <1>1, <1>2, <1>3
  <2>2. l \in Strayed(k)
    BY <1>1, <1>2, <1>3, <2>1 DEF Strayed
  <2> QED
    BY <2>2
<1>4. ~(Reach(k, l) < 0) /\ ~(extend /\ Reach(k, l) \in 0..(numofextend - 1))
  BY <1>1, <1>2, <1>3
<1> QED
  BY <1>4 DEF Glow

(* A byte keeps the circle dark behind an erasing sweep. *)
LEMMA SweepStep ==
  ASSUME TypeOK, RingErasesBehind, NEW b \in Byte, Receive(b)
  PROVE  RingErasesBehind'
<1> SUFFICES ASSUME re', stray' = {}, NEW p \in 1..circle'
             PROVE  leds'[RingBase + p] = Black
  BY DEF RingErasesBehind
<1> DEFINE l == RingBase + p
<1> SUFFICES leds'[l] = Black
  OBVIOUS
<1>T. /\ circle \in 0..RingLen /\ RingLen \in Nat \ {0} /\ re \in BOOLEAN
      /\ leds \in [Leds -> Color] /\ rgb \in Color
  BY LightBarAssumption DEF TypeOK, RingType, ColorsType
<1>P. circle' \in 0..RingLen /\ p \in 1..RingLen
  <2>1. circle' \in 0..RingLen
    BY TypeStep DEF TypeOK, RingType
  <2> QED
    BY <2>1, <1>T
<1>L. l \in Leds /\ l \notin Ends /\ l \notin Bar
  BY <1>P, RingPlace
<1>H. re /\ stray = {} /\ p \in 1..circle => leds[l] = Black
  BY DEF RingErasesBehind
<1>S. Black \in Color
  BY BlackType
<1> HIDE DEF l
<1>1. CASE SetupReset(b)
  BY <1>1, <1>T, <1>L, <1>H, <1>S DEF SetupReset, ring, spread, Paint
<1>2. CASE SetupWait(b)
  BY <1>2, <1>L, <1>H DEF SetupWait, vars, ring, spread
<1>3. CASE SetupDone(b)
  BY <1>3, <1>L, <1>H DEF SetupDone, ring, spread, Paint
<1>4. CASE Gather(b)
  BY <1>4, <1>L, <1>H DEF Gather, vars, ring, spread
<1>5. CASE ClearAll(b)
  BY <1>5, <1>L DEF ClearAll
<1>6. CASE CircleOff(b)
  BY <1>6, <1>P DEF CircleOff
<1>7. CASE CircleOn(b)
  BY <1>7 DEF CircleOn
<1>8. CASE SetColor(b)
  BY <1>8, <1>L, <1>H DEF SetColor, ring, spread, Paint
<1>9. CASE EndsOff(b)
  BY <1>9, <1>L, <1>H DEF EndsOff, ring, spread, Paint
<1>10. CASE EndsOn(b)
  BY <1>10, <1>L, <1>H DEF EndsOn, ring, spread, Paint
<1>11. CASE SetBrightness(b)
  BY <1>11, <1>L, <1>H DEF SetBrightness, vars, ring, spread
<1>12. CASE ExtendOn(b)
  BY <1>12, <1>L, <1>H DEF ExtendOn, vars, ring, spread
<1>13. CASE ExtendOff(b)
  BY <1>13, <1>L, <1>H DEF ExtendOff, vars, ring, spread
<1>14. CASE RemainOn(b)
  BY <1>14, <1>L, <1>H DEF RemainOn, vars, ring, spread
<1>15. CASE RemainOff(b)
  BY <1>15, <1>L, <1>H DEF RemainOff, vars, ring, spread
<1>16. CASE BackgroundOn(b)
  BY <1>16, <1>L, <1>H DEF BackgroundOn, ring, spread
<1>17. CASE BackgroundOff(b)
  BY <1>17, <1>L, <1>H DEF BackgroundOff, ring, spread
<1>18. CASE RainbowFrame(b)
  BY <1>18, <1>L, <1>H DEF RainbowFrame, ring, spread, Paint
<1>19. CASE RainbowOff(b)
  BY <1>19, <1>L, <1>H DEF RainbowOff, ring, spread
<1>20. CASE RemainTick(b)
  BY <1>20, <1>L, <1>H DEF RemainTick, ring, spread
<1>21. CASE Press(b)
  <2>1. stray = {} /\ Strayed(b) = {}
    BY <1>21 DEF Press
  <2>2. b \in Played
    BY <1>21 DEF Press
  <2>3. Add(leds[l], Glow(b, l)) = leds[l]
    BY <1>T, <1>L, <1>P, <2>1, <2>2, NoGlowOnRing, AddSubType, BlackType DEF l
  <2>4. CASE flagc /\ circle < RingLen
    <3>0. ~(circle >= RingLen)
      BY <1>T, <2>4
    <3>1. circle' = circle + 1 /\ re
      BY <1>T, <1>21, <2>4, <3>0 DEF Press, AtEnd
    <3>2. CASE p = circle'
      BY <1>T, <1>L, <1>21, <2>4, <3>2 DEF Press, Black, l
    <3>3. CASE p # circle'
      <4>1. p \in 1..circle /\ l # RingBase + circle'
        BY <1>T, <1>P, <3>1, <3>3, LightBarAssumption DEF l
      <4>2. leds'[l] = leds[l]
        BY <1>L, <1>21, <2>3, <2>4, <4>1 DEF Press
      <4> QED
        BY <1>H, <2>1, <3>1, <4>1, <4>2
    <3> QED
      BY <3>2, <3>3
  <2>5. CASE flagc /\ ~(circle < RingLen)
    <3>1. circle = RingLen
      BY <1>T, <2>5
    <3>2. circle % RingLen = 0
      BY <1>T, <3>1, WrapToStart
    <3>3. circle' = 1
      BY <1>T, <1>21, <2>5, <3>1, <3>2 DEF Press, AtEnd
    <3>4. p = circle'
      BY <3>3
    <3> QED
      BY <1>T, <1>L, <1>21, <2>5, <3>4 DEF Press, Black, l
  <2>6. CASE ~flagc
    BY <1>L, <1>H, <1>21, <2>1, <2>3, <2>6 DEF Press
  <2> QED
    BY <2>4, <2>5, <2>6
<1>22. CASE Release(b)
  <2>1. stray = {} /\ Strayed(b) = {} /\ re /\ circle' = circle
    BY <1>22 DEF Release, ring
  <2>2. b \in Played /\ leds[l] = Black
    BY <1>22, <1>H, <2>1 DEF Release
  <2>3. Taken(b, l) = Black
    BY <1>P, <2>1, <2>2, NoGlowOnRing DEF l, Taken
  <2>4. Sub(leds[l], Taken(b, l)) = Black
    BY <1>S, <2>2, <2>3, AddSubType
  <2> QED
    BY <1>L, <1>22, <2>2, <2>4 DEF Release
<1>23. CASE Ignore(b)
  BY <1>23, <1>L, <1>H DEF Ignore, vars, ring, spread
<1> QED
  BY <1>1, <1>2, <1>3, <1>4, <1>5, <1>6, <1>7, <1>8, <1>9, <1>10, <1>11, <1>12,
     <1>13, <1>14, <1>15, <1>16, <1>17, <1>18, <1>19, <1>20, <1>21, <1>22, <1>23
     DEF Receive

(* Whatever the bytes are, an erasing sweep leaves no lit LED behind it,    *)
(* unless an extension has been set so long that it reaches the circle.     *)
THEOREM SweepCorrect == Spec => []RingErasesBehind
<1>1. Init => RingErasesBehind
  BY DEF Init, RingErasesBehind
<1>2. ASSUME TypeOK, RingErasesBehind, Next
      PROVE  RingErasesBehind'
  BY <1>2, SweepStep, LightBarAssumption DEF Next
<1>3. ASSUME RingErasesBehind, UNCHANGED vars
      PROVE  RingErasesBehind'
  BY <1>3 DEF vars, ring, spread, RingErasesBehind
<1> QED
  BY <1>1, <1>2, <1>3, TypeCorrect, PTL DEF Spec

-----------------------------------------------------------------------------
(* The firmware as a function of the bytes it reads. What is on the serial *)
(* line decides where the firmware will be, and a proof about a program    *)
(* that writes to that line follows it there: Step is what one byte makes  *)
(* of the state that bytes decide, Trace what a line makes of it, and      *)
(* Leads says where the line ends. None of it mentions the line, so that   *)
(* it holds for whatever writes to it.                                     *)

(* What the bytes on the line decide: the firmware's state without the LEDs, *)
(* the sweep and the ticks that are left.                                    *)
FwTypes ==
  [mode : {"setup", "loop"}, pend : Seq(Byte), flag : [Keys -> BOOLEAN],
   flagc : BOOLEAN, flagz : BOOLEAN, rgb : Color, bgc : Color, brightness : Byte,
   rbstatus : BOOLEAN, extend : BOOLEAN, numofextend : Byte,
   rm_status : BOOLEAN, rm_time : Byte, on_background : BOOLEAN]

(* A command that has been begun is received by loop(), and is not         *)
(* complete.                                                               *)
FwStates ==
  {x \in FwTypes : x.pend # <<>> => x.mode = "loop" /\ Len(x.pend) <= Arity(x.pend[1])}

(* The state the firmware is in. *)
Firmware ==
  [mode |-> mode, pend |-> pend, flag |-> flag, flagc |-> flagc, flagz |-> flagz,
   rgb |-> rgb, bgc |-> bgc, brightness |-> brightness, rbstatus |-> rbstatus,
   extend |-> extend, numofextend |-> numofextend, rm_status |-> rm_status,
   rm_time |-> rm_time, on_background |-> on_background]

(* No key is down. *)
NoKeys == [k \in Keys |-> FALSE]

(* The colour the message m tells. *)
Told(m) == [ch \in Channels |-> m[ch + 1]]

(* What the handler of the message m makes of x. *)
Handled(x, m) ==
  LET c == m[1]
  IN  [mode |-> IF c = Cmd.reset THEN "setup" ELSE x.mode,
       pend |-> <<>>,
       flag |-> IF c \in {Cmd.reset, Cmd.clear} THEN NoKeys
                ELSE IF c \in Played /\ ~x.rbstatus THEN [x.flag EXCEPT ![c] = ~@]
                ELSE x.flag,
       flagc |-> IF c \in {Cmd.reset, Cmd.circleOn} THEN TRUE
                 ELSE IF c = Cmd.circleOff THEN FALSE ELSE x.flagc,
       flagz |-> IF c \in {Cmd.reset, Cmd.endsOn} THEN TRUE
                 ELSE IF c = Cmd.endsOff THEN FALSE ELSE x.flagz,
       rgb |-> IF c = Cmd.color THEN Told(m) ELSE x.rgb,
       bgc |-> IF c = Cmd.backOn THEN Told(m) ELSE x.bgc,
       brightness |-> IF c = Cmd.reset THEN BootBrightness
                      ELSE IF c = Cmd.bright THEN m[2] ELSE x.brightness,
       rbstatus |-> IF c = Cmd.rainbowOn THEN TRUE
                    ELSE IF c = Cmd.rainbowOff THEN FALSE ELSE x.rbstatus,
       extend |-> IF c = Cmd.extendOn THEN TRUE
                  ELSE IF c = Cmd.extendOff THEN FALSE ELSE x.extend,
       numofextend |-> IF c = Cmd.extendOn THEN m[2] ELSE x.numofextend,
       rm_status |-> IF c = Cmd.remainOn THEN TRUE
                     ELSE IF c = Cmd.remainOff THEN FALSE ELSE x.rm_status,
       rm_time |-> IF c = Cmd.remainOn THEN m[2] ELSE x.rm_time,
       on_background |-> IF c = Cmd.backOn THEN TRUE
                         ELSE IF c = Cmd.backOff THEN FALSE ELSE x.on_background]

(* The end of setup(). *)
Woken(x) ==
  [mode |-> "loop", pend |-> x.pend, flag |-> x.flag, flagc |-> x.flagc,
   flagz |-> x.flagz, rgb |-> FirstColor, bgc |-> x.bgc, brightness |-> x.brightness,
   rbstatus |-> x.rbstatus, extend |-> x.extend, numofextend |-> x.numofextend,
   rm_status |-> x.rm_status, rm_time |-> x.rm_time, on_background |-> x.on_background]

(* What loop() makes of the byte b: it is kept until its command is        *)
(* complete.                                                               *)
Parsed(x, b) ==
  LET m == Append(x.pend, b)
  IN  IF Len(x.pend) < Arity(m[1]) THEN [x EXCEPT !.pend = m] ELSE Handled(x, m)

(* What the byte b makes of x. *)
Step(x, b) ==
  IF x.mode = "loop" THEN Parsed(x, b) ELSE IF b = Cmd.wake THEN Woken(x) ELSE x

(* The codes of the commands follow the numbers of the keys. *)
LEMMA Codes ==
  /\ NumKeys \in Nat \ {0} /\ NumChannels \in Nat \ {0}
  /\ Cmd.clear = NumKeys /\ Cmd.color = NumKeys + 1 /\ Cmd.circleOff = NumKeys + 2
  /\ Cmd.circleOn = NumKeys + 3 /\ Cmd.endsOn = NumKeys + 4 /\ Cmd.bright = NumKeys + 5
  /\ Cmd.rainbowOn = NumKeys + 6 /\ Cmd.rainbowOff = NumKeys + 7
  /\ Cmd.extendOn = NumKeys + 8 /\ Cmd.endsOff = NumKeys + 9
  /\ Cmd.remainOn = NumKeys + 10 /\ Cmd.remainOff = NumKeys + 11
  /\ Cmd.tick = NumKeys + 12 /\ Cmd.extendOff = NumKeys + 13
  /\ Cmd.backOn = NumKeys + 14 /\ Cmd.backOff = NumKeys + 15
  /\ Cmd.reset = NumKeys + 37 /\ Cmd.wake = NumKeys + 39
BY LightBarAssumption DEF Cmd

(* The messages with a parameter. *)
LEMMA ArityIs ==
  ASSUME NEW c \in Int
  PROVE  /\ c \in {Cmd.color, Cmd.backOn} => Arity(c) = NumChannels
         /\ c \in {Cmd.bright, Cmd.extendOn, Cmd.remainOn} => Arity(c) = 1
         /\ c \notin {Cmd.color, Cmd.backOn, Cmd.bright, Cmd.extendOn, Cmd.remainOn}
              => Arity(c) = 0
         /\ Arity(c) \in Nat
<1>1. c \in {Cmd.color, Cmd.backOn} => c \notin {Cmd.bright, Cmd.extendOn, Cmd.remainOn}
  BY Codes
<1> QED
  BY <1>1, Codes DEF Arity

(* The state the firmware is in has its type. *)
LEMMA FirmwareTyped ==
  ASSUME TypeOK
  PROVE  Firmware \in FwStates
<1>1. Firmware \in FwTypes
  BY DEF TypeOK, ParserType, RingType, ColorsType, SpreadType, RemainType, SwitchType,
         Firmware, FwTypes
<1>2. Firmware.pend = pend /\ Firmware.mode = mode
  BY DEF Firmware
<1> QED
  BY <1>1, <1>2 DEF TypeOK, ParserType, FwStates

(* No two commands have the same code, and none has the number of a key    *)
(* that lights LEDs.                                                       *)
LEMMA Distinct ==
  ASSUME NEW c \in Int
  PROVE  /\ c \in Played => 2 <= c /\ c < Cmd.clear
         /\ c = Cmd.clear => /\ c \notin Played
                         /\ c # Cmd.color /\ c # Cmd.circleOff /\ c # Cmd.circleOn /\ c # Cmd.endsOn
                         /\ c # Cmd.bright /\ c # Cmd.rainbowOn /\ c # Cmd.rainbowOff /\ c # Cmd.extendOn
                         /\ c # Cmd.endsOff /\ c # Cmd.remainOn /\ c # Cmd.remainOff /\ c # Cmd.tick
                         /\ c # Cmd.extendOff /\ c # Cmd.backOn /\ c # Cmd.backOff /\ c # Cmd.reset
                         /\ c # Cmd.wake
         /\ c = Cmd.color => /\ c \notin Played
                         /\ c # Cmd.clear /\ c # Cmd.circleOff /\ c # Cmd.circleOn /\ c # Cmd.endsOn
                         /\ c # Cmd.bright /\ c # Cmd.rainbowOn /\ c # Cmd.rainbowOff /\ c # Cmd.extendOn
                         /\ c # Cmd.endsOff /\ c # Cmd.remainOn /\ c # Cmd.remainOff /\ c # Cmd.tick
                         /\ c # Cmd.extendOff /\ c # Cmd.backOn /\ c # Cmd.backOff /\ c # Cmd.reset
                         /\ c # Cmd.wake
         /\ c = Cmd.circleOff => /\ c \notin Played
                         /\ c # Cmd.clear /\ c # Cmd.color /\ c # Cmd.circleOn /\ c # Cmd.endsOn
                         /\ c # Cmd.bright /\ c # Cmd.rainbowOn /\ c # Cmd.rainbowOff /\ c # Cmd.extendOn
                         /\ c # Cmd.endsOff /\ c # Cmd.remainOn /\ c # Cmd.remainOff /\ c # Cmd.tick
                         /\ c # Cmd.extendOff /\ c # Cmd.backOn /\ c # Cmd.backOff /\ c # Cmd.reset
                         /\ c # Cmd.wake
         /\ c = Cmd.circleOn => /\ c \notin Played
                         /\ c # Cmd.clear /\ c # Cmd.color /\ c # Cmd.circleOff /\ c # Cmd.endsOn
                         /\ c # Cmd.bright /\ c # Cmd.rainbowOn /\ c # Cmd.rainbowOff /\ c # Cmd.extendOn
                         /\ c # Cmd.endsOff /\ c # Cmd.remainOn /\ c # Cmd.remainOff /\ c # Cmd.tick
                         /\ c # Cmd.extendOff /\ c # Cmd.backOn /\ c # Cmd.backOff /\ c # Cmd.reset
                         /\ c # Cmd.wake
         /\ c = Cmd.endsOn => /\ c \notin Played
                         /\ c # Cmd.clear /\ c # Cmd.color /\ c # Cmd.circleOff /\ c # Cmd.circleOn
                         /\ c # Cmd.bright /\ c # Cmd.rainbowOn /\ c # Cmd.rainbowOff /\ c # Cmd.extendOn
                         /\ c # Cmd.endsOff /\ c # Cmd.remainOn /\ c # Cmd.remainOff /\ c # Cmd.tick
                         /\ c # Cmd.extendOff /\ c # Cmd.backOn /\ c # Cmd.backOff /\ c # Cmd.reset
                         /\ c # Cmd.wake
         /\ c = Cmd.bright => /\ c \notin Played
                         /\ c # Cmd.clear /\ c # Cmd.color /\ c # Cmd.circleOff /\ c # Cmd.circleOn
                         /\ c # Cmd.endsOn /\ c # Cmd.rainbowOn /\ c # Cmd.rainbowOff /\ c # Cmd.extendOn
                         /\ c # Cmd.endsOff /\ c # Cmd.remainOn /\ c # Cmd.remainOff /\ c # Cmd.tick
                         /\ c # Cmd.extendOff /\ c # Cmd.backOn /\ c # Cmd.backOff /\ c # Cmd.reset
                         /\ c # Cmd.wake
         /\ c = Cmd.rainbowOn => /\ c \notin Played
                         /\ c # Cmd.clear /\ c # Cmd.color /\ c # Cmd.circleOff /\ c # Cmd.circleOn
                         /\ c # Cmd.endsOn /\ c # Cmd.bright /\ c # Cmd.rainbowOff /\ c # Cmd.extendOn
                         /\ c # Cmd.endsOff /\ c # Cmd.remainOn /\ c # Cmd.remainOff /\ c # Cmd.tick
                         /\ c # Cmd.extendOff /\ c # Cmd.backOn /\ c # Cmd.backOff /\ c # Cmd.reset
                         /\ c # Cmd.wake
         /\ c = Cmd.rainbowOff => /\ c \notin Played
                         /\ c # Cmd.clear /\ c # Cmd.color /\ c # Cmd.circleOff /\ c # Cmd.circleOn
                         /\ c # Cmd.endsOn /\ c # Cmd.bright /\ c # Cmd.rainbowOn /\ c # Cmd.extendOn
                         /\ c # Cmd.endsOff /\ c # Cmd.remainOn /\ c # Cmd.remainOff /\ c # Cmd.tick
                         /\ c # Cmd.extendOff /\ c # Cmd.backOn /\ c # Cmd.backOff /\ c # Cmd.reset
                         /\ c # Cmd.wake
         /\ c = Cmd.extendOn => /\ c \notin Played
                         /\ c # Cmd.clear /\ c # Cmd.color /\ c # Cmd.circleOff /\ c # Cmd.circleOn
                         /\ c # Cmd.endsOn /\ c # Cmd.bright /\ c # Cmd.rainbowOn /\ c # Cmd.rainbowOff
                         /\ c # Cmd.endsOff /\ c # Cmd.remainOn /\ c # Cmd.remainOff /\ c # Cmd.tick
                         /\ c # Cmd.extendOff /\ c # Cmd.backOn /\ c # Cmd.backOff /\ c # Cmd.reset
                         /\ c # Cmd.wake
         /\ c = Cmd.endsOff => /\ c \notin Played
                         /\ c # Cmd.clear /\ c # Cmd.color /\ c # Cmd.circleOff /\ c # Cmd.circleOn
                         /\ c # Cmd.endsOn /\ c # Cmd.bright /\ c # Cmd.rainbowOn /\ c # Cmd.rainbowOff
                         /\ c # Cmd.extendOn /\ c # Cmd.remainOn /\ c # Cmd.remainOff /\ c # Cmd.tick
                         /\ c # Cmd.extendOff /\ c # Cmd.backOn /\ c # Cmd.backOff /\ c # Cmd.reset
                         /\ c # Cmd.wake
         /\ c = Cmd.remainOn => /\ c \notin Played
                         /\ c # Cmd.clear /\ c # Cmd.color /\ c # Cmd.circleOff /\ c # Cmd.circleOn
                         /\ c # Cmd.endsOn /\ c # Cmd.bright /\ c # Cmd.rainbowOn /\ c # Cmd.rainbowOff
                         /\ c # Cmd.extendOn /\ c # Cmd.endsOff /\ c # Cmd.remainOff /\ c # Cmd.tick
                         /\ c # Cmd.extendOff /\ c # Cmd.backOn /\ c # Cmd.backOff /\ c # Cmd.reset
                         /\ c # Cmd.wake
         /\ c = Cmd.remainOff => /\ c \notin Played
                         /\ c # Cmd.clear /\ c # Cmd.color /\ c # Cmd.circleOff /\ c # Cmd.circleOn
                         /\ c # Cmd.endsOn /\ c # Cmd.bright /\ c # Cmd.rainbowOn /\ c # Cmd.rainbowOff
                         /\ c # Cmd.extendOn /\ c # Cmd.endsOff /\ c # Cmd.remainOn /\ c # Cmd.tick
                         /\ c # Cmd.extendOff /\ c # Cmd.backOn /\ c # Cmd.backOff /\ c # Cmd.reset
                         /\ c # Cmd.wake
         /\ c = Cmd.tick => /\ c \notin Played
                         /\ c # Cmd.clear /\ c # Cmd.color /\ c # Cmd.circleOff /\ c # Cmd.circleOn
                         /\ c # Cmd.endsOn /\ c # Cmd.bright /\ c # Cmd.rainbowOn /\ c # Cmd.rainbowOff
                         /\ c # Cmd.extendOn /\ c # Cmd.endsOff /\ c # Cmd.remainOn /\ c # Cmd.remainOff
                         /\ c # Cmd.extendOff /\ c # Cmd.backOn /\ c # Cmd.backOff /\ c # Cmd.reset
                         /\ c # Cmd.wake
         /\ c = Cmd.extendOff => /\ c \notin Played
                         /\ c # Cmd.clear /\ c # Cmd.color /\ c # Cmd.circleOff /\ c # Cmd.circleOn
                         /\ c # Cmd.endsOn /\ c # Cmd.bright /\ c # Cmd.rainbowOn /\ c # Cmd.rainbowOff
                         /\ c # Cmd.extendOn /\ c # Cmd.endsOff /\ c # Cmd.remainOn /\ c # Cmd.remainOff
                         /\ c # Cmd.tick /\ c # Cmd.backOn /\ c # Cmd.backOff /\ c # Cmd.reset
                         /\ c # Cmd.wake
         /\ c = Cmd.backOn => /\ c \notin Played
                         /\ c # Cmd.clear /\ c # Cmd.color /\ c # Cmd.circleOff /\ c # Cmd.circleOn
                         /\ c # Cmd.endsOn /\ c # Cmd.bright /\ c # Cmd.rainbowOn /\ c # Cmd.rainbowOff
                         /\ c # Cmd.extendOn /\ c # Cmd.endsOff /\ c # Cmd.remainOn /\ c # Cmd.remainOff
                         /\ c # Cmd.tick /\ c # Cmd.extendOff /\ c # Cmd.backOff /\ c # Cmd.reset
                         /\ c # Cmd.wake
         /\ c = Cmd.backOff => /\ c \notin Played
                         /\ c # Cmd.clear /\ c # Cmd.color /\ c # Cmd.circleOff /\ c # Cmd.circleOn
                         /\ c # Cmd.endsOn /\ c # Cmd.bright /\ c # Cmd.rainbowOn /\ c # Cmd.rainbowOff
                         /\ c # Cmd.extendOn /\ c # Cmd.endsOff /\ c # Cmd.remainOn /\ c # Cmd.remainOff
                         /\ c # Cmd.tick /\ c # Cmd.extendOff /\ c # Cmd.backOn /\ c # Cmd.reset
                         /\ c # Cmd.wake
         /\ c = Cmd.reset => /\ c \notin Played
                         /\ c # Cmd.clear /\ c # Cmd.color /\ c # Cmd.circleOff /\ c # Cmd.circleOn
                         /\ c # Cmd.endsOn /\ c # Cmd.bright /\ c # Cmd.rainbowOn /\ c # Cmd.rainbowOff
                         /\ c # Cmd.extendOn /\ c # Cmd.endsOff /\ c # Cmd.remainOn /\ c # Cmd.remainOff
                         /\ c # Cmd.tick /\ c # Cmd.extendOff /\ c # Cmd.backOn /\ c # Cmd.backOff
                         /\ c # Cmd.wake
         /\ c = Cmd.wake => /\ c \notin Played
                         /\ c # Cmd.clear /\ c # Cmd.color /\ c # Cmd.circleOff /\ c # Cmd.circleOn
                         /\ c # Cmd.endsOn /\ c # Cmd.bright /\ c # Cmd.rainbowOn /\ c # Cmd.rainbowOff
                         /\ c # Cmd.extendOn /\ c # Cmd.endsOff /\ c # Cmd.remainOn /\ c # Cmd.remainOff
                         /\ c # Cmd.tick /\ c # Cmd.extendOff /\ c # Cmd.backOn /\ c # Cmd.backOff
                         /\ c # Cmd.reset
BY Codes, SMTT(40) DEF Played

(* The states x and y agree but for the fields F. *)
Same(x, y, F) ==
  /\ "mode" \in F \/ y.mode = x.mode
  /\ "pend" \in F \/ y.pend = x.pend
  /\ "flag" \in F \/ y.flag = x.flag
  /\ "flagc" \in F \/ y.flagc = x.flagc
  /\ "flagz" \in F \/ y.flagz = x.flagz
  /\ "rgb" \in F \/ y.rgb = x.rgb
  /\ "bgc" \in F \/ y.bgc = x.bgc
  /\ "brightness" \in F \/ y.brightness = x.brightness
  /\ "rbstatus" \in F \/ y.rbstatus = x.rbstatus
  /\ "extend" \in F \/ y.extend = x.extend
  /\ "numofextend" \in F \/ y.numofextend = x.numofextend
  /\ "rm_status" \in F \/ y.rm_status = x.rm_status
  /\ "rm_time" \in F \/ y.rm_time = x.rm_time
  /\ "on_background" \in F \/ y.on_background = x.on_background

(* The outcome h of the message m, for each command. *)
Outcome(x, m, h) ==
  /\ h.pend = <<>>
  /\ m[1] = Cmd.reset =>
       /\ Same(x, h, {"pend", "mode", "flag", "flagc", "flagz", "brightness"})
       /\ h.mode = "setup" /\ h.flag = NoKeys /\ h.flagc = TRUE /\ h.flagz = TRUE
       /\ h.brightness = BootBrightness
  /\ m[1] = Cmd.clear =>
       /\ Same(x, h, {"pend", "flag"}) /\ h.flag = NoKeys
  /\ m[1] = Cmd.color =>
       /\ Same(x, h, {"pend", "rgb"}) /\ h.rgb = Told(m)
  /\ m[1] = Cmd.circleOff =>
       /\ Same(x, h, {"pend", "flagc"}) /\ h.flagc = FALSE
  /\ m[1] = Cmd.circleOn =>
       /\ Same(x, h, {"pend", "flagc"}) /\ h.flagc = TRUE
  /\ m[1] = Cmd.endsOff =>
       /\ Same(x, h, {"pend", "flagz"}) /\ h.flagz = FALSE
  /\ m[1] = Cmd.endsOn =>
       /\ Same(x, h, {"pend", "flagz"}) /\ h.flagz = TRUE
  /\ m[1] = Cmd.bright =>
       /\ Same(x, h, {"pend", "brightness"}) /\ h.brightness = m[2]
  /\ m[1] = Cmd.rainbowOn =>
       /\ Same(x, h, {"pend", "rbstatus"}) /\ h.rbstatus = TRUE
  /\ m[1] = Cmd.rainbowOff =>
       /\ Same(x, h, {"pend", "rbstatus"}) /\ h.rbstatus = FALSE
  /\ m[1] = Cmd.extendOn =>
       /\ Same(x, h, {"pend", "extend", "numofextend"}) /\ h.extend = TRUE
       /\ h.numofextend = m[2]
  /\ m[1] = Cmd.extendOff =>
       /\ Same(x, h, {"pend", "extend"}) /\ h.extend = FALSE
  /\ m[1] = Cmd.remainOn =>
       /\ Same(x, h, {"pend", "rm_status", "rm_time"}) /\ h.rm_status = TRUE
       /\ h.rm_time = m[2]
  /\ m[1] = Cmd.remainOff =>
       /\ Same(x, h, {"pend", "rm_status"}) /\ h.rm_status = FALSE
  /\ m[1] = Cmd.backOn =>
       /\ Same(x, h, {"pend", "on_background", "bgc"}) /\ h.on_background = TRUE
       /\ h.bgc = Told(m)
  /\ m[1] = Cmd.backOff =>
       /\ Same(x, h, {"pend", "on_background"}) /\ h.on_background = FALSE
  /\ m[1] \in Played => /\ Same(x, h, {"pend", "flag"})
                       /\ h.flag = IF x.rbstatus THEN x.flag ELSE [x.flag EXCEPT ![m[1]] = ~@]
  /\ m[1] \notin Returning \cup Played \cup {Cmd.rainbowOn, Cmd.rainbowOff} => Same(x, h, {"pend"})

(* A handler changes the fields of its command and nothing else. *)
LEMMA Effects ==
  ASSUME NEW x, NEW m, m[1] \in Int
  PROVE  Outcome(x, m, Handled(x, m))
<1> DEFINE h == Handled(x, m)
<1>0. m[1] = Cmd.reset => Same(x, h, {"pend", "mode", "flag", "flagc", "flagz", "brightness"}) /\ h.mode = "setup" /\ h.flag = NoKeys /\ h.flagc = TRUE /\ h.flagz = TRUE /\ h.brightness = BootBrightness
  BY Distinct, ZenonT(60) DEF Handled, Same
<1>1. m[1] = Cmd.clear => Same(x, h, {"pend", "flag"}) /\ h.flag = NoKeys
  BY Distinct, ZenonT(60) DEF Handled, Same
<1>2. m[1] = Cmd.color => Same(x, h, {"pend", "rgb"}) /\ h.rgb = Told(m)
  BY Distinct, ZenonT(60) DEF Handled, Same
<1>3. m[1] = Cmd.circleOff => Same(x, h, {"pend", "flagc"}) /\ h.flagc = FALSE
  BY Distinct, ZenonT(60) DEF Handled, Same
<1>4. m[1] = Cmd.circleOn => Same(x, h, {"pend", "flagc"}) /\ h.flagc = TRUE
  BY Distinct, ZenonT(60) DEF Handled, Same
<1>5. m[1] = Cmd.endsOff => Same(x, h, {"pend", "flagz"}) /\ h.flagz = FALSE
  BY Distinct, ZenonT(60) DEF Handled, Same
<1>6. m[1] = Cmd.endsOn => Same(x, h, {"pend", "flagz"}) /\ h.flagz = TRUE
  BY Distinct, ZenonT(60) DEF Handled, Same
<1>7. m[1] = Cmd.bright => Same(x, h, {"pend", "brightness"}) /\ h.brightness = m[2]
  BY Distinct, ZenonT(60) DEF Handled, Same
<1>8. m[1] = Cmd.rainbowOn => Same(x, h, {"pend", "rbstatus"}) /\ h.rbstatus = TRUE
  BY Distinct, ZenonT(60) DEF Handled, Same
<1>9. m[1] = Cmd.rainbowOff => Same(x, h, {"pend", "rbstatus"}) /\ h.rbstatus = FALSE
  BY Distinct, ZenonT(60) DEF Handled, Same
<1>10. m[1] = Cmd.extendOn => Same(x, h, {"pend", "extend", "numofextend"}) /\ h.extend = TRUE /\ h.numofextend = m[2]
  BY Distinct, ZenonT(60) DEF Handled, Same
<1>11. m[1] = Cmd.extendOff => Same(x, h, {"pend", "extend"}) /\ h.extend = FALSE
  BY Distinct, ZenonT(60) DEF Handled, Same
<1>12. m[1] = Cmd.remainOn => Same(x, h, {"pend", "rm_status", "rm_time"}) /\ h.rm_status = TRUE /\ h.rm_time = m[2]
  BY Distinct, ZenonT(60) DEF Handled, Same
<1>13. m[1] = Cmd.remainOff => Same(x, h, {"pend", "rm_status"}) /\ h.rm_status = FALSE
  BY Distinct, ZenonT(60) DEF Handled, Same
<1>14. m[1] = Cmd.backOn => Same(x, h, {"pend", "on_background", "bgc"}) /\ h.on_background = TRUE /\ h.bgc = Told(m)
  BY Distinct, ZenonT(60) DEF Handled, Same
<1>15. m[1] = Cmd.backOff => Same(x, h, {"pend", "on_background"}) /\ h.on_background = FALSE
  BY Distinct, ZenonT(60) DEF Handled, Same
<1>16. m[1] \in Played => /\ Same(x, h, {"pend", "flag"})
                            /\ h.flag = IF x.rbstatus THEN x.flag ELSE [x.flag EXCEPT ![m[1]] = ~@]
  BY Distinct, ZenonT(60) DEF Handled, Same
<1>17. m[1] \notin Returning \cup Played \cup {Cmd.rainbowOn, Cmd.rainbowOff} => Same(x, h, {"pend"})
  BY Distinct DEF Handled, Same, Returning
<1> QED
  BY <1>0, <1>1, <1>2, <1>3, <1>4, <1>5, <1>6, <1>7, <1>8, <1>9, <1>10, <1>11, <1>12, <1>13, <1>14, <1>15, <1>16, <1>17, ZenonT(60) DEF Handled, Outcome

(* The firmware's state is what the handler makes of it. *)
LEMMA FirmwareIs ==
  ASSUME NEW x, NEW m, NEW h, h = Handled(x, m),
         /\ mode' = h.mode /\ pend' = h.pend /\ flag' = h.flag /\ flagc' = h.flagc
         /\ flagz' = h.flagz /\ rgb' = h.rgb /\ bgc' = h.bgc /\ brightness' = h.brightness
         /\ rbstatus' = h.rbstatus /\ extend' = h.extend /\ numofextend' = h.numofextend
         /\ rm_status' = h.rm_status /\ rm_time' = h.rm_time
         /\ on_background' = h.on_background
  PROVE  Firmware' = h
<1>1. h = [mode |-> h.mode, pend |-> h.pend, flag |-> h.flag, flagc |-> h.flagc,
           flagz |-> h.flagz, rgb |-> h.rgb, bgc |-> h.bgc, brightness |-> h.brightness,
           rbstatus |-> h.rbstatus, extend |-> h.extend, numofextend |-> h.numofextend,
           rm_status |-> h.rm_status, rm_time |-> h.rm_time,
           on_background |-> h.on_background]
  BY DEF Handled
<1> QED
  BY <1>1 DEF Firmware

(* Every byte the firmware reads, in whatever state, is a step of the      *)
(* function Step.                                                          *)
LEMMA ReceiveIs ==
  ASSUME TypeOK, NEW b \in Byte, Receive(b)
  PROVE  Firmware' = Step(Firmware, b)
<1> DEFINE m == Append(pend, b)
           h == Handled(Firmware, m)
<1>T. /\ pend \in Seq(Byte) /\ mode \in {"setup", "loop"}
      /\ (mode = "setup" => pend = <<>>)
  BY DEF TypeOK, ParserType
<1>F. /\ Firmware.mode = mode /\ Firmware.pend = pend /\ Firmware.flag = flag
      /\ Firmware.flagc = flagc /\ Firmware.flagz = flagz /\ Firmware.rgb = rgb
      /\ Firmware.bgc = bgc /\ Firmware.brightness = brightness
      /\ Firmware.rbstatus = rbstatus /\ Firmware.extend = extend
      /\ Firmware.numofextend = numofextend /\ Firmware.rm_status = rm_status
      /\ Firmware.rm_time = rm_time /\ Firmware.on_background = on_background
  BY DEF Firmware
<1>F2. /\ Firmware'.mode = mode' /\ Firmware'.flag = flag'
       /\ Firmware'.flagc = flagc' /\ Firmware'.flagz = flagz' /\ Firmware'.rgb = rgb'
       /\ Firmware'.bgc = bgc' /\ Firmware'.brightness = brightness'
       /\ Firmware'.rbstatus = rbstatus' /\ Firmware'.extend = extend'
       /\ Firmware'.numofextend = numofextend' /\ Firmware'.rm_status = rm_status'
       /\ Firmware'.rm_time = rm_time' /\ Firmware'.on_background = on_background'
  BY DEF Firmware
<1>B. b \in Int /\ m[1] \in Int /\ m = Message(b)
  <2>1. m \in Seq(Byte) /\ Len(m) = Len(pend) + 1 /\ Len(pend) \in Nat
    BY <1>T, AppendProperties
  <2>2. m = Message(b) /\ b \in Int
    BY DEF Byte, Message
  <2> HIDE DEF m
  <2>3. m[1] \in Byte
    BY <2>1, ElementOfSeq
  <2> QED
    BY <2>2, <2>3 DEF Byte
<1>M. pend = <<>> => m = <<b>>
  OBVIOUS
<1>R. ASSUME NEW c \in Int, Received(c, b)
      PROVE  /\ mode = "loop" /\ m[1] = c /\ pend' = <<>> /\ Len(pend) = Arity(c)
             /\ Step(Firmware, b) = Handled(Firmware, m)
  <2>1. mode = "loop" /\ m[1] = c /\ Len(pend) = Arity(c) /\ pend' = <<>>
    BY <1>B, <1>R DEF Received
  <2>2. ~(Len(pend) < Arity(c))
    BY <2>1, ArityIs
  <2> QED
    BY <1>F, <2>1, <2>2 DEF Step, Parsed
<1>P. ASSUME NEW c \in Int, Received(c, b), Arity(c) = 1 PROVE m[2] = b
  <2>1. Len(pend) = 1
    BY <1>R, <1>P
  <2>2. m[Len(pend) + 1] = b
    BY <1>T, AppendProperties
  <2>3. Len(pend) + 1 = 2
    BY <2>1
  <2> QED
    BY <2>2, <2>3
<1>A. Arity(Cmd.bright) = 1 /\ Arity(Cmd.extendOn) = 1 /\ Arity(Cmd.remainOn) = 1
  <2>1. Cmd.bright \in Int /\ Cmd.extendOn \in Int /\ Cmd.remainOn \in Int
    BY Codes
  <2> QED
    BY <2>1, ArityIs
<1>E. ASSUME NEW c \in Int, Received(c, b), Same(Firmware', h, {"pend"})
      PROVE  Firmware' = Step(Firmware, b)
  <2>1. pend' = h.pend /\ Step(Firmware, b) = h
    BY <1>E, <1>R DEF Handled
  <2>2. h = Handled(Firmware, m)
    OBVIOUS
  <2> HIDE DEF h
  <2> QED
    BY <1>E, <1>F2, <2>1, <2>2, FirmwareIs DEF Same
<1> HIDE DEF h, m
<1>G. h = Handled(Firmware, m) /\ m = Append(pend, b)
  BY DEF h, m
<1>O. Outcome(Firmware, m, h)
  BY <1>B, <1>G, Effects
<1>0. CASE SetupReset(b)
  <2>1. Received(Cmd.reset, b) /\ Cmd.reset \in Int
    BY <1>0, Codes DEF SetupReset
  <2>2. m[1] = Cmd.reset /\ mode = "loop"
    BY <1>R, <2>1
  <2>3. /\ Same(Firmware, h, {"pend", "mode", "flag", "flagc", "flagz", "brightness"})
        /\ h.mode = "setup" /\ h.flag = NoKeys /\ h.flagc = TRUE /\ h.flagz = TRUE
        /\ h.brightness = BootBrightness
    BY <1>O, <2>2 DEF Outcome
  <2>4. /\ mode' = "setup" /\ flag' = NoKeys /\ flagc' = TRUE /\ flagz' = TRUE
        /\ brightness' = BootBrightness
        /\ UNCHANGED <<rgb, bgc, rbstatus, extend, numofextend, rm_status, rm_time, on_background>>
    BY <1>0, <1>B, <2>2 DEF SetupReset, spread, remain, NoKeys
  <2>5. Same(Firmware', h, {"pend"})
    BY <1>F, <1>F2, <2>3, <2>4 DEF Same
  <2> QED
    BY <1>E, <2>1, <2>5
<1>1. CASE ClearAll(b)
  <2>1. Received(Cmd.clear, b) /\ Cmd.clear \in Int
    BY <1>1, Codes DEF ClearAll
  <2>2. m[1] = Cmd.clear /\ mode = "loop"
    BY <1>R, <2>1
  <2>3. /\ Same(Firmware, h, {"pend", "flag"})
        /\ h.flag = NoKeys
    BY <1>O, <2>2 DEF Outcome
  <2>4. /\ flag' = NoKeys
        /\ UNCHANGED <<mode, flagc, flagz, rgb, bgc, brightness, rbstatus, extend, numofextend, rm_status, rm_time, on_background>>
    BY <1>1, <1>B, <2>2 DEF ClearAll, colors, spread, remain, NoKeys
  <2>5. Same(Firmware', h, {"pend"})
    BY <1>F, <1>F2, <2>3, <2>4 DEF Same
  <2> QED
    BY <1>E, <2>1, <2>5
<1>2. CASE CircleOff(b)
  <2>1. Received(Cmd.circleOff, b) /\ Cmd.circleOff \in Int
    BY <1>2, Codes DEF CircleOff
  <2>2. m[1] = Cmd.circleOff /\ mode = "loop"
    BY <1>R, <2>1
  <2>3. /\ Same(Firmware, h, {"pend", "flagc"})
        /\ h.flagc = FALSE
    BY <1>O, <2>2 DEF Outcome
  <2>4. /\ flagc' = FALSE
        /\ UNCHANGED <<mode, flag, flagz, rgb, bgc, brightness, rbstatus, extend, numofextend, rm_status, rm_time, on_background>>
    BY <1>2, <1>B, <2>2 DEF CircleOff, colors, spread, remain
  <2>5. Same(Firmware', h, {"pend"})
    BY <1>F, <1>F2, <2>3, <2>4 DEF Same
  <2> QED
    BY <1>E, <2>1, <2>5
<1>3. CASE CircleOn(b)
  <2>1. Received(Cmd.circleOn, b) /\ Cmd.circleOn \in Int
    BY <1>3, Codes DEF CircleOn
  <2>2. m[1] = Cmd.circleOn /\ mode = "loop"
    BY <1>R, <2>1
  <2>3. /\ Same(Firmware, h, {"pend", "flagc"})
        /\ h.flagc = TRUE
    BY <1>O, <2>2 DEF Outcome
  <2>4. /\ flagc' = TRUE
        /\ UNCHANGED <<mode, flag, flagz, rgb, bgc, brightness, rbstatus, extend, numofextend, rm_status, rm_time, on_background>>
    BY <1>3, <1>B, <2>2 DEF CircleOn, colors, spread, remain
  <2>5. Same(Firmware', h, {"pend"})
    BY <1>F, <1>F2, <2>3, <2>4 DEF Same
  <2> QED
    BY <1>E, <2>1, <2>5
<1>4. CASE SetColor(b)
  <2>1. Received(Cmd.color, b) /\ Cmd.color \in Int
    BY <1>4, Codes DEF SetColor
  <2>2. m[1] = Cmd.color /\ mode = "loop"
    BY <1>R, <2>1
  <2>3. /\ Same(Firmware, h, {"pend", "rgb"})
        /\ h.rgb = Told(m)
    BY <1>O, <2>2 DEF Outcome
  <2>4. /\ rgb' = Told(m)
        /\ UNCHANGED <<mode, flag, flagc, flagz, bgc, brightness, rbstatus, extend, numofextend, rm_status, rm_time, on_background>>
    BY <1>4, <1>B, <2>2 DEF SetColor, ring, spread, remain, Params, Told
  <2>5. Same(Firmware', h, {"pend"})
    BY <1>F, <1>F2, <2>3, <2>4 DEF Same
  <2> QED
    BY <1>E, <2>1, <2>5
<1>5. CASE EndsOff(b)
  <2>1. Received(Cmd.endsOff, b) /\ Cmd.endsOff \in Int
    BY <1>5, Codes DEF EndsOff
  <2>2. m[1] = Cmd.endsOff /\ mode = "loop"
    BY <1>R, <2>1
  <2>3. /\ Same(Firmware, h, {"pend", "flagz"})
        /\ h.flagz = FALSE
    BY <1>O, <2>2 DEF Outcome
  <2>4. /\ flagz' = FALSE
        /\ UNCHANGED <<mode, flag, flagc, rgb, bgc, brightness, rbstatus, extend, numofextend, rm_status, rm_time, on_background>>
    BY <1>5, <1>B, <2>2 DEF EndsOff, ring, colors, spread, remain
  <2>5. Same(Firmware', h, {"pend"})
    BY <1>F, <1>F2, <2>3, <2>4 DEF Same
  <2> QED
    BY <1>E, <2>1, <2>5
<1>6. CASE EndsOn(b)
  <2>1. Received(Cmd.endsOn, b) /\ Cmd.endsOn \in Int
    BY <1>6, Codes DEF EndsOn
  <2>2. m[1] = Cmd.endsOn /\ mode = "loop"
    BY <1>R, <2>1
  <2>3. /\ Same(Firmware, h, {"pend", "flagz"})
        /\ h.flagz = TRUE
    BY <1>O, <2>2 DEF Outcome
  <2>4. /\ flagz' = TRUE
        /\ UNCHANGED <<mode, flag, flagc, rgb, bgc, brightness, rbstatus, extend, numofextend, rm_status, rm_time, on_background>>
    BY <1>6, <1>B, <2>2 DEF EndsOn, ring, colors, spread, remain
  <2>5. Same(Firmware', h, {"pend"})
    BY <1>F, <1>F2, <2>3, <2>4 DEF Same
  <2> QED
    BY <1>E, <2>1, <2>5
<1>7. CASE SetBrightness(b)
  <2>1. Received(Cmd.bright, b) /\ Cmd.bright \in Int
    BY <1>7, Codes DEF SetBrightness
  <2>0. Arity(Cmd.bright) = 1
    BY <1>A
  <2>2. m[1] = Cmd.bright /\ mode = "loop" /\ m[2] = b
    BY <1>R, <1>P, <2>0, <2>1
  <2>3. /\ Same(Firmware, h, {"pend", "brightness"})
        /\ h.brightness = m[2]
    BY <1>O, <2>2 DEF Outcome
  <2>4. /\ brightness' = b
        /\ UNCHANGED <<mode, flag, flagc, flagz, rgb, bgc, rbstatus, extend, numofextend, rm_status, rm_time, on_background>>
    BY <1>7, <1>B, <2>2 DEF SetBrightness, ring, spread, remain
  <2>5. Same(Firmware', h, {"pend"})
    BY <1>F, <1>F2, <2>2, <2>3, <2>4 DEF Same
  <2> QED
    BY <1>E, <2>1, <2>5
<1>8. CASE ExtendOn(b)
  <2>1. Received(Cmd.extendOn, b) /\ Cmd.extendOn \in Int
    BY <1>8, Codes DEF ExtendOn
  <2>0. Arity(Cmd.extendOn) = 1
    BY <1>A
  <2>2. m[1] = Cmd.extendOn /\ mode = "loop" /\ m[2] = b
    BY <1>R, <1>P, <2>0, <2>1
  <2>3. /\ Same(Firmware, h, {"pend", "extend", "numofextend"})
        /\ h.extend = TRUE /\ h.numofextend = m[2]
    BY <1>O, <2>2 DEF Outcome
  <2>4. /\ extend' = TRUE /\ numofextend' = b
        /\ UNCHANGED <<mode, flag, flagc, flagz, rgb, bgc, brightness, rbstatus, rm_status, rm_time, on_background>>
    BY <1>8, <1>B, <2>2 DEF ExtendOn, ring, colors, remain
  <2>5. Same(Firmware', h, {"pend"})
    BY <1>F, <1>F2, <2>2, <2>3, <2>4 DEF Same
  <2> QED
    BY <1>E, <2>1, <2>5
<1>9. CASE ExtendOff(b)
  <2>1. Received(Cmd.extendOff, b) /\ Cmd.extendOff \in Int
    BY <1>9, Codes DEF ExtendOff
  <2>2. m[1] = Cmd.extendOff /\ mode = "loop"
    BY <1>R, <2>1
  <2>3. /\ Same(Firmware, h, {"pend", "extend"})
        /\ h.extend = FALSE
    BY <1>O, <2>2 DEF Outcome
  <2>4. /\ extend' = FALSE
        /\ UNCHANGED <<mode, flag, flagc, flagz, rgb, bgc, brightness, rbstatus, numofextend, rm_status, rm_time, on_background>>
    BY <1>9, <1>B, <2>2 DEF ExtendOff, ring, colors, remain
  <2>5. Same(Firmware', h, {"pend"})
    BY <1>F, <1>F2, <2>3, <2>4 DEF Same
  <2> QED
    BY <1>E, <2>1, <2>5
<1>10. CASE RemainOn(b)
  <2>1. Received(Cmd.remainOn, b) /\ Cmd.remainOn \in Int
    BY <1>10, Codes DEF RemainOn
  <2>0. Arity(Cmd.remainOn) = 1
    BY <1>A
  <2>2. m[1] = Cmd.remainOn /\ mode = "loop" /\ m[2] = b
    BY <1>R, <1>P, <2>0, <2>1
  <2>3. /\ Same(Firmware, h, {"pend", "rm_status", "rm_time"})
        /\ h.rm_status = TRUE /\ h.rm_time = m[2]
    BY <1>O, <2>2 DEF Outcome
  <2>4. /\ rm_status' = TRUE /\ rm_time' = b
        /\ UNCHANGED <<mode, flag, flagc, flagz, rgb, bgc, brightness, rbstatus, extend, numofextend, on_background>>
    BY <1>10, <1>B, <2>2 DEF RemainOn, ring, colors, spread
  <2>5. Same(Firmware', h, {"pend"})
    BY <1>F, <1>F2, <2>2, <2>3, <2>4 DEF Same
  <2> QED
    BY <1>E, <2>1, <2>5
<1>11. CASE RemainOff(b)
  <2>1. Received(Cmd.remainOff, b) /\ Cmd.remainOff \in Int
    BY <1>11, Codes DEF RemainOff
  <2>2. m[1] = Cmd.remainOff /\ mode = "loop"
    BY <1>R, <2>1
  <2>3. /\ Same(Firmware, h, {"pend", "rm_status"})
        /\ h.rm_status = FALSE
    BY <1>O, <2>2 DEF Outcome
  <2>4. /\ rm_status' = FALSE
        /\ UNCHANGED <<mode, flag, flagc, flagz, rgb, bgc, brightness, rbstatus, extend, numofextend, rm_time, on_background>>
    BY <1>11, <1>B, <2>2 DEF RemainOff, ring, colors, spread
  <2>5. Same(Firmware', h, {"pend"})
    BY <1>F, <1>F2, <2>3, <2>4 DEF Same
  <2> QED
    BY <1>E, <2>1, <2>5
<1>12. CASE BackgroundOn(b)
  <2>1. Received(Cmd.backOn, b) /\ Cmd.backOn \in Int
    BY <1>12, Codes DEF BackgroundOn
  <2>2. m[1] = Cmd.backOn /\ mode = "loop"
    BY <1>R, <2>1
  <2>3. /\ Same(Firmware, h, {"pend", "on_background", "bgc"})
        /\ h.on_background = TRUE /\ h.bgc = Told(m)
    BY <1>O, <2>2 DEF Outcome
  <2>4. /\ on_background' = TRUE /\ bgc' = Told(m)
        /\ UNCHANGED <<mode, flag, flagc, flagz, rgb, brightness, rbstatus, extend, numofextend, rm_status, rm_time>>
    BY <1>12, <1>B, <2>2 DEF BackgroundOn, ring, spread, remain, Params, Told
  <2>5. Same(Firmware', h, {"pend"})
    BY <1>F, <1>F2, <2>3, <2>4 DEF Same
  <2> QED
    BY <1>E, <2>1, <2>5
<1>13. CASE BackgroundOff(b)
  <2>1. Received(Cmd.backOff, b) /\ Cmd.backOff \in Int
    BY <1>13, Codes DEF BackgroundOff
  <2>2. m[1] = Cmd.backOff /\ mode = "loop"
    BY <1>R, <2>1
  <2>3. /\ Same(Firmware, h, {"pend", "on_background"})
        /\ h.on_background = FALSE
    BY <1>O, <2>2 DEF Outcome
  <2>4. /\ on_background' = FALSE
        /\ UNCHANGED <<mode, flag, flagc, flagz, rgb, bgc, brightness, rbstatus, extend, numofextend, rm_status, rm_time>>
    BY <1>13, <1>B, <2>2 DEF BackgroundOff, ring, colors, spread, remain
  <2>5. Same(Firmware', h, {"pend"})
    BY <1>F, <1>F2, <2>3, <2>4 DEF Same
  <2> QED
    BY <1>E, <2>1, <2>5
<1>14. CASE RainbowOff(b)
  <2>1. Received(Cmd.rainbowOff, b) /\ Cmd.rainbowOff \in Int
    BY <1>14, Codes DEF RainbowOff
  <2>2. m[1] = Cmd.rainbowOff /\ mode = "loop"
    BY <1>R, <2>1
  <2>3. /\ Same(Firmware, h, {"pend", "rbstatus"})
        /\ h.rbstatus = FALSE
    BY <1>O, <2>2 DEF Outcome
  <2>4. /\ rbstatus' = FALSE
        /\ UNCHANGED <<mode, flag, flagc, flagz, rgb, bgc, brightness, extend, numofextend, rm_status, rm_time, on_background>>
    BY <1>14, <1>B, <2>2 DEF RainbowOff, ring, colors, spread, remain
  <2>5. Same(Firmware', h, {"pend"})
    BY <1>F, <1>F2, <2>3, <2>4 DEF Same
  <2> QED
    BY <1>E, <2>1, <2>5
<1>15. CASE SetupWait(b)
  <2>1. Step(Firmware, b) = Firmware
    BY <1>15, <1>F DEF SetupWait, Step
  <2>2. Firmware' = Firmware
    BY <1>15 DEF SetupWait, vars, parser, ring, colors, spread, remain, Firmware
  <2> QED
    BY <2>1, <2>2
<1>16. CASE SetupDone(b)
  <2>1. Step(Firmware, b) = Woken(Firmware)
    BY <1>16, <1>F DEF SetupDone, Step
  <2>2. /\ mode' = "loop" /\ rgb' = FirstColor
        /\ UNCHANGED <<pend, flag, flagc, flagz, bgc, brightness, rbstatus, extend,
                       numofextend, rm_status, rm_time, on_background>>
    BY <1>16 DEF SetupDone, ring, spread, remain
  <2>3. Firmware' = Woken(Firmware)
    BY <1>F, <2>2 DEF Firmware, Woken
  <2> QED
    BY <2>1, <2>3
<1>17. CASE Gather(b)
  <2>1. Step(Firmware, b) = [Firmware EXCEPT !.pend = m]
    BY <1>17, <1>F, <1>B, <1>G DEF Gather, Step, Parsed
  <2>2. Firmware' = [Firmware EXCEPT !.pend = m]
    BY <1>17, <1>B DEF Gather, ring, colors, spread, remain, Firmware
  <2> QED
    BY <2>1, <2>2
\* The bytes that are not commands.
<1>S. ASSUME Received(b, b) PROVE m[1] = b /\ mode = "loop"
  BY <1>S, <1>R, <1>B
<1>18. CASE RainbowFrame(b)
  <2>1. Received(b, b) /\ m[1] = b /\ mode = "loop"
    BY <1>18, <1>S DEF RainbowFrame
  <2>2. /\ b \notin Returning \cup {Cmd.rainbowOff} /\ (rbstatus \/ b = Cmd.rainbowOn)
        /\ rbstatus' = TRUE
        /\ UNCHANGED <<mode, flag, flagc, flagz, rgb, bgc, brightness, extend, numofextend,
                       rm_status, rm_time, on_background>>
    BY <1>18 DEF RainbowFrame, ring, colors, spread, remain
  <2>3. CASE b = Cmd.rainbowOn
    <3>1. Same(Firmware, h, {"pend", "rbstatus"}) /\ h.rbstatus = TRUE
      BY <1>O, <2>1, <2>3 DEF Outcome
    <3>2. Same(Firmware', h, {"pend"})
      BY <1>F, <1>F2, <2>2, <3>1 DEF Same
    <3> QED
      BY <1>B, <1>E, <2>1, <3>2
  <2>4. CASE b # Cmd.rainbowOn
    <3>1. Same(Firmware, h, {"pend"})
      <4>1. CASE b \in Played
        <5>1. Same(Firmware, h, {"pend", "flag"}) /\ h.flag = flag
          BY <1>O, <1>F, <2>1, <2>2, <2>4, <4>1 DEF Outcome
        <5> QED
          BY <1>F, <5>1 DEF Same
      <4>2. CASE b \notin Played
        BY <1>O, <2>1, <2>2, <2>4, <4>2 DEF Outcome
      <4> QED
        BY <4>1, <4>2
    <3>2. Same(Firmware', h, {"pend"})
      BY <1>F, <1>F2, <2>2, <2>4, <3>1, <1>T DEF Same
    <3> QED
      BY <1>B, <1>E, <2>1, <3>2
  <2> QED
    BY <2>3, <2>4
<1>19. CASE Ignore(b)
  <2>1. Received(b, b) /\ m[1] = b /\ mode = "loop"
    BY <1>19, <1>S DEF Ignore
  <2>2. /\ b \notin Returning \cup Played \cup {Cmd.rainbowOn, Cmd.rainbowOff}
        /\ UNCHANGED <<mode, flag, flagc, flagz, rgb, bgc, brightness, rbstatus, extend,
                       numofextend, rm_status, rm_time, on_background>>
    BY <1>19 DEF Ignore, vars, parser, ring, colors, spread, remain
  <2>3. Same(Firmware, h, {"pend"})
    BY <1>O, <2>1, <2>2 DEF Outcome
  <2>4. Same(Firmware', h, {"pend"})
    BY <1>F, <1>F2, <2>2, <2>3 DEF Same
  <2> QED
    BY <1>B, <1>E, <2>1, <2>4
<1>20. CASE RemainTick(b)
  <2>1. Received(Cmd.tick, b) /\ m[1] = Cmd.tick /\ mode = "loop"
    BY <1>20, <1>R, Codes DEF RemainTick
  <2>2. UNCHANGED <<mode, flag, flagc, flagz, rgb, bgc, brightness, rbstatus, extend,
                    numofextend, rm_status, rm_time, on_background>>
    BY <1>20 DEF RemainTick, ring, colors, spread
  <2>3. m[1] \notin Returning \cup Played \cup {Cmd.rainbowOn, Cmd.rainbowOff}
    BY <1>B, <2>1, Distinct DEF Returning
  <2>4. Same(Firmware, h, {"pend"})
    BY <1>O, <2>3 DEF Outcome
  <2>5. Same(Firmware', h, {"pend"})
    BY <1>F, <1>F2, <2>2, <2>4 DEF Same
  <2> QED
    BY <1>B, <1>E, <2>1, <2>5
<1>21. CASE Press(b) \/ Release(b)
  <2>1. Received(b, b) /\ m[1] = b /\ mode = "loop" /\ b \in Played /\ ~rbstatus
    BY <1>21, <1>S DEF Press, Release
  <2>2. /\ flag' = [flag EXCEPT ![b] = ~@]
        /\ UNCHANGED <<mode, flagc, flagz, rgb, bgc, brightness, rbstatus, extend,
                       numofextend, rm_status, rm_time, on_background>>
    <3>1. CASE Press(b)
      BY <3>1 DEF Press, colors, remain
    <3>2. CASE Release(b)
      BY <3>2 DEF Release, ring, colors
    <3> QED
      BY <1>21, <3>1, <3>2
  <2>3. Same(Firmware, h, {"pend", "flag"}) /\ h.flag = [flag EXCEPT ![b] = ~@]
    BY <1>O, <1>F, <2>1 DEF Outcome
  <2>4. Same(Firmware', h, {"pend"})
    BY <1>F, <1>F2, <2>2, <2>3 DEF Same
  <2> QED
    BY <1>B, <1>E, <2>1, <2>4
<1> QED
  BY <1>0, <1>1, <1>2, <1>3, <1>4, <1>5, <1>6, <1>7, <1>8, <1>9, <1>10, <1>11, <1>12,
     <1>13, <1>14, <1>15, <1>16, <1>17, <1>18, <1>19, <1>20, <1>21 DEF Receive

-----------------------------------------------------------------------------
(* Where a line leads. *)

(* What the handler of a complete message leaves is a state between two     *)
(* commands.                                                               *)
LEMMA HandledType ==
  ASSUME NEW x \in FwTypes, NEW m \in Seq(Byte), Len(m) = Arity(m[1]) + 1
  PROVE  Handled(x, m) \in FwStates
<1> DEFINE c == m[1]
           h == Handled(x, m)
<1>1. c \in Byte /\ c \in Int /\ Arity(c) \in Nat
  <2>1. m # <<>> /\ 1 \in 1..Len(m)
    BY Arities
  <2>2. c \in Byte
    BY <2>1, ElementOfSeq
  <2> QED
    BY <2>2, Arities DEF Byte
<1>2. c \in {Cmd.bright, Cmd.extendOn, Cmd.remainOn} => m[2] \in Byte
  <2> SUFFICES ASSUME c \in {Cmd.bright, Cmd.extendOn, Cmd.remainOn} PROVE m[2] \in Byte
    OBVIOUS
  <2>0. Arity(c) = 1
    <3> HIDE DEF c
    <3> QED BY <1>1, ArityIs
  <2>1. Len(m) = 2
    BY <2>0
  <2>2. 2 \in 1..Len(m)
    BY <2>1
  <2> QED
    BY <2>2, ElementOfSeq
<1>3. c \in {Cmd.color, Cmd.backOn} => Told(m) \in Color
  <2> SUFFICES ASSUME c \in {Cmd.color, Cmd.backOn}, NEW ch \in Channels 
               PROVE  m[ch + 1] \in Byte
    BY DEF Color, Told
  <2>1. Len(m) = NumChannels + 1 /\ NumChannels \in Nat
    BY <1>1, ArityIs, Arities
  <2>2. ch + 1 \in 1..Len(m)
    BY <2>1 DEF Channels
  <2> QED
    BY <2>2, ElementOfSeq
<1>4. x.flag \in [Keys -> BOOLEAN] /\ NoKeys \in [Keys -> BOOLEAN] /\ BootBrightness \in Byte
      /\ x.mode \in {"setup", "loop"} /\ x.flagc \in BOOLEAN /\ x.flagz \in BOOLEAN
      /\ x.rgb \in Color /\ x.bgc \in Color /\ x.brightness \in Byte /\ x.rbstatus \in BOOLEAN
      /\ x.extend \in BOOLEAN /\ x.numofextend \in Byte /\ x.rm_status \in BOOLEAN
      /\ x.rm_time \in Byte /\ x.on_background \in BOOLEAN
  BY LightBarAssumption DEF FwTypes, NoKeys
<1>5. /\ h.mode \in {"setup", "loop"} /\ h.pend = <<>> /\ h.flagc \in BOOLEAN /\ h.flagz \in BOOLEAN
      /\ h.rgb \in Color /\ h.bgc \in Color /\ h.brightness \in Byte /\ h.rbstatus \in BOOLEAN
      /\ h.extend \in BOOLEAN /\ h.numofextend \in Byte /\ h.rm_status \in BOOLEAN
      /\ h.rm_time \in Byte /\ h.on_background \in BOOLEAN
  <2>1. h.rgb = (IF c = Cmd.color THEN Told(m) ELSE x.rgb)
        /\ h.bgc = (IF c = Cmd.backOn THEN Told(m) ELSE x.bgc)
    BY DEF Handled
  <2>2. h.rgb \in Color /\ h.bgc \in Color
    BY <1>3, <1>4, <2>1
  <2>3. /\ h.mode \in {"setup", "loop"} /\ h.pend = <<>> /\ h.flagc \in BOOLEAN /\ h.flagz \in BOOLEAN
        /\ h.rbstatus \in BOOLEAN /\ h.extend \in BOOLEAN /\ h.rm_status \in BOOLEAN
        /\ h.on_background \in BOOLEAN
    BY <1>4, ZenonT(60) DEF Handled
  <2>4. h.brightness \in Byte /\ h.numofextend \in Byte /\ h.rm_time \in Byte
    BY <1>2, <1>4 DEF Handled
  <2> QED
    BY <2>2, <2>3, <2>4
<1>6. h.flag \in [Keys -> BOOLEAN]
  BY <1>4 DEF Handled
<1>7. <<>> \in Seq(Byte)
  OBVIOUS
<1>8. h = [mode |-> h.mode, pend |-> h.pend, flag |-> h.flag, flagc |-> h.flagc,
           flagz |-> h.flagz, rgb |-> h.rgb, bgc |-> h.bgc, brightness |-> h.brightness,
           rbstatus |-> h.rbstatus, extend |-> h.extend, numofextend |-> h.numofextend,
           rm_status |-> h.rm_status, rm_time |-> h.rm_time,
           on_background |-> h.on_background]
  BY DEF Handled
<1> HIDE DEF h
<1>9. h \in FwTypes
  BY <1>5, <1>6, <1>7, <1>8 DEF FwTypes
<1> QED
  BY <1>5, <1>9 DEF FwStates, h

(* Every byte leads from a state of the firmware to one.                   *)
LEMMA StepType ==
  ASSUME NEW x \in FwStates, NEW b \in Byte
  PROVE  Step(x, b) \in FwStates
<1> DEFINE m == Append(x.pend, b)
<1>1. /\ x \in FwTypes /\ x.pend \in Seq(Byte) /\ x.mode \in {"setup", "loop"}
      /\ (x.pend # <<>> => x.mode = "loop" /\ Len(x.pend) <= Arity(x.pend[1]))
  BY DEF FwStates, FwTypes
<1>2. m \in Seq(Byte) /\ Len(m) = Len(x.pend) + 1 /\ m # <<>> /\ Len(x.pend) \in Nat
      /\ (\A i \in 1..Len(x.pend) : m[i] = x.pend[i])
  BY <1>1, AppendProperties
<1> HIDE DEF m
<1>3. Arity(m[1]) \in Nat /\ (x.pend # <<>> => m[1] = x.pend[1])
  BY <1>1, <1>2, Arities
<1>4. CASE x.mode = "loop" /\ Len(x.pend) < Arity(m[1])
  <2>1. Step(x, b) = [x EXCEPT !.pend = m]
    BY <1>4 DEF Step, Parsed, m
  <2>2. Len(m) <= Arity(m[1])
    BY <1>2, <1>3, <1>4
  <2>3. [x EXCEPT !.pend = m] \in FwTypes /\ [x EXCEPT !.pend = m].pend = m
        /\ [x EXCEPT !.pend = m].mode = "loop"
    BY <1>1, <1>2, <1>4 DEF FwTypes
  <2> QED
    BY <2>1, <2>2, <2>3 DEF FwStates
<1>5. CASE x.mode = "loop" /\ ~(Len(x.pend) < Arity(m[1]))
  <2>1. Step(x, b) = Handled(x, m)
    BY <1>5 DEF Step, Parsed, m
  <2>2. Len(m) = Arity(m[1]) + 1
    <3>1. CASE x.pend = <<>>
      BY <1>2, <1>3, <1>5, <3>1
    <3>2. CASE x.pend # <<>>
      BY <1>1, <1>2, <1>3, <1>5, <3>2
    <3> QED
      BY <3>1, <3>2
  <2> QED
    BY <1>1, <1>2, <2>1, <2>2, HandledType
<1>6. CASE x.mode = "setup"
  <2>1. Step(x, b) \in {x, Woken(x)}
    BY <1>6 DEF Step
  <2>2. Woken(x) \in FwTypes /\ Woken(x).pend = x.pend
    BY <1>1, LightBarAssumption DEF Woken, FwTypes
  <2>3. x.pend = <<>>
    BY <1>1, <1>6
  <2> QED
    BY <2>1, <2>2, <2>3 DEF FwStates
<1> QED
  BY <1>1, <1>4, <1>5, <1>6

(* A set of numbers that is not empty has a least. *)
LEMMA Least ==
  ASSUME NEW S \in SUBSET Nat, S # {}
  PROVE  \E n \in S : \A k \in S : n <= k
<1> DEFINE R == OpToRel(<, Nat)
<1>1. IsWellFoundedOn(R, Nat)
  BY NatLessThanWellFounded, ZenonT(60)
<1>2. \A x, y \in Nat : x < y => <<x, y>> \in R
  BY DEF OpToRel
<1> HIDE DEF R
<1>3. PICK n \in S : \A k \in S : ~ (<<k, n>> \in R)
  BY <1>1, WFMin
<1>4. ASSUME NEW k \in S PROVE n <= k
  <2>1. k \in Nat /\ n \in Nat
    OBVIOUS
  <2>2. ~(k < n)
    BY <1>2, <1>3, <2>1
  <2> QED
    BY <2>1, <2>2
<1> QED
  BY <1>4

-----------------------------------------------------------------------------
(* The states the firmware goes through while it reads s, and what it is    *)
(* led to.                                                                 *)
Trace(x, s) ==
  {t \in [0..Len(s) -> FwStates] :
     t[0] = x /\ \A i \in 1..Len(s) : t[i] = Step(t[i - 1], s[i])}

(* Reading s, the firmware gets from x to a state in Q. *)
Leads(x, s, Q) == \A t \in Trace(x, s) : t[Len(s)] \in Q

(* What holds at first, and after every byte if it did before it, holds      *)
(* all along.                                                              *)
LEMMA Along ==
  ASSUME NEW x, NEW s \in Seq(Byte), NEW t \in Trace(x, s),
         NEW A, x \in A[0],
         \A i \in 1..Len(s) : \A y \in FwStates : y \in A[i - 1] => Step(y, s[i]) \in A[i]
  PROVE  \A i \in 0..Len(s) : t[i] \in A[i]
<1> DEFINE Bad == {i \in 0..Len(s) : t[i] \notin A[i]}
<1>1. Len(s) \in Nat /\ t[0] = x /\ t \in [0..Len(s) -> FwStates]
      /\ \A i \in 1..Len(s) : t[i] = Step(t[i - 1], s[i])
  BY DEF Trace
<1>2. ASSUME Bad # {} PROVE FALSE
  <2>1. Bad \in SUBSET Nat
    BY <1>1
  <2>2. PICK n \in Bad : \A k \in Bad : n <= k
    BY <1>2, <2>1, Least
  <2>3. n # 0
    BY <1>1, <2>2
  <2>4. n \in 1..Len(s) /\ n - 1 \in 0..Len(s) /\ ~(n <= n - 1)
    BY <1>1, <2>2, <2>3
  <2>5. t[n - 1] \in A[n - 1] /\ t[n - 1] \in FwStates
    BY <1>1, <2>2, <2>4
  <2>6. t[n] \in A[n]
    BY <1>1, <2>4, <2>5
  <2> QED
    BY <2>2, <2>6
<1> QED
  BY <1>2

(* Nothing to read. *)
LEMMA LeadsNowhere ==
  ASSUME NEW x \in FwStates, NEW Q
  PROVE  Leads(x, <<>>, Q) <=> x \in Q
<1>1. Len(<<>>) = 0
  OBVIOUS
<1>2. ASSUME Leads(x, <<>>, Q) PROVE x \in Q
  <2> DEFINE t == [i \in 0..0 |-> x]
  <2>1. t \in Trace(x, <<>>)
    BY <1>1 DEF Trace
  <2>2. t[0] = x
    OBVIOUS
  <2> QED
    BY <1>1, <1>2, <2>1, <2>2 DEF Leads
<1>3. ASSUME x \in Q PROVE Leads(x, <<>>, Q)
  BY <1>1, <1>3 DEF Leads, Trace
<1> QED
  BY <1>2, <1>3

(* Less is known of the end. *)
LEMMA LeadsTo ==
  ASSUME NEW x, NEW s \in Seq(Byte), NEW P, NEW Q, Leads(x, s, P),
         \A y \in FwStates : y \in P => y \in Q
  PROVE  Leads(x, s, Q)
<1> SUFFICES ASSUME NEW t \in Trace(x, s) PROVE t[Len(s)] \in Q
  BY DEF Leads
<1>1. Len(s) \in 0..Len(s)
  OBVIOUS
<1> QED
  BY <1>1 DEF Leads, Trace

(* Whatever is read, some state is reached. *)
LEMMA LeadsSomewhere ==
  ASSUME NEW x, NEW s \in Seq(Byte)
  PROVE  Leads(x, s, FwStates)
<1> SUFFICES ASSUME NEW t \in Trace(x, s) PROVE t[Len(s)] \in FwStates
  BY DEF Leads
<1>1. Len(s) \in 0..Len(s)
  OBVIOUS
<1> QED
  BY <1>1 DEF Trace

(* One byte. *)
LEMMA LeadsByte ==
  ASSUME NEW x \in FwStates, NEW b \in Byte
  PROVE  Leads(x, <<b>>, {Step(x, b)})
<1>1. Len(<<b>>) = 1 /\ <<b>>[1] = b /\ 1 - 1 = 0 /\ 1 \in 1..1
  OBVIOUS
<1> QED
  BY <1>1 DEF Leads, Trace

(* The first byte is read. *)
LEMMA LeadsOn ==
  ASSUME NEW x \in FwStates, NEW s \in Seq(Byte), s # <<>>, NEW Q, Leads(x, s, Q)
  PROVE  Leads(Step(x, Head(s)), Tail(s), Q)
<1> DEFINE n == Len(s)
           u == Tail(s)
<1>1. n \in Nat \ {0} /\ u \in Seq(Byte) /\ Len(u) = n - 1 /\ Head(s) = s[1]
      /\ \A i \in 1..(n - 1) : u[i] = s[i + 1]
  OBVIOUS
<1> SUFFICES ASSUME NEW t \in Trace(Step(x, s[1]), u) PROVE t[n - 1] \in Q
  BY <1>1 DEF Leads
<1> HIDE DEF n, u
<1> DEFINE w == [i \in 0..n |-> IF i = 0 THEN x ELSE t[i - 1]]
<1>2. /\ t \in [0..(n - 1) -> FwStates] /\ t[0] = Step(x, s[1])
      /\ \A i \in 1..(n - 1) : t[i] = Step(t[i - 1], u[i])
  BY <1>1 DEF Trace
<1>3. w \in [0..n -> FwStates]
  BY <1>1, <1>2
<1>4. ASSUME NEW i \in 1..n PROVE w[i] = Step(w[i - 1], s[i])
  <2>1. CASE i = 1
    BY <1>1, <1>2, <2>1
  <2>2. CASE i # 1
    <3>1. i - 1 \in 1..(n - 1) /\ i - 1 # 0 /\ (i - 1) + 1 = i /\ i \in 0..n /\ i - 1 \in 0..n
      BY <1>1, <2>2
    <3>2. t[i - 1] = Step(t[i - 1 - 1], s[i])
      BY <1>1, <1>2, <3>1
    <3> QED
      BY <3>1, <3>2
  <2> QED
    BY <2>1, <2>2
<1>5. w[0] = x /\ w[n] = t[n - 1]
  BY <1>1
<1> HIDE DEF w
<1>6. w \in Trace(x, s)
  BY <1>3, <1>4, <1>5 DEF Trace, n
<1>7. w[n] \in Q
  BY <1>6 DEF Leads, n
<1> QED
  BY <1>5, <1>7

(* One line after another. *)
LEMMA LeadsThen ==
  ASSUME NEW x, NEW s \in Seq(Byte), NEW u \in Seq(Byte), NEW P, NEW Q, Leads(x, s, P),
         \A y \in FwStates : y \in P => Leads(y, u, Q)
  PROVE  Leads(x, s \o u, Q)
<1> DEFINE n == Len(s)
           k == Len(u)
           v == s \o u
<1>1. n \in Nat /\ k \in Nat /\ v \in Seq(Byte) /\ Len(v) = n + k
      /\ (\A i \in 1..n : v[i] = s[i])
      /\ (\A i \in 1..k : v[n + i] = u[i])
  BY ConcatProperties
<1> SUFFICES ASSUME NEW t \in Trace(x, v) PROVE t[n + k] \in Q
  BY <1>1 DEF Leads
<1> HIDE DEF n, k, v
<1> DEFINE a == [i \in 0..n |-> t[i]]
           b == [i \in 0..k |-> t[n + i]]
<1>2. t \in [0..(n + k) -> FwStates] /\ t[0] = x
      /\ \A i \in 1..(n + k) : t[i] = Step(t[i - 1], v[i])
  BY <1>1 DEF Trace
<1>3. a \in [0..n -> FwStates] /\ b \in [0..k -> FwStates]
      /\ (\A i \in 0..n : a[i] = t[i]) /\ (\A i \in 0..k : b[i] = t[n + i])
  BY <1>1, <1>2
<1>4. ASSUME NEW i \in 1..n PROVE a[i] = Step(a[i - 1], s[i])
  <2>1. i \in 0..n /\ i - 1 \in 0..n /\ i \in 1..(n + k)
    BY <1>1
  <2> QED
    BY <1>1, <1>2, <1>3, <2>1
<1>5. ASSUME NEW i \in 1..k PROVE b[i] = Step(b[i - 1], u[i])
  <2>1. i \in 0..k /\ i - 1 \in 0..k /\ n + i \in 1..(n + k) /\ (n + i) - 1 = n + (i - 1)
    BY <1>1
  <2> QED
    BY <1>1, <1>2, <1>3, <2>1
<1>6. a[0] = x /\ a[n] = t[n] /\ b[0] = t[n] /\ b[k] = t[n + k] /\ t[n] \in FwStates
  BY <1>1, <1>2
<1> HIDE DEF a, b
<1>7. a \in Trace(x, s) /\ b \in Trace(t[n], u)
  BY <1>3, <1>4, <1>5, <1>6 DEF Trace, n, k
<1>8. t[n] \in P
  BY <1>6, <1>7 DEF Leads, n
<1> QED
  BY <1>6, <1>7, <1>8 DEF Leads, k

(* A set of states that none of the bytes leads out of. *)
LEMMA LeadsAround ==
  ASSUME NEW x \in FwStates, NEW s \in Seq(Byte), NEW C, x \in C,
         \A i \in 1..Len(s) : \A y \in FwStates : y \in C => Step(y, s[i]) \in C
  PROVE  Leads(x, s, C)
<1> SUFFICES ASSUME NEW t \in Trace(x, s) PROVE t[Len(s)] \in C
  BY DEF Leads
<1> DEFINE A == [i \in 0..Len(s) |-> C]
<1>1. Len(s) \in Nat
  OBVIOUS
<1>2. \A i \in 0..Len(s) : A[i] = C
  OBVIOUS
<1>3. 0 \in 0..Len(s) /\ Len(s) \in 0..Len(s) /\ \A i \in 1..Len(s) : i \in 0..Len(s) /\ i - 1 \in 0..Len(s)
  BY <1>1
<1> HIDE DEF A
<1>4. x \in A[0] /\ \A i \in 1..Len(s) : \A y \in FwStates : y \in A[i - 1] => Step(y, s[i]) \in A[i]
  BY <1>2, <1>3
<1>5. \A i \in 0..Len(s) : t[i] \in A[i]
  BY <1>4, Along
<1> QED
  BY <1>2, <1>3, <1>5

(* The firmware waits for a command. *)
Ready == {x \in FwStates : x.mode = "loop" /\ x.pend = <<>>}

(* Only what is in pend counts of a command that is being received.        *)
LEMMA HandledSame ==
  ASSUME NEW x, NEW y, NEW m, Same(x, y, {"pend"})
  PROVE  Handled(y, m) = Handled(x, m)
BY DEF Handled, Same

(* A whole message is handled. *)
LEMMA LeadsMessage ==
  ASSUME NEW x \in Ready, NEW s \in Seq(Byte), Len(s) = Arity(s[1]) + 1
  PROVE  Leads(x, s, {Handled(x, s)})
<1> DEFINE n == Len(s)
           Got(i) == {y \in FwStates : /\ y.mode = "loop" /\ y.pend = [j \in 1..i |-> s[j]]
                                       /\ Same(x, y, {"pend"})}
           A == [i \in 0..n |-> IF i < n THEN Got(i) ELSE {Handled(x, s)}]
<1>1. n \in Nat \ {0} /\ x \in FwStates /\ x.mode = "loop" /\ x.pend = <<>>
      /\ (\A i \in 1..n : s[i] \in Byte) /\ s[1] \in Byte
  BY Arities, ElementOfSeq DEF Ready
<1>2. x \in A[0]
  <2>1. [j \in 1..0 |-> s[j]] = <<>>
    OBVIOUS
  <2>2. x \in Got(0)
    BY <1>1, <2>1 DEF Same
  <2> QED
    BY <1>1, <2>2
<1>3. ASSUME NEW i \in 1..n, NEW y \in FwStates, y \in A[i - 1]
      PROVE  Step(y, s[i]) \in A[i]
  <2> DEFINE m == Append(y.pend, s[i])
  <2>1. /\ i - 1 < n /\ i - 1 \in 0..n /\ i \in 0..n /\ i - 1 \in Nat
    BY <1>1
  <2>2. y.mode = "loop" /\ y.pend = [j \in 1..(i - 1) |-> s[j]] /\ Same(x, y, {"pend"})
    BY <1>3, <2>1
  <2>3. y.pend \in Seq(Byte) /\ Len(y.pend) = i - 1
    BY <1>1, <2>1, <2>2
  <2>4. m \in Seq(Byte) /\ Len(m) = i /\ m = [j \in 1..i |-> s[j]] /\ m[1] = s[1]
    <3>1. m \in Seq(Byte) /\ Len(m) = i /\ (\A j \in 1..(i - 1) : m[j] = s[j]) /\ m[i] = s[i]
      BY <1>1, <2>1, <2>2, <2>3, AppendProperties
    <3> HIDE DEF m
    <3>2. \A j \in 1..i : m[j] = s[j]
      BY <2>1, <3>1
    <3> QED
      BY <2>1, <3>1, <3>2
  <2>5. CASE i < n
    <3>0. Len(y.pend) < Arity(m[1])
      BY <1>1, <2>3, <2>4, <2>5, Arities
    <3>1. Step(y, s[i]) = [y EXCEPT !.pend = m]
      BY <2>2, <3>0 DEF Step, Parsed
    <3>2. Step(y, s[i]) \in FwStates
      BY <1>1, StepType
    <3>3. [y EXCEPT !.pend = m].mode = "loop" /\ [y EXCEPT !.pend = m].pend = m
          /\ Same(x, [y EXCEPT !.pend = m], {"pend"})
      BY <2>2 DEF Same, FwStates, FwTypes
    <3>4. Step(y, s[i]) \in Got(i)
      BY <2>4, <3>1, <3>2, <3>3
    <3> QED
      BY <2>1, <2>5, <3>4
  <2>6. CASE ~(i < n)
    <3>1. i = n
      BY <2>6, <1>1
    <3>2. m = s
      BY <2>4, <3>1
    <3>3. ~(Len(y.pend) < Arity(m[1]))
      BY <1>1, <2>3, <3>1, <3>2, Arities
    <3>4. Step(y, s[i]) = Handled(y, s)
      BY <2>2, <3>2, <3>3 DEF Step, Parsed
    <3>5. Step(y, s[i]) = Handled(x, s)
      BY <2>2, <3>4, HandledSame
    <3> QED
      BY <2>1, <2>6, <3>5
  <2> QED
    BY <2>5, <2>6
<1> HIDE DEF A
<1>4. ASSUME NEW t \in Trace(x, s) PROVE t[n] \in A[n]
  <2>1. \A i \in 1..Len(s) : \A y \in FwStates : y \in A[i - 1] => Step(y, s[i]) \in A[i]
    BY <1>3
  <2>2. \A i \in 0..Len(s) : t[i] \in A[i]
    BY <1>2, <2>1, Along
  <2> QED
    BY <1>1, <2>2
<1>5. A[n] = {Handled(x, s)}
  BY <1>1 DEF A
<1> QED
  BY <1>4, <1>5 DEF Leads
=============================================================================
