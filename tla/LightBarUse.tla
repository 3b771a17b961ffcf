----------------------------- MODULE LightBarUse -----------------------------
(***************************************************************************)
(* What the firmware's bar of LEDs promises, and to whom.                  *)
(*                                                                         *)
(* The firmware keeps no record of which key contributed what to an LED:   *)
(* a press adds, a release subtracts, and a tick subtracts the fading      *)
(* keys' share, all with the colour, extension and remain time in force at *)
(* that moment.  The bar therefore shows its keys only if these do not     *)
(* change while a key is down or fading, and if no sum leaves its range.   *)
(* Considerate states that contract, clause by clause; under it the two    *)
(* properties below say what the bar shows.                                *)
(***************************************************************************)
EXTENDS LightBar, Functions

CONSTANTS Levels,   \* colour parameters sent to the bar
          Spreads,  \* extension parameters
          Times,    \* remain times
          MaxTicks  \* ticks a key may have left (a char holds 127)

ASSUME UseAssumption ==
  /\ Levels \subseteq Inputs /\ Spreads \subseteq Inputs /\ Times \subseteq Inputs
  /\ 0 \notin Times /\ MaxTicks \in 0..127
  /\ 255 \notin Levels /\ \A ch \in Channels : FirstColor[ch] # 255

-----------------------------------------------------------------------------
(* The contract. *)

(* No key is down, and none is fading. *)
Settled == \A k \in Keys : ~flag[k] /\ rm_times[k] = 0

(* Pressing key k drives no LED of the bar past 255; releasing it leaves   *)
(* it no more than MaxTicks ticks.                                         *)
InRange(k) ==
  IF flag[k]
  THEN rm_status => rm_times[k] + rm_time <= MaxTicks
  ELSE \A l \in Bar, ch \in Channels : leds[l][ch] + Glow(k, l)[ch] <= 255

(* Colours below 255, and a time of at least one tick. *)
GoodParameter(b) ==
  CASE pend[1] \in {Cmd.color, Cmd.backOn} -> b \in Levels
    [] pend[1] = Cmd.extendOn -> b \in Spreads
    [] pend[1] = Cmd.remainOn -> b \in Times
    [] OTHER -> TRUE

(* Commands that change how a key is lit come between keys.  Those that    *)
(* black the bar out come while the background light is off, for they      *)
(* leave on_background set.  The background is not put on twice.           *)
GoodCommand(b) ==
  /\ b \in {Cmd.color, Cmd.extendOn, Cmd.extendOff, Cmd.remainOn,
            Cmd.remainOff, Cmd.backOn, Cmd.backOff, Cmd.rainbowOn,
            Cmd.rainbowOff} => Settled
  /\ b \in {Cmd.clear, Cmd.reset, Cmd.rainbowOn, Cmd.rainbowOff, Cmd.backOn} =>
       ~on_background
  /\ b \in Played /\ ~rbstatus => InRange(b)

Considerate(b) ==
  CASE mode = "setup" -> TRUE
    [] mode = "loop" /\ pend # <<>> -> GoodParameter(b)
    [] OTHER -> GoodCommand(b)

Use == \E b \in Inputs : Considerate(b) /\ Receive(b)

UseSpec == Init /\ [][Use]_vars

(* The host sends all the parameters of a command it has begun, and ticks  *)
(* without end while remaining is on (Effect_Piano.cpp, the rm_timer of    *)
(* its main loop).                                                         *)
FairUse ==
  /\ UseSpec
  /\ WF_vars(pend # <<>> /\ Use)
  /\ SF_vars(RemainTick(Cmd.tick))

-----------------------------------------------------------------------------
(* What the bar should show: the background and the keys that are down. *)
Light(l, ch) == [k \in Played |-> Glow(k, l)[ch]]
Down         == {k \in Played : flag[k]}
Background   == IF on_background THEN bgc ELSE Black

Shown(l, ch) == Background[ch] + SumFunctionOnSet(Light(l, ch), Down)

Excess(l) ==
  \E ch \in Channels : leds[l][ch] > Shown(l, ch)

(* As long as remaining has never been switched on, each LED shows exactly *)
(* the background plus every key that is down: presses and releases of     *)
(* neighbours whose extensions overlap, in any order, with the background, *)
(* the extension and the colour changing in between, leave nothing behind  *)
(* and take nothing away.                                                  *)
BarIsSumOfHeld ==
  ~rbstatus /\ rm_time = 0 =>
    \A l \in Bar, ch \in Channels : leds[l][ch] = Shown(l, ch)

(* With remaining, an LED never shows more than that plus what the ticks   *)
(* its own key has left will take from it: once they have run out, nothing *)
(* of a released key is left.  (It may show less: the last tick takes more *)
(* than is left of the key, also from a neighbour's extension.)            *)
FadeCovers ==
  ~rbstatus =>
    \A l \in Bar, ch \in Channels :
      leds[l][ch] <= Shown(l, ch) + rm_times[KeyOf(l)] * Fade[ch]

Dark(k) == \A l \in Bar : KeyOf(l) = k => ~Excess(l)

(* The light of a released key goes out, on all its LEDs, unless the key   *)
(* is pressed again or the rainbow takes over the bar: no key stays lit    *)
(* for ever without being held.                                            *)
EveryReleaseFades ==
  \A k \in {KeyOf(l) : l \in Bar} : []<>(Dark(k) \/ flag[k] \/ rbstatus)
=============================================================================
