-------------------------- MODULE EffectPianoProofs --------------------------
(***************************************************************************)
(* Theorems about EffectPiano: for any number of presets and colours, any  *)
(* numbers typed (rejected ones too), and any sequence of switches,        *)
(* commands, presets, restarts and faults.                                 *)
(***************************************************************************)
EXTENDS EffectPiano, LightBarProofs

Settings == Host!Settings

SavedInv ==
  /\ using_set \in Host!Sets
  /\ file \in [Host!Sets -> Settings] /\ cfg \in Settings
  /\ SettingsAreSaved

-----------------------------------------------------------------------------
(* The settings. *)

(* With no brightness, the background is off; nothing else is changed. *)
LEMMA WithBgIs ==
  ASSUME NEW c \in Settings
  PROVE  /\ Host!WithBg(c) \in Settings
         /\ \A f \in DOMAIN c : Host!WithBg(c)[f] = c[f] \/ (f = "bg" /\ c.bgbright = 0)
         /\ DOMAIN Host!WithBg(c) = DOMAIN c
         /\ Host!WithBg(c).bgbright = c.bgbright
BY DEF Settings, Host!Settings, Host!WithBg, Host!HasBg

(* Only start() ends what "set select" does. *)
LEMMA DriftKeepsFile ==
  ASSUME NEW h, NEW k, Note(h, k), h \notin {"start", "select", "again"}, "file" \notin drift'
  PROVE  "file" \notin drift
<1>1. drift' = Drift(h)
  BY DEF Note
<1> QED
  BY <1>1 DEF Drift

(* Neither the settings nor the file are changed. *)
LEMMA KeepInv ==
  ASSUME SavedInv, UNCHANGED <<using_set, cfg, file>>, running' => running,
         "file" \notin drift' => "file" \notin drift
  PROVE  SavedInv'
BY DEF SavedInv, SettingsAreSaved, Rejected

(* All settings are saved. *)
LEMMA SaveInv ==
  ASSUME SavedInv, cfg' \in Settings, file' = [file EXCEPT ![using_set] = cfg'],
         UNCHANGED using_set
  PROVE  SavedInv'
<1>1. file' \in [Host!Sets -> Settings] /\ file'[using_set] = cfg'
  BY DEF SavedInv
<1> QED
  BY <1>1 DEF SavedInv, SettingsAreSaved

(* A step of the firmware, the line or the board. *)
LEMMA OthersInv ==
  ASSUME SavedInv, UNCHANGED <<settings, drift>>
  PROVE  SavedInv'
BY KeepInv DEF settings

-----------------------------------------------------------------------------
(* Starting and choosing a preset. *)

(* start() works with what the file of the preset p says. *)
LEMMA LoadInv ==
  ASSUME SavedInv, NEW p \in Host!Sets, using_set' = p, cfg' = Host!WithBg(file[p]),
         UNCHANGED file
  PROVE  SavedInv'
<1>1. file[p] \in Settings
  BY DEF SavedInv
<1>2. cfg' \in Settings
  BY <1>1, WithBgIs
<1>3. SettingsAreSaved'
  <2> SUFFICES ASSUME NEW f \in DOMAIN cfg'
               PROVE  file[p][f] = cfg'[f] \/ Rejected(f)'
    BY DEF SettingsAreSaved
  <2>1. cfg'[f] = file[p][f] \/ (f = "bg" /\ cfg'.bgbright = 0)
    BY <1>1, WithBgIs
  <2>2. 0 \notin 1..255
    OBVIOUS
  <2> QED
    BY <2>1, <2>2 DEF Rejected
<1> QED
  BY <1>2, <1>3 DEF SavedInv

(* "set select" of the preset in use, and of another one. *)
LEMMA SelectInv ==
  ASSUME SavedInv, NEW p \in Host!Sets, using_set' = p, cfg' = Host!WithBg(cfg),
         UNCHANGED <<file, running>>,
         "file" \notin drift' => "file" \notin drift /\ p = using_set
  PROVE  SavedInv'
<1>1. cfg \in Settings /\ cfg' \in Settings
  BY WithBgIs DEF SavedInv
<1>2. SettingsAreSaved'
  <2> SUFFICES ASSUME running, "file" \notin drift', NEW f \in DOMAIN cfg'
               PROVE  file[p][f] = cfg'[f] \/ Rejected(f)'
    BY DEF SettingsAreSaved
  <2>1. f \in DOMAIN cfg /\ (cfg'[f] = cfg[f] \/ (f = "bg" /\ cfg'.bgbright = 0))
        /\ cfg'.bgbright = cfg.bgbright
    BY <1>1, WithBgIs
  <2>2. file[p][f] = cfg[f] \/ Rejected(f)
    BY <2>1 DEF SavedInv, SettingsAreSaved
  <2>3. 0 \notin 1..255
    OBVIOUS
  <2>4. Rejected(f) => Rejected(f)' \/ cfg'[f] = cfg[f]
    BY <2>1 DEF Rejected
  <2> QED
    BY <2>1, <2>2, <2>3 DEF Rejected
<1> QED
  BY <1>1, <1>2 DEF SavedInv

(* A start of the program, a preset chosen by its key or by "set select". *)
LEMMA RestartInv ==
  ASSUME SavedInv, Restart
  PROVE  SavedInv'
<1>1. PICK p \in Host!Sets :
        \/ Host!Main(p) \/ Host!LoadPreset(p)
        \/ /\ Host!SelectPreset(p)
           /\ Note(IF p = using_set THEN "again" ELSE "select", 0)
  BY DEF Restart
<1>2. CASE Host!Main(p)
  BY <1>2, LoadInv DEF Host!Main, Host!Start
<1>3. CASE Host!LoadPreset(p)
  BY <1>3, LoadInv DEF Host!LoadPreset, Host!Start
<1>4. CASE Host!SelectPreset(p) /\ Note(IF p = using_set THEN "again" ELSE "select", 0)
  <2>1. "file" \notin drift' => "file" \notin drift /\ p = using_set
    <3>1. CASE p = using_set
      BY <1>4, <3>1 DEF Note, Drift
    <3>2. CASE p # using_set
      BY <1>4, <3>2 DEF Note, Drift
    <3> QED
      BY <3>1, <3>2
  <2> QED
    BY <1>4, <2>1, SelectInv DEF Host!SelectPreset, Host!Start
<1> QED
  BY <1>1, <1>2, <1>3, <1>4

-----------------------------------------------------------------------------
(* The handlers that only send. *)

(* A handler that only sends bytes changes no setting. *)
LEMMA SendInv ==
  ASSUME SavedInv, NEW s, Host!Send(s), "file" \notin drift' => "file" \notin drift
  PROVE  SavedInv'
BY KeepInv DEF Host!Send, Host!setVars

(* Neither does the rainbow. *)
LEMMA RainbowInv ==
  ASSUME SavedInv,
         Host!RainbowHeld \/ Host!RainbowReleased \/ Host!ContainRainbow,
         "file" \notin drift' => "file" \notin drift
  PROVE  SavedInv'
<1>1. UNCHANGED <<running, using_set, cfg, file>>
  BY DEF Host!RainbowHeld, Host!RainbowReleased, Host!ContainRainbow, Host!setVars
<1> QED
  BY <1>1, KeepInv

(* Nor does the end of the process, after which nothing is running. *)
LEMMA EndInv ==
  ASSUME SavedInv, Host!Exit \/ Host!ShutDown,
         "file" \notin drift' => "file" \notin drift
  PROVE  SavedInv'
<1>1. running' = FALSE /\ UNCHANGED <<using_set, cfg, file>>
  BY DEF Host!Exit, Host!ShutDown, Host!End
<1> QED
  BY <1>1, KeepInv

-----------------------------------------------------------------------------
(* The handlers that change a setting.  Each setting has its type. *)

(* Each setting has its type. *)
LEMMA FieldsType ==
  ASSUME NEW c \in Settings
  PROVE  /\ \A b \in BOOLEAN :
              /\ [c EXCEPT !.circle = b] \in Settings /\ [c EXCEPT !.ends = b] \in Settings
              /\ [c EXCEPT !.extend = b] \in Settings /\ [c EXCEPT !.remain = b] \in Settings
              /\ [c EXCEPT !.bg = b] \in Settings
         /\ \A n \in Int :
              /\ [c EXCEPT !.num_extend = n] \in Settings
              /\ [c EXCEPT !.num_remain = n] \in Settings
              /\ [c EXCEPT !.brightness = n] \in Settings
              /\ [c EXCEPT !.color = n] \in Settings
              /\ [c EXCEPT !.bgcolor = n] \in Settings
              /\ [c EXCEPT !.bgbright = n] \in Settings
BY DEF Settings, Host!Settings

(* Set, which most handlers are made of, saves what it sets. *)
LEMMA SetInv ==
  ASSUME SavedInv, NEW c \in Settings, NEW s, Host!Set(c, s)
  PROVE  SavedInv'
BY SaveInv DEF Host!Set, Host!Save, Host!setVars

(* So does SetSpread, also when it sends nothing. *)
LEMMA SpreadInv ==
  ASSUME SavedInv, NEW c \in Settings, NEW on, NEW s, Host!SetSpread(c, on, s)
  PROVE  SavedInv'
BY SaveInv DEF Host!SetSpread, Host!Save, Host!setVars

(* The switches of the switch board, each a setting that is turned round. *)
LEMMA SwitchesInv ==
  ASSUME SavedInv,
         \/ Host!SwitchCircle \/ Host!SwitchEnds \/ Host!SwitchExtend
         \/ Host!SwitchRemain \/ Host!SwitchBackgroundOff \/ Host!SwitchBackgroundOn
  PROVE  SavedInv'
<1>1. cfg \in Settings
  BY DEF SavedInv
<1>2. cfg.circle \in BOOLEAN /\ cfg.ends \in BOOLEAN /\ cfg.extend \in BOOLEAN
      /\ cfg.remain \in BOOLEAN
  BY <1>1 DEF Settings, Host!Settings
<1>3. CASE Host!SwitchCircle
  BY <1>1, <1>2, <1>3, FieldsType, SetInv DEF Host!SwitchCircle
<1>4. CASE Host!SwitchEnds
  BY <1>1, <1>2, <1>4, FieldsType, SetInv DEF Host!SwitchEnds
<1>5. CASE Host!SwitchExtend
  BY <1>1, <1>2, <1>5, FieldsType, SetInv DEF Host!SwitchExtend
<1>6. CASE Host!SwitchRemain
  BY <1>1, <1>2, <1>6, FieldsType, SetInv DEF Host!SwitchRemain
<1>7. CASE Host!SwitchBackgroundOff
  BY <1>1, <1>7, FieldsType, SetInv DEF Host!SwitchBackgroundOff
<1>8. CASE Host!SwitchBackgroundOn
  BY <1>1, <1>8, FieldsType, SetInv DEF Host!SwitchBackgroundOn
<1> QED
  BY <1>3, <1>4, <1>5, <1>6, <1>7, <1>8

(* The numbers of the colours are settings. *)
LEMMA ColorsAreInt == Host!Colors \subseteq Int
BY EffectPianoAssumption DEF Host!EffectHostAssumption, Host!Colors

(* A digit: with the background on, it is saved after get_bg_color. *)
LEMMA PickColorInv ==
  ASSUME SavedInv, NEW i \in Host!Colors, Host!PickColor(i)
  PROVE  SavedInv'
<1> DEFINE c == [cfg EXCEPT !.color = i]
<1>1. c \in Settings /\ Host!WithBg(c) \in Settings
  BY ColorsAreInt, FieldsType, WithBgIs DEF SavedInv
<1>2. CASE cfg.bg
  BY <1>1, <1>2, SetInv DEF Host!PickColor
<1>3. CASE ~cfg.bg
  BY <1>1, <1>3, SetInv DEF Host!PickColor
<1> QED
  BY <1>2, <1>3

(* The settings are saved before get_bg_color may switch the background    *)
(* off, which it does if the background has no brightness.                 *)
LEMMA PickBackgroundInv ==
  ASSUME SavedInv, NEW i \in Host!Colors, Host!PickBackground(i)
  PROVE  SavedInv'
<1> DEFINE c == [cfg EXCEPT !.bgcolor = i]
<1>1. c \in Settings /\ Host!WithBg(c) \in Settings
  BY ColorsAreInt, FieldsType, WithBgIs DEF SavedInv
<1>2. /\ cfg' = Host!WithBg(c) /\ file' = [file EXCEPT ![using_set] = c]
      /\ UNCHANGED <<using_set, running>>
  BY DEF Host!PickBackground, Host!setVars
<1> HIDE DEF c
<1>3. file' \in [Host!Sets -> Settings] /\ file'[using_set] = c
  BY <1>1, <1>2 DEF SavedInv
<1>4. SettingsAreSaved'
  <2> SUFFICES ASSUME NEW f \in DOMAIN cfg'
               PROVE  c[f] = cfg'[f] \/ Rejected(f)'
    BY <1>2, <1>3 DEF SettingsAreSaved
  <2>1. cfg'[f] = c[f] \/ (f = "bg" /\ cfg'.bgbright = 0)
    BY <1>1, <1>2, WithBgIs
  <2>2. 0 \notin 1..255
    OBVIOUS
  <2> QED
    BY <2>1, <2>2 DEF Rejected
<1> QED
  BY <1>1, <1>2, <1>3, <1>4 DEF SavedInv

(* A number above 255 is the brightness in use, and not the one saved. *)
LEMMA BrightnessInv ==
  ASSUME SavedInv, NEW n \in Brights, Host!SetBrightness(n),
         "file" \notin drift' => "file" \notin drift
  PROVE  SavedInv'
<1> DEFINE v == IF n < 10 THEN 10 ELSE n
           c == [cfg EXCEPT !.brightness = v]
<1>1. n \in Int /\ v \in Int
  BY EffectPianoAssumption DEF Host!EffectHostAssumption
<1>2. cfg \in Settings /\ c \in Settings
  BY <1>1, FieldsType DEF SavedInv
<1>3. CASE v <= 255
  BY <1>2, <1>3, SetInv DEF Host!SetBrightness
<1>4. CASE ~(v <= 255)
  <2>1. cfg' = c /\ UNCHANGED <<file, using_set, running>>
    BY <1>4 DEF Host!SetBrightness, Host!setVars
  <2>2. /\ DOMAIN c = DOMAIN cfg /\ c.brightness = v /\ c.bgbright = cfg.bgbright
        /\ \A f \in DOMAIN c : f # "brightness" => c[f] = cfg[f]
    BY <1>2 DEF Settings, Host!Settings
  <2>3. v > 255
    BY <1>1, <1>4
  <2> HIDE DEF c, v
  <2>4. SettingsAreSaved'
    BY <2>1, <2>2, <2>3 DEF SavedInv, SettingsAreSaved, Rejected
  <2> QED
    BY <1>2, <2>1, <2>4 DEF SavedInv
<1> QED
  BY <1>3, <1>4

(* And so is a number that is no brightness of a background.  One that is  *)
(* saves everything.                                                       *)
LEMMA BackgroundInv ==
  ASSUME SavedInv, NEW n \in BackBrights, Host!SetBackgroundBrightness(n),
         "file" \notin drift' => "file" \notin drift
  PROVE  SavedInv'
<1> DEFINE c == [cfg EXCEPT !.bgbright = n]
<1>1. n \in Int
  BY EffectPianoAssumption DEF Host!EffectHostAssumption
<1>2. cfg \in Settings /\ c \in Settings
  BY <1>1, FieldsType DEF SavedInv
<1>3. cfg' = c /\ UNCHANGED <<using_set, running>>
  BY DEF Host!SetBackgroundBrightness, Host!setVars
<1>4. CASE n \in 1..255
  <2>1. file' = [file EXCEPT ![using_set] = cfg']
    BY <1>4 DEF Host!SetBackgroundBrightness, Host!Save
  <2> HIDE DEF c
  <2> QED
    BY <1>2, <1>3, <2>1, SaveInv
<1>5. CASE n \notin 1..255
  <2>1. UNCHANGED file
    BY <1>5 DEF Host!SetBackgroundBrightness
  <2>2. /\ DOMAIN c = DOMAIN cfg /\ c.bgbright = n /\ c.brightness = cfg.brightness
        /\ \A f \in DOMAIN c : f # "bgbright" => c[f] = cfg[f]
    BY <1>2 DEF Settings, Host!Settings
  <2> HIDE DEF c
  <2>3. SettingsAreSaved'
    BY <1>3, <1>5, <2>1, <2>2 DEF SavedInv, SettingsAreSaved, Rejected
  <2> QED
    BY <1>2, <1>3, <2>1, <2>3 DEF SavedInv
<1> QED
  BY <1>4, <1>5

(* The numbers that are clamped instead, and a colour. *)
LEMMA SpreadsInv ==
  ASSUME SavedInv,
         \/ \E n \in Spreads : Host!SetExtend(n)
         \/ \E n \in Times : Host!SetRemain(n)
         \/ \E i \in Host!Colors : Host!SetBackgroundColor(i)
  PROVE  SavedInv'
<1>1. cfg \in Settings
  BY DEF SavedInv
<1>2. ASSUME NEW n \in Int, NEW m \in Int PROVE Host!Clamp(n, m) \in Int
  BY DEF Host!Clamp
<1>3. Spreads \subseteq Int /\ Times \subseteq Int
  BY EffectPianoAssumption DEF Host!EffectHostAssumption
<1>4. ASSUME NEW n \in Spreads, Host!SetExtend(n) PROVE SavedInv'
  <2>1. Host!Clamp(n, 10) \in Int
    BY <1>2, <1>3
  <2>2. [cfg EXCEPT !.num_extend = Host!Clamp(n, 10)] \in Settings
    BY <1>1, <2>1, FieldsType
  <2> QED
    BY <1>4, <2>2, SpreadInv DEF Host!SetExtend
<1>5. ASSUME NEW n \in Times, Host!SetRemain(n) PROVE SavedInv'
  <2>1. Host!Clamp(n, 200) \in Int
    BY <1>2, <1>3
  <2>2. [cfg EXCEPT !.num_remain = Host!Clamp(n, 200)] \in Settings
    BY <1>1, <2>1, FieldsType, ZenonT(60)
  <2> QED
    BY <1>5, <2>2, SpreadInv DEF Host!SetRemain
<1>6. ASSUME NEW i \in Host!Colors, Host!SetBackgroundColor(i) PROVE SavedInv'
  BY <1>1, <1>6, ColorsAreInt, FieldsType, SpreadInv DEF Host!SetBackgroundColor
<1> QED
  BY <1>4, <1>5, <1>6

-----------------------------------------------------------------------------
(* Every handler, typed command and start of the host. *)
LEMMA HostStepInv ==
  ASSUME SavedInv, HostStep
  PROVE  SavedInv'
<1>1. CASE Restart
  BY <1>1, RestartInv
<1>2. CASE Play
  <2>1. PICK k \in Notes : Host!Midi(k) /\ Note("midi", k)
    BY <1>2 DEF Play
  <2>2. "file" \notin drift' => "file" \notin drift
    BY <2>1, DriftKeepsFile
  <2> QED
    BY <2>1, <2>2, SendInv DEF Host!Midi
<1>3. CASE Drifting
  <2>1. "file" \notin drift' => "file" \notin drift
    BY <1>3, DriftKeepsFile DEF Drifting
  <2>2. ASSUME NEW i \in Host!Colors, Host!PickColor(i) PROVE SavedInv'
    BY <2>2, PickColorInv
  <2>3. CASE Host!SwitchBackgroundOff \/ Host!SwitchBackgroundOn
    BY <2>3, SwitchesInv
  <2>4. CASE Host!Effect1 \/ Host!ClearBar
    BY <2>1, <2>4, SendInv DEF Host!Effect1, Host!ClearBar
  <2>5. CASE Host!ContainRainbow \/ Host!RainbowReleased
    BY <2>1, <2>5, RainbowInv
  <2>6. CASE Host!Exit \/ Host!ShutDown
    BY <2>1, <2>6, EndInv
  <2>7. ASSUME NEW i \in Host!Colors, Host!PickBackground(i) PROVE SavedInv'
    BY <2>7, PickBackgroundInv
  <2> QED
    BY <1>3, <2>2, <2>3, <2>4, <2>5, <2>6, <2>7 DEF Drifting
<1>4. CASE Switch
  <2>1. "file" \notin drift' => "file" \notin drift
    BY <1>4, DriftKeepsFile DEF Switch
  <2>2. CASE \/ Host!SwitchCircle \/ Host!SwitchEnds \/ Host!SwitchExtend
             \/ Host!SwitchRemain
    BY <2>2, SwitchesInv
  <2>3. CASE Host!RainbowHeld
    BY <2>1, <2>3, RainbowInv
  <2>4. CASE Host!ContainFrame \/ Host!Tick
    BY <2>1, <2>4, SendInv DEF Host!ContainFrame, Host!Tick
  <2> QED
    BY <1>4, <2>2, <2>3, <2>4 DEF Switch
<1>5. CASE Type
  <2>1. "file" \notin drift' => "file" \notin drift
    BY <1>5, DriftKeepsFile DEF Type
  <2>3. ASSUME NEW n \in Brights, Host!SetBrightness(n) PROVE SavedInv'
    BY <2>1, <2>3, BrightnessInv
  <2>4. ASSUME NEW n \in BackBrights, Host!SetBackgroundBrightness(n) PROVE SavedInv'
    BY <2>1, <2>4, BackgroundInv
  <2>5. CASE \/ \E n \in Spreads : Host!SetExtend(n)
             \/ \E n \in Times : Host!SetRemain(n)
             \/ \E i \in Host!Colors : Host!SetBackgroundColor(i)
    BY <2>5, SpreadsInv
  <2> QED
    BY <1>5, <2>3, <2>4, <2>5 DEF Type
<1> QED
  BY <1>1, <1>2, <1>3, <1>4, <1>5 DEF HostStep

(* At first nothing is running, and the files hold the presets. *)
LEMMA SavedAtFirst == PianoInit => SavedInv
<1> SUFFICES ASSUME PianoInit PROVE SavedInv
  OBVIOUS
<1>1. 1 \in Host!Sets /\ Presets \in [Host!Sets -> Settings]
  BY EffectPianoAssumption DEF Host!EffectHostAssumption, Host!Sets, Settings
<1>2. running = FALSE /\ using_set = 1 /\ file = Presets /\ cfg = Presets[1]
  BY DEF PianoInit, Host!HostInit
<1> QED
  BY <1>1, <1>2 DEF SavedInv, SettingsAreSaved

(* Every handler that changes a setting saves it, so that a later start    *)
(* works with it again, unless the number was rejected; and after "set     *)
(* select" of another preset, whose file has nothing to do with the        *)
(* settings in use, this holds again from the next start() on.             *)
THEOREM SettingsSaved == PianoSpec => []SettingsAreSaved
<1>1. PianoInit => SavedInv
  BY SavedAtFirst
<1>2. SavedInv /\ [PianoNext]_pianoVars => SavedInv'
  <2> SUFFICES ASSUME SavedInv, [PianoNext]_pianoVars PROVE SavedInv'
    OBVIOUS
  <2>1. CASE HostStep
    BY <2>1, HostStepInv
  <2>2. CASE Deliver
    BY <2>2, OthersInv DEF Deliver, ghosts
  <2>3. CASE Lose \/ PowerCycle
    BY <2>3, OthersInv DEF Lose, PowerCycle, Fault
  <2>4. CASE UNCHANGED pianoVars
    BY <2>4, OthersInv DEF pianoVars, ghosts
  <2> QED
    BY <2>1, <2>2, <2>3, <2>4 DEF PianoNext
<1>3. SavedInv => SettingsAreSaved
  BY DEF SavedInv
<1> QED
  BY <1>1, <1>2, <1>3, PTL DEF PianoSpec

-----------------------------------------------------------------------------
(* The host and the firmware, with the line between them. The rest of the  *)
(* module proves ConfigInSync and FlagsFollowKeys: whatever is on the line *)
(* brings the firmware to a state that agrees with the host (SyncInv).     *)
(* First what push() writes of a queue of numbers, and where the bytes of  *)
(* a queue lead: Sends.                                                    *)

(* The two programs number the commands alike. *)
LEMMA HostCodes == Cmd = Host!Code
BY DEF Cmd, Host!Code

-----------------------------------------------------------------------------
(* The library flattens a sequence of sequences by a recursion; Glued says  *)
(* what it computes, and GluedTo the same from 0.                           *)
Glued(f, n, ss) ==
  f = [i \in 1..n |-> IF i = 1 THEN ss[i] ELSE f[i - 1] \o ss[i]]

(* f is such a recursion, of sequences over S. *)
GluedTo(f, ss, S) ==
  /\ f \in [0..Len(ss) -> Seq(S)]
  /\ f[0] = <<>>
  /\ \A i \in 1..Len(ss) : f[i] = f[i - 1] \o ss[i]

(* The recursion has a solution, for every length.                         *)
LEMMA GluedExists ==
  ASSUME NEW ss, NEW n \in Nat
  PROVE  \E f : Glued(f, n, ss)
<1> DEFINE Bad == {k \in Nat : ~ \E f : Glued(f, k, ss)}
<1>1. ASSUME Bad # {} PROVE FALSE
  <2>1. PICK k \in Bad : \A j \in Bad : k <= j
    <3>1. Bad \in SUBSET Nat
      OBVIOUS
    <3> HIDE DEF Bad
    <3> QED
      BY <1>1, <3>1, Least
  <2>2. k # 0
    <3>1. Glued([i \in 1..0 |-> {}], 0, ss)
      BY DEF Glued
    <3> QED
      BY <2>1, <3>1
  <2>3. k \in Nat /\ k - 1 \in Nat /\ ~(k <= k - 1)
    BY <2>1, <2>2
  <2>4. PICK f : Glued(f, k - 1, ss)
    BY <2>1, <2>3
  <2> DEFINE g == [i \in 1..k |-> IF i = 1 THEN ss[i] ELSE f[i - 1] \o ss[i]]
  <2>5. ASSUME NEW i \in 1..(k - 1) PROVE g[i] = f[i]
    <3>1. i \in 1..k
      BY <2>3
    <3>2. f[i] = (IF i = 1 THEN ss[i] ELSE f[i - 1] \o ss[i])
      BY <2>4 DEF Glued
    <3> QED
      BY <3>1, <3>2
  <2>6. g = [i \in 1..k |-> IF i = 1 THEN ss[i] ELSE g[i - 1] \o ss[i]]
    <3>1. ASSUME NEW i \in 1..k, i # 1 PROVE g[i - 1] = f[i - 1]
      <4>1. i - 1 \in 1..(k - 1)
        BY <2>3, <3>1
      <4> QED
        BY <2>5, <4>1
    <3> QED
      BY <3>1
  <2>7. Glued(g, k, ss)
    BY <2>6 DEF Glued
  <2> QED
    BY <2>1, <2>7
<1> QED
  BY <1>1

(* What the library computes is the last of the prefixes glued together.   *)
LEMMA FlattenIs ==
  ASSUME NEW S, NEW ss \in Seq(Seq(S))
  PROVE  \E f : GluedTo(f, ss, S) /\ Host!FlattenSeq(ss) = f[Len(ss)]
<1> DEFINE n == Len(ss)
<1>1. n \in Nat /\ \A i \in 1..n : ss[i] \in Seq(S)
  BY ElementOfSeq
<1>2. CASE n = 0
  <2> DEFINE f == [i \in 0..0 |-> <<>>]
  <2>1. ss = <<>> /\ Host!FlattenSeq(ss) = ss
    BY <1>2 DEF Host!FlattenSeq
  <2>2. GluedTo(f, ss, S)
    BY <1>2 DEF GluedTo
  <2> QED
    BY <1>2, <2>1, <2>2
<1>3. CASE n # 0
  <2> DEFINE g == CHOOSE f : Glued(f, n, ss)
             f == [i \in 0..n |-> IF i = 0 THEN <<>> ELSE g[i]]
  <2>1. Host!FlattenSeq(ss) = g[n]
    BY <1>3 DEF Host!FlattenSeq, Glued
  <2>2. Glued(g, n, ss)
    BY <1>1, GluedExists
  <2> HIDE DEF g
  <2>3. \A i \in 1..n : g[i] = (IF i = 1 THEN ss[i] ELSE g[i - 1] \o ss[i])
    BY <2>2 DEF Glued
  <2>4. f[0] = <<>> /\ (\A i \in 1..n : f[i] = g[i]) /\ f[n] = g[n]
    BY <1>1, <1>3
  <2>5. DOMAIN f = 0..n /\ f = [i \in 0..n |-> f[i]]
    OBVIOUS
  <2> HIDE DEF f
  <2>6. ASSUME NEW i \in 1..n PROVE f[i] = f[i - 1] \o ss[i]
    <3>1. CASE i = 1
      <4>1. <<>> \o ss[i] = ss[i]
        BY <1>1, ConcatEmptySeq
      <4>2. i - 1 = 0
        BY <3>1
      <4> QED
        BY <2>3, <2>4, <3>1, <4>1, <4>2
    <3>2. CASE i # 1
      <4>1. i - 1 \in 1..n
        BY <1>1, <3>2
      <4> QED
        BY <2>3, <2>4, <3>2, <4>1
    <3> QED
      BY <3>1, <3>2
  <2>7. \A i \in 0..n : f[i] \in Seq(S)
    <3> DEFINE Bad == {i \in 0..n : f[i] \notin Seq(S)}
    <3>1. ASSUME Bad # {} PROVE FALSE
      <4>1. PICK k \in Bad : \A j \in Bad : k <= j
        <5>1. Bad \in SUBSET Nat
          BY <1>1
        <5> HIDE DEF Bad
        <5> QED
          BY <3>1, <5>1, Least
      <4>2. k # 0
        BY <2>4, <4>1, EmptySeq
      <4>3. k \in 1..n /\ k - 1 \in 0..n /\ ~(k <= k - 1)
        BY <1>1, <4>1, <4>2
      <4>4. f[k - 1] \in Seq(S)
        BY <4>1, <4>3
      <4>5. f[k] \in Seq(S)
        BY <1>1, <2>6, <4>3, <4>4, ConcatProperties
      <4> QED
        BY <4>1, <4>5
    <3> QED
      BY <3>1
  <2>8. GluedTo(f, ss, S)
    BY <2>4, <2>5, <2>6, <2>7 DEF GluedTo
  <2> QED
    BY <2>1, <2>4, <2>8
<1> QED
  BY <1>2, <1>3

(* There is one way to glue. *)
LEMMA GluedOnce ==
  ASSUME NEW S, NEW ss \in Seq(Seq(S)), NEW f, GluedTo(f, ss, S)
  PROVE  Host!FlattenSeq(ss) = f[Len(ss)]
<1>1. PICK g : GluedTo(g, ss, S) /\ Host!FlattenSeq(ss) = g[Len(ss)]
  BY FlattenIs
<1> DEFINE n == Len(ss)
           Bad == {i \in 0..n : f[i] # g[i]}
<1>2. n \in Nat
  OBVIOUS
<1>3. ASSUME Bad # {} PROVE FALSE
  <2>1. PICK k \in Bad : \A j \in Bad : k <= j
    <3>1. Bad \in SUBSET Nat
      BY <1>2
    <3> HIDE DEF Bad
    <3> QED
      BY <1>3, <3>1, Least
  <2>2. k # 0
    BY <1>1, <2>1 DEF GluedTo
  <2>3. k \in 1..n /\ k - 1 \in 0..n /\ ~(k <= k - 1)
    BY <1>2, <2>1, <2>2
  <2>4. f[k - 1] = g[k - 1]
    BY <2>1, <2>3
  <2>5. f[k] = g[k]
    BY <1>1, <2>3, <2>4 DEF GluedTo
  <2> QED
    BY <2>1, <2>5
<1>4. n \in 0..n
  BY <1>2
<1> QED
  BY <1>1, <1>3, <1>4

(* Flattening one part after another. *)
LEMMA FlattenConcat ==
  ASSUME NEW S, NEW ss \in Seq(Seq(S)), NEW tt \in Seq(Seq(S))
  PROVE  /\ Host!FlattenSeq(ss) \in Seq(S)
         /\ Host!FlattenSeq(ss \o tt) = Host!FlattenSeq(ss) \o Host!FlattenSeq(tt)
<1> DEFINE n == Len(ss)
           k == Len(tt)
           uu == ss \o tt
<1>1. n \in Nat /\ k \in Nat /\ uu \in Seq(Seq(S)) /\ Len(uu) = n + k
      /\ (\A i \in 1..n : uu[i] = ss[i])
      /\ (\A i \in 1..k : uu[n + i] = tt[i] /\ tt[i] \in Seq(S))
  BY ConcatProperties, ElementOfSeq
<1>2. PICK f : GluedTo(f, ss, S) /\ Host!FlattenSeq(ss) = f[n]
  BY FlattenIs
<1>3. PICK g : GluedTo(g, tt, S) /\ Host!FlattenSeq(tt) = g[k]
  BY FlattenIs
<1> HIDE DEF uu
<1>4. /\ \A i \in 0..n : f[i] \in Seq(S)
      /\ \A i \in 0..k : g[i] \in Seq(S)
      /\ f[0] = <<>> /\ g[0] = <<>>
      /\ \A i \in 1..n : f[i] = f[i - 1] \o ss[i]
      /\ \A i \in 1..k : g[i] = g[i - 1] \o tt[i]
  BY <1>2, <1>3 DEF GluedTo
<1>5. f[n] \in Seq(S) /\ f[n] \o <<>> = f[n]
  BY <1>1, <1>4, ConcatEmptySeq
<1> HIDE DEF n, k
<1> DEFINE h == [i \in 0..(n + k) |-> IF i <= n THEN f[i] ELSE f[n] \o g[i - n]]
<1>6. /\ \A i \in 0..n : h[i] = f[i]
      /\ \A i \in 0..k : h[n + i] = f[n] \o g[i]
  <2>1. ASSUME NEW i \in 0..n PROVE h[i] = f[i]
    BY <1>1
  <2>2. ASSUME NEW i \in 0..k PROVE h[n + i] = f[n] \o g[i]
    <3>1. CASE i = 0
      <4>1. n + i = n /\ n \in 0..n
        BY <1>1, <3>1
      <4> QED
        BY <1>4, <1>5, <2>1, <3>1, <4>1
    <3>2. CASE i # 0
      <4>1. ~(n + i <= n) /\ (n + i) - n = i /\ n + i \in 0..(n + k)
        BY <1>1, <3>2
      <4> QED
        BY <4>1
    <3> QED
      BY <3>1, <3>2
  <2> QED
    BY <2>1, <2>2
<1>7. h \in [0..(n + k) -> Seq(S)]
  <2> SUFFICES ASSUME NEW i \in 0..(n + k) PROVE h[i] \in Seq(S)
    OBVIOUS
  <2>1. CASE i <= n
    BY <1>1, <1>4, <2>1
  <2>2. CASE ~(i <= n)
    <3>1. i - n \in 0..k
      BY <1>1, <2>2
    <3>2. f[n] \o g[i - n] \in Seq(S)
      BY <1>4, <1>5, <3>1, ConcatProperties
    <3> QED
      BY <2>2, <3>2
  <2> QED
    BY <2>1, <2>2
<1> HIDE DEF h
<1>8. ASSUME NEW i \in 1..(n + k) PROVE h[i] = h[i - 1] \o uu[i]
  <2>1. CASE i <= n
    <3>1. i \in 0..n /\ i - 1 \in 0..n /\ i \in 1..n
      BY <1>1, <2>1
    <3> QED
      BY <1>1, <1>4, <1>6, <3>1
  <2>2. CASE ~(i <= n)
    <3> DEFINE j == i - n
    <3>1. j \in 1..k /\ j \in 0..k /\ j - 1 \in 0..k /\ i = n + j /\ i - 1 = n + (j - 1)
      BY <1>1, <2>2
    <3> HIDE DEF j
    <3>2. h[i] = f[n] \o (g[j - 1] \o tt[j]) /\ h[i - 1] = f[n] \o g[j - 1] /\ uu[i] = tt[j]
      BY <1>1, <1>4, <1>6, <3>1
    <3>3. g[j - 1] \in Seq(S) /\ tt[j] \in Seq(S)
      BY <1>1, <1>4, <3>1
    <3>4. f[n] \o (g[j - 1] \o tt[j]) = (f[n] \o g[j - 1]) \o tt[j]
      <4> DEFINE a == f[n]
                 b == g[j - 1]
                 c == tt[j]
      <4>1. a \in Seq(S) /\ b \in Seq(S) /\ c \in Seq(S)
        BY <1>5, <3>3
      <4> HIDE DEF a, b, c
      <4>2. a \o (b \o c) = (a \o b) \o c
        BY <4>1, ConcatAssociative, SMTT(40)
      <4> QED
        BY <4>2 DEF a, b, c
    <3> QED
      BY <3>2, <3>4
  <2> QED
    BY <2>1, <2>2
<1>9. GluedTo(h, uu, S)
  <2>1. h[0] = <<>>
    BY <1>1, <1>4, <1>6
  <2> QED
    BY <1>1, <1>7, <1>8, <2>1 DEF GluedTo
<1>10. Host!FlattenSeq(uu) = h[n + k]
  BY <1>1, <1>9, GluedOnce
<1>11. h[n + k] = f[n] \o g[k]
  <2>1. k \in 0..k
    BY <1>1
  <2> QED
    BY <1>6, <2>1
<1> QED
  BY <1>2, <1>3, <1>5, <1>10, <1>11 DEF uu

-----------------------------------------------------------------------------
(* What push() writes of one number. *)
LEMMA WrittenIs ==
  ASSUME Legible, NEW n \in Int
  PROVE  /\ Host!Written(n) \in Seq(Byte)
         /\ n % 256 \in Byte
         /\ n % 256 = 0 => Host!Written(n) = <<>>
         /\ n % 256 # 0 => Host!Written(n) = <<n % 256>>
<1>1. n % 256 \in Byte
  BY DEF Byte
<1>2. <<n % 256>> \o <<>> = <<n % 256>> /\ <<n % 256>> \in Seq(Byte)
  BY <1>1, ConcatEmptySeq
<1>3. CommuTail = <<>>
  BY ZenonT(60) DEF Legible
<1> QED
  BY <1>1, <1>2, <1>3 DEF Host!Written

(* Putting two sequences of known lengths together. *)
LEMMA ConcatIs ==
  ASSUME NEW S, NEW a \in Seq(S), NEW b \in Seq(S), NEW n, NEW k, Len(a) = n, Len(b) = k
  PROVE  /\ a \o b \in Seq(S) /\ Len(a \o b) = n + k
         /\ \A i \in 1..(n + k) : (a \o b)[i] = IF i <= n THEN a[i] ELSE b[i - n]
BY ConcatProperties

(* What push() writes of each number in a queue. *)
LEMMA WrittenEach ==
  ASSUME Legible, NEW q \in Seq(Int), NEW w, w = [i \in DOMAIN q |-> Host!Written(q[i])]
  PROVE  /\ w \in Seq(Seq(Byte)) /\ Len(w) = Len(q)
         /\ \A i \in 1..Len(q) : w[i] = Host!Written(q[i])
<1>1. Len(q) \in Nat /\ DOMAIN q = 1..Len(q) /\ \A i \in 1..Len(q) : q[i] \in Int
  BY ElementOfSeq
<1>2. \A i \in 1..Len(q) : Host!Written(q[i]) \in Seq(Byte)
  BY <1>1, WrittenIs
<1>3. w \in [1..Len(q) -> Seq(Byte)]
  BY <1>1, <1>2
<1> QED
  BY <1>1, <1>3

(* What push() writes of a queue. *)
LEMMA TransmitConcat ==
  ASSUME Legible, NEW s \in Seq(Int), NEW u \in Seq(Int)
  PROVE  /\ Host!Transmit(s) \in Seq(Byte)
         /\ Host!Transmit(s \o u) = Host!Transmit(s) \o Host!Transmit(u)
<1> DEFINE W(q) == [i \in DOMAIN q |-> Host!Written(q[i])]
<1>1. ASSUME NEW q \in Seq(Int)
      PROVE  /\ W(q) \in Seq(Seq(Byte)) /\ Len(W(q)) = Len(q)
             /\ \A i \in 1..Len(q) : W(q)[i] = Host!Written(q[i])
  BY WrittenEach
<1>2. W(s \o u) = W(s) \o W(u)
  <2>1. s \o u \in Seq(Int) /\ Len(s \o u) = Len(s) + Len(u) /\ Len(s) \in Nat /\ Len(u) \in Nat
        /\ \A i \in 1..(Len(s) + Len(u)) :
             (s \o u)[i] = IF i <= Len(s) THEN s[i] ELSE u[i - Len(s)]
    BY ConcatProperties
  <2>2. /\ W(s) \o W(u) \in Seq(Seq(Byte))
        /\ Len(W(s) \o W(u)) = Len(s) + Len(u)
        /\ \A i \in 1..(Len(s) + Len(u)) :
             (W(s) \o W(u))[i] = IF i <= Len(s) THEN W(s)[i] ELSE W(u)[i - Len(s)]
    <3> HIDE DEF W
    <3>1. W(s) \in Seq(Seq(Byte)) /\ W(u) \in Seq(Seq(Byte)) /\ Len(W(s)) = Len(s)
          /\ Len(W(u)) = Len(u)
      BY <1>1
    <3> DEFINE T == Seq(Byte)
               a == W(s)
               b == W(u)
               n == Len(s)
               k == Len(u)
    <3>2. a \in Seq(T) /\ b \in Seq(T) /\ Len(a) = n /\ Len(b) = k
      BY <3>1
    <3> HIDE DEF T, a, b, n, k
    <3>3. /\ a \o b \in Seq(T) /\ Len(a \o b) = n + k
          /\ \A i \in 1..(n + k) : (a \o b)[i] = IF i <= n THEN a[i] ELSE b[i - n]
      BY <3>2, ConcatIs
    <3> QED
      BY <3>3 DEF T, a, b, n, k
  <2>3. /\ W(s \o u) \in Seq(Seq(Byte)) /\ Len(W(s \o u)) = Len(s) + Len(u)
        /\ \A i \in 1..(Len(s) + Len(u)) : W(s \o u)[i] = Host!Written((s \o u)[i])
    BY <1>1, <2>1
  <2>4. ASSUME NEW i \in 1..(Len(s) + Len(u)) PROVE W(s \o u)[i] = (W(s) \o W(u))[i]
    <3> HIDE DEF W
    <3>1. CASE i <= Len(s)
      <4>1. i \in 1..Len(s)
        BY <3>1
      <4> QED
        BY <1>1, <2>1, <2>2, <2>3, <3>1, <4>1
    <3>2. CASE ~(i <= Len(s))
      <4>1. i - Len(s) \in 1..Len(u)
        BY <2>1, <3>2
      <4> QED
        BY <1>1, <2>1, <2>2, <2>3, <3>2, <4>1
    <3> QED
      BY <3>1, <3>2
  <2> HIDE DEF W
  <2> QED
    BY <2>2, <2>3, <2>4, SeqEqual
<1> HIDE DEF W
<1>3. Host!Transmit(s) = Host!FlattenSeq(W(s)) /\ Host!Transmit(u) = Host!FlattenSeq(W(u))
      /\ Host!Transmit(s \o u) = Host!FlattenSeq(W(s \o u))
  BY DEF Host!Transmit, W
<1> DEFINE a == W(s)
           b == W(u)
<1>4. a \in Seq(Seq(Byte)) /\ b \in Seq(Seq(Byte))
  BY <1>1
<1> HIDE DEF a, b
<1>5. /\ Host!FlattenSeq(a) \in Seq(Byte)
      /\ Host!FlattenSeq(a \o b) = Host!FlattenSeq(a) \o Host!FlattenSeq(b)
  BY <1>4, FlattenConcat
<1> QED
  BY <1>2, <1>3, <1>5 DEF a, b

(* A queue without a 0 goes out as it is, but for the high bytes.          *)
LEMMA TransmitAll ==
  ASSUME Legible, NEW s \in Seq(Int), \A i \in 1..Len(s) : s[i] % 256 # 0
  PROVE  Host!Transmit(s) = [i \in 1..Len(s) |-> s[i] % 256]
<1> DEFINE n == Len(s)
           w == [i \in DOMAIN s |-> Host!Written(s[i])]
           f == [i \in 0..n |-> [j \in 1..i |-> s[j] % 256]]
<1>1. n \in Nat /\ DOMAIN s = 1..n /\ \A i \in 1..n : s[i] \in Int
  BY ElementOfSeq
<1>2. ASSUME NEW i \in 1..n
      PROVE  Host!Written(s[i]) = <<s[i] % 256>> /\ Host!Written(s[i]) \in Seq(Byte)
             /\ s[i] % 256 \in Byte
  BY <1>1, WrittenIs, ZenonT(60)
<1>3. w \in Seq(Seq(Byte)) /\ Len(w) = n /\ \A i \in 1..n : w[i] = <<s[i] % 256>>
  <2>1. w \in [1..n -> Seq(Byte)]
    BY <1>1, <1>2
  <2> QED
    BY <1>1, <1>2, <2>1
<1> HIDE DEF w
<1>4. \A i \in 0..n : f[i] = [j \in 1..i |-> s[j] % 256]
  OBVIOUS
<1>5. ASSUME NEW i \in 0..n
      PROVE  f[i] \in Seq(Byte) /\ Len(f[i]) = i /\ \A j \in 1..i : f[i][j] = s[j] % 256
  <2>1. [j \in 1..i |-> s[j] % 256] \in [1..i -> Byte]
    BY <1>1, <1>2
  <2> QED
    BY <1>1, <1>4, <2>1
<1>D. f = [i \in 0..n |-> f[i]]
  OBVIOUS
<1> HIDE DEF f
<1>6. f[0] = <<>>
  BY <1>1, <1>5, EmptySeq
<1>7. ASSUME NEW i \in 1..n PROVE f[i] = f[i - 1] \o w[i]
  <2>1. i \in 0..n /\ i - 1 \in 0..n /\ i - 1 \in Nat /\ (i - 1) + 1 = i
    BY <1>1
  <2> DEFINE a == f[i - 1]
             b == s[i] % 256
  <2>2. a \in Seq(Byte) /\ Len(a) = i - 1 /\ (\A j \in 1..(i - 1) : a[j] = s[j] % 256)
        /\ b \in Byte /\ w[i] = <<b>>
    BY <1>2, <1>3, <1>5, <2>1, SMTT(40)
  <2>3. f[i] \in Seq(Byte) /\ Len(f[i]) = i /\ (\A j \in 1..i : f[i][j] = s[j] % 256)
    BY <1>5, <2>1
  <2>B. f[i][i] = b
    BY <2>1, <2>3
  <2> HIDE DEF a, b
  <2>4. Append(a, b) \in Seq(Byte) /\ Len(Append(a, b)) = i
        /\ (\A j \in 1..(i - 1) : Append(a, b)[j] = a[j]) /\ Append(a, b)[i] = b
    BY <2>1, <2>2, AppendProperties
  <2>5. \A j \in 1..i : f[i][j] = Append(a, b)[j]
    <3> SUFFICES ASSUME NEW j \in 1..i PROVE f[i][j] = Append(a, b)[j]
      OBVIOUS
    <3>1. CASE j = i
      BY <2>4, <2>B, <3>1
    <3>2. CASE j # i
      <4>1. j \in 1..(i - 1)
        BY <2>1, <3>2
      <4> QED
        BY <2>2, <2>3, <2>4, <4>1
    <3> QED
      BY <3>1, <3>2
  <2>6. f[i] = Append(a, b)
    BY <2>3, <2>4, <2>5, SeqEqual, ZenonT(60)
  <2>7. Append(a, b) = a \o <<b>>
    BY <2>2, AppendIsConcat
  <2> QED
    BY <2>2, <2>6, <2>7 DEF a
<1>8. GluedTo(f, w, Byte)
  BY <1>3, <1>5, <1>6, <1>7, <1>D DEF GluedTo
<1>9. Host!Transmit(s) = f[n]
  BY <1>3, <1>8, GluedOnce DEF Host!Transmit, w
<1>10. n \in 0..n
  BY <1>1
<1> QED
  BY <1>9, <1>10 DEF f

(* A 0 does not go out. *)
LEMMA TransmitZero ==
  ASSUME Legible, NEW n \in Int, n % 256 = 0
  PROVE  Host!Transmit(<<n>>) = <<>>
<1> DEFINE w == [i \in DOMAIN <<n>> |-> Host!Written(<<n>>[i])]
<1>1. Host!Written(n) = <<>>
  BY DEF Host!Written
<1>2. w \in Seq(Seq(Byte)) /\ Len(w) = 1 /\ w[1] = <<>>
  <2>1. <<n>> \in Seq(Int) /\ Len(<<n>>) = 1 /\ <<n>>[1] = n /\ 1 \in 1..1
    OBVIOUS
  <2>2. w = [i \in DOMAIN <<n>> |-> Host!Written(<<n>>[i])]
    OBVIOUS
  <2> HIDE DEF w
  <2> QED
    BY <1>1, <2>1, <2>2, WrittenEach, ZenonT(60)
<1> HIDE DEF w
<1>3. PICK f : GluedTo(f, w, Byte) /\ Host!FlattenSeq(w) = f[1]
  BY <1>2, FlattenIs
<1>4. f[0] = <<>> /\ f[1] = f[1 - 1] \o w[1] /\ 1 - 1 = 0
  BY <1>2, <1>3 DEF GluedTo
<1>5. <<>> \o <<>> = <<>>
  OBVIOUS
<1> QED
  BY <1>2, <1>3, <1>4, <1>5 DEF Host!Transmit, w

-----------------------------------------------------------------------------
(* The bytes of the queue s lead the firmware from x to Q. *)
Sends(x, s, Q) == s \in Seq(Int) /\ Leads(x, Host!Transmit(s), Q)

(* One queue after another. *)
LEMMA SendsThen ==
  ASSUME Legible, NEW x, NEW s, NEW P, NEW Q, NEW u \in Seq(Int), Sends(x, s, P),
         \A y \in FwStates : y \in P => Sends(y, u, Q)
  PROVE  Sends(x, s \o u, Q)
<1>1. s \in Seq(Int) /\ Host!Transmit(s) \in Seq(Byte) /\ Host!Transmit(u) \in Seq(Byte)
      /\ Host!Transmit(s \o u) = Host!Transmit(s) \o Host!Transmit(u)
      /\ s \o u \in Seq(Int)
  BY TransmitConcat, ConcatProperties DEF Sends
<1>2. Leads(x, Host!Transmit(s), P) /\ \A y \in FwStates : y \in P => Leads(y, Host!Transmit(u), Q)
  BY DEF Sends
<1>3. Leads(x, Host!Transmit(s) \o Host!Transmit(u), Q)
  BY <1>1, <1>2, LeadsThen
<1> QED
  BY <1>1, <1>3 DEF Sends

(* Less is known of the end. *)
LEMMA SendsTo ==
  ASSUME Legible, NEW x, NEW s, NEW P, NEW Q, Sends(x, s, P), \A y \in FwStates : y \in P => y \in Q
  PROVE  Sends(x, s, Q)
<1>1. s \in Seq(Int) /\ Host!Transmit(s) \in Seq(Byte) /\ Leads(x, Host!Transmit(s), P)
  BY TransmitConcat DEF Sends
<1> QED
  BY <1>1, LeadsTo DEF Sends

(* The elements of a queue are numbers. *)
LEMMA Numbers ==
  ASSUME NEW s \in Seq(Int)
  PROVE  Len(s) \in Nat /\ \A i \in 1..Len(s) : s[i] \in Int /\ s[i] % 256 \in Byte
<1>1. Len(s) \in Nat /\ \A i \in 1..Len(s) : s[i] \in Int
  OBVIOUS
<1>2. \A n \in Int : n % 256 \in Byte
  BY DEF Byte
<1> QED
  BY <1>1, <1>2

(* What a command makes of x: only reset leaves loop(). *)
Handles(x, m) ==
  {y \in FwStates : Outcome(x, m, y) /\ (m[1] # Cmd.reset => y \in Ready)}

(* A whole message is handled. *)
LEMMA SendsMessage ==
  ASSUME Legible, NEW x \in Ready, NEW s \in Seq(Int), NEW m, m = [i \in 1..Len(s) |-> s[i] % 256],
         \A i \in 1..Len(s) : s[i] % 256 # 0, Len(s) = Arity(m[1]) + 1
  PROVE  Sends(x, s, Handles(x, m))
<1>1. Len(s) \in Nat /\ \A i \in 1..Len(s) : s[i] \in Int /\ s[i] % 256 \in Byte
  BY Numbers
<1>2. m \in Seq(Byte) /\ Len(m) = Len(s)
  <2>1. m \in [1..Len(s) -> Byte]
    BY <1>1
  <2> QED
    BY <1>1, <2>1, SMTT(40)
<1>3. m[1] \in Int
  <2>1. 1 \in 1..Len(m)
    BY <1>1, <1>2, Arities
  <2>2. m[1] \in Byte
    BY <1>2, <2>1, ElementOfSeq
  <2> QED
    BY <2>2 DEF Byte
<1>4. Host!Transmit(s) = m
  BY TransmitAll
<1>5. x \in FwTypes
  BY DEF Ready, FwStates
<1>6. Handled(x, m) \in FwStates /\ Outcome(x, m, Handled(x, m))
  BY <1>2, <1>3, <1>5, HandledType, Effects
<1>7. Leads(x, m, {Handled(x, m)})
  BY <1>2, LeadsMessage
<1>8. m[1] # Cmd.reset => Handled(x, m) \in Ready
  BY <1>6, ZenonT(60) DEF Ready, Handled
<1>9. Leads(x, m, Handles(x, m))
  BY <1>2, <1>6, <1>7, <1>8, LeadsTo, SMTT(40) DEF Handles
<1> QED
  BY <1>4, <1>9 DEF Sends

(* A byte of its own. *)
LEMMA SendsOne ==
  ASSUME Legible, NEW x \in Ready, NEW n \in Int, NEW c, c = n % 256, c # 0, Arity(c) = 0
  PROVE  Sends(x, <<n>>, Handles(x, <<c>>))
<1> DEFINE s == <<n>>
           m == <<c>>
<1>1. s \in Seq(Int) /\ Len(s) = 1 /\ s[1] = n
  OBVIOUS
<1>2. m = [i \in 1..1 |-> s[i] % 256] /\ m[1] = c
  BY <1>1
<1>3. \A i \in 1..1 : s[i] % 256 # 0
  BY <1>1
<1> HIDE DEF s, m
<1>a. m = [i \in 1..Len(s) |-> s[i] % 256] /\ (\A i \in 1..Len(s) : s[i] % 256 # 0)
      /\ Len(s) = Arity(m[1]) + 1
  BY <1>1, <1>2, <1>3
<1>4. Sends(x, s, Handles(x, m))
  BY <1>1, <1>a, SendsMessage
<1> QED
  BY <1>4 DEF s, m

(* A command with a number. *)
LEMMA SendsTwo ==
  ASSUME Legible, NEW x \in Ready, NEW c \in 1..255, Arity(c) = 1, NEW n \in Int, n % 256 # 0
  PROVE  Sends(x, <<c, n>>, Handles(x, <<c, n % 256>>))
<1> DEFINE s == <<c, n>>
           m == <<c, n % 256>>
<1>0. c % 256 = c /\ c # 0 /\ c \in Int
  OBVIOUS
<1>1. s \in Seq(Int) /\ Len(s) = 2 /\ s[1] = c /\ s[2] = n
  BY <1>0
<1>2. m = [i \in 1..2 |-> s[i] % 256] /\ m[1] = c
  BY <1>0, <1>1
<1>3. \A i \in 1..2 : s[i] % 256 # 0
  BY <1>0, <1>1
<1> HIDE DEF s, m
<1>a. m = [i \in 1..Len(s) |-> s[i] % 256] /\ (\A i \in 1..Len(s) : s[i] % 256 # 0)
      /\ Len(s) = Arity(m[1]) + 1
  BY <1>1, <1>2, <1>3
<1>4. Sends(x, s, Handles(x, m))
  BY <1>1, <1>a, SendsMessage
<1> QED
  BY <1>4 DEF s, m

(* A command with a colour. *)
LEMMA SendsThree ==
  ASSUME Legible, NEW x \in Ready, NEW c \in 1..255, Arity(c) = NumChannels,
         NEW p \in [Channels -> Int], \A ch \in Channels : p[ch] % 256 # 0
  PROVE  \E m : /\ Sends(x, <<c>> \o p, Handles(x, m))
                /\ m[1] = c /\ Told(m) = LowByte(p)
<1> DEFINE s == <<c>> \o p
           n == NumChannels
           m == [i \in 1..(n + 1) |-> s[i] % 256]
<1>0. c % 256 = c /\ c # 0 /\ c \in Int /\ n \in Nat \ {0}
  BY Arities, LightBarAssumption
<1>1. p \in Seq(Int) /\ Len(p) = n /\ <<c>> \in Seq(Int) /\ Len(<<c>>) = 1 /\ <<c>>[1] = c
  BY <1>0 DEF Channels
<1>2. s \in Seq(Int) /\ Len(s) = 1 + n
      /\ \A i \in 1..(1 + n) : s[i] = IF i <= 1 THEN <<c>>[i] ELSE p[i - 1]
  BY <1>1, ConcatIs
<1> HIDE DEF s
<1>3. s[1] = c /\ \A ch \in Channels : s[ch + 1] = p[ch]
  <2>1. 1 \in 1..(1 + n)
    BY <1>0
  <2>2. ASSUME NEW ch \in Channels PROVE s[ch + 1] = p[ch]
    <3>1. ch + 1 \in 1..(1 + n) /\ ~(ch + 1 <= 1) /\ (ch + 1) - 1 = ch
      BY <1>0 DEF Channels
    <3> QED
      BY <1>2, <3>1
  <2> QED
    BY <1>1, <1>2, <2>1, <2>2
<1>4. \A i \in 1..(n + 1) : s[i] % 256 # 0
  <2> SUFFICES ASSUME NEW i \in 1..(n + 1) PROVE s[i] % 256 # 0
    OBVIOUS
  <2>1. CASE i = 1
    BY <1>0, <1>3, <2>1
  <2>2. CASE i # 1
    <3>1. i - 1 \in Channels /\ (i - 1) + 1 = i
      BY <1>0, <2>2 DEF Channels
    <3> QED
      BY <1>3, <3>1
  <2> QED
    BY <2>1, <2>2
<1>5. m[1] = c
  <2>1. 1 \in 1..(n + 1)
    BY <1>0
  <2> QED
    BY <1>0, <1>3, <2>1
<1>6. Told(m) = LowByte(p)
  <2>1. ASSUME NEW ch \in Channels PROVE m[ch + 1] = p[ch] % 256
    <3>1. ch + 1 \in 1..(n + 1)
      BY <1>0 DEF Channels
    <3> QED
      BY <1>3, <3>1
  <2> HIDE DEF m
  <2> QED
    BY <2>1 DEF LowByte, Told
<1>7. m = [i \in 1..Len(s) |-> s[i] % 256] /\ Len(s) = Arity(m[1]) + 1
  <2>1. Len(s) = n + 1
    BY <1>0, <1>2
  <2>2. m = [i \in 1..Len(s) |-> s[i] % 256]
    BY <2>1
  <2> QED
    BY <1>5, <2>1, <2>2
<1> HIDE DEF m
<1>8. Sends(x, s, Handles(x, m))
  <2>1. \A i \in 1..Len(s) : s[i] % 256 # 0
    BY <1>0, <1>2, <1>4
  <2> QED
    BY <1>2, <1>7, <2>1, SendsMessage
<1> QED
  BY <1>5, <1>6, <1>8 DEF s

-----------------------------------------------------------------------------
(* Where each command leads. *)

(* The states between two commands that differ from x in the fields F only. *)
But(x, F) == {y \in Ready : Same(x, y, F)}

(* The codes of the commands are bytes. *)
LEMMA CodeBytes ==
  ASSUME Legible
  PROVE  \A c \in 1..(NumKeys + 39) : c \in 1..255 /\ c \in Int /\ c % 256 = c /\ c # 0
<1> DEFINE K == NumKeys
<1>1. K \in Nat /\ K <= 88
  BY Codes, ZenonT(60) DEF Legible
<1> HIDE DEF K
<1>2. \A c \in 1..(K + 39) : c \in 1..255 /\ c \in Int /\ c % 256 = c /\ c # 0
  BY <1>1
<1> QED
  BY <1>2 DEF K

(* The commands without a parameter. *)
LEMMA Switches ==
  ASSUME Legible, NEW x \in Ready
  PROVE  /\ Sends(x, <<Cmd.clear>>, {y \in But(x, {"flag"}) : y.flag = NoKeys})
         /\ Sends(x, <<Cmd.circleOff>>, {y \in But(x, {"flagc"}) : ~y.flagc})
         /\ Sends(x, <<Cmd.circleOn>>, {y \in But(x, {"flagc"}) : y.flagc})
         /\ Sends(x, <<Cmd.endsOff>>, {y \in But(x, {"flagz"}) : ~y.flagz})
         /\ Sends(x, <<Cmd.endsOn>>, {y \in But(x, {"flagz"}) : y.flagz})
         /\ Sends(x, <<Cmd.rainbowOff>>, {y \in But(x, {"rbstatus"}) : ~y.rbstatus})
         /\ Sends(x, <<Cmd.rainbowOn>>, {y \in But(x, {"rbstatus"}) : y.rbstatus})
         /\ Sends(x, <<Cmd.extendOff>>, {y \in But(x, {"extend"}) : ~y.extend})
         /\ Sends(x, <<Cmd.remainOff>>, {y \in But(x, {"rm_status"}) : ~y.rm_status})
         /\ Sends(x, <<Cmd.backOff>>, {y \in But(x, {"on_background"}) : ~y.on_background})
         /\ Sends(x, <<Cmd.tick>>, But(x, {}))
         /\ Sends(x, <<Cmd.wake>>, But(x, {}))
<1>1. ASSUME NEW c \in 1..(NumKeys + 39), Arity(c) = 0, NEW Q,
             \A y \in FwStates : y \in Handles(x, <<c>>) => y \in Q
      PROVE  Sends(x, <<c>>, Q)
  <2>1. c \in Int /\ c % 256 = c /\ c # 0
    BY CodeBytes
  <2>2. Sends(x, <<c>>, Handles(x, <<c>>))
    BY <1>1, <2>1, SendsOne
  <2> QED
    BY <1>1, <2>2, SendsTo
<1>2. ASSUME NEW c \in 1..(NumKeys + 39), c # Cmd.reset, NEW y \in Handles(x, <<c>>)
      PROVE  y \in Ready /\ y.pend = <<>> /\ x.pend = <<>> /\ Outcome(x, <<c>>, y) /\ <<c>>[1] = c
  BY <1>2 DEF Handles, Ready
<1>3. ASSUME NEW F, NEW y \in Ready, Same(x, y, {"pend"} \cup F)
      PROVE  y \in But(x, F)
  <2>1. y.pend = x.pend
    BY DEF Ready
  <2>2. \A f : f # "pend" => (f \in {"pend"} \cup F <=> f \in F)
    OBVIOUS
  <2> QED
    BY <1>3, <2>1, <2>2 DEF Same, But
<1>4. Sends(x, <<Cmd.clear>>, {y \in But(x, {"flag"}) : y.flag = NoKeys})
  <2> DEFINE c == Cmd.clear
  <2>1. c \in 1..(NumKeys + 39) /\ Arity(c) = 0 /\ c # Cmd.reset
    BY Codes, ArityIs
  <2>2. ASSUME NEW y \in Handles(x, <<c>>) PROVE y \in But(x, {"flag"}) /\ y.flag = NoKeys
    <3>0. y \in Ready /\ Outcome(x, <<c>>, y) /\ <<c>>[1] = Cmd.clear
      BY <1>2, <2>1
    <3>1. Same(x, y, {"pend", "flag"}) /\ y \in Ready /\ y.flag = NoKeys
      BY <3>0 DEF Outcome
    <3> QED
      BY <1>3, <3>1
  <2> QED
    BY <1>1, <2>1, <2>2
<1>5. Sends(x, <<Cmd.circleOff>>, {y \in But(x, {"flagc"}) : ~y.flagc})
  <2> DEFINE c == Cmd.circleOff
  <2>1. c \in 1..(NumKeys + 39) /\ Arity(c) = 0 /\ c # Cmd.reset
    BY Codes, ArityIs
  <2>2. ASSUME NEW y \in Handles(x, <<c>>) PROVE y \in But(x, {"flagc"}) /\ ~y.flagc
    <3>1. Same(x, y, {"pend", "flagc"}) /\ y \in Ready /\ ~y.flagc
      BY <1>2, <2>1, ZenonT(60) DEF Outcome
    <3> QED
      BY <1>3, <3>1
  <2> QED
    BY <1>1, <2>1, <2>2
<1>6. Sends(x, <<Cmd.circleOn>>, {y \in But(x, {"flagc"}) : y.flagc})
  <2> DEFINE c == Cmd.circleOn
  <2>1. c \in 1..(NumKeys + 39) /\ Arity(c) = 0 /\ c # Cmd.reset
    BY Codes, ArityIs
  <2>2. ASSUME NEW y \in Handles(x, <<c>>) PROVE y \in But(x, {"flagc"}) /\ y.flagc
    <3>1. Same(x, y, {"pend", "flagc"}) /\ y \in Ready /\ y.flagc
      BY <1>2, <2>1 DEF Outcome
    <3> QED
      BY <1>3, <3>1
  <2> QED
    BY <1>1, <2>1, <2>2
<1>7. Sends(x, <<Cmd.endsOff>>, {y \in But(x, {"flagz"}) : ~y.flagz})
  <2> DEFINE c == Cmd.endsOff
  <2>1. c \in 1..(NumKeys + 39) /\ Arity(c) = 0 /\ c # Cmd.reset
    BY Codes, ArityIs
  <2>2. ASSUME NEW y \in Handles(x, <<c>>) PROVE y \in But(x, {"flagz"}) /\ ~y.flagz
    <3>1. Same(x, y, {"pend", "flagz"}) /\ y \in Ready /\ ~y.flagz
      BY <1>2, <2>1, ZenonT(60) DEF Outcome
    <3> QED
      BY <1>3, <3>1
  <2> QED
    BY <1>1, <2>1, <2>2
<1>8. Sends(x, <<Cmd.endsOn>>, {y \in But(x, {"flagz"}) : y.flagz})
  <2> DEFINE c == Cmd.endsOn
  <2>1. c \in 1..(NumKeys + 39) /\ Arity(c) = 0 /\ c # Cmd.reset
    BY Codes, ArityIs
  <2>2. ASSUME NEW y \in Handles(x, <<c>>) PROVE y \in But(x, {"flagz"}) /\ y.flagz
    <3>1. Same(x, y, {"pend", "flagz"}) /\ y \in Ready /\ y.flagz
      BY <1>2, <2>1 DEF Outcome
    <3> QED
      BY <1>3, <3>1
  <2> QED
    BY <1>1, <2>1, <2>2
<1>9. Sends(x, <<Cmd.rainbowOff>>, {y \in But(x, {"rbstatus"}) : ~y.rbstatus})
  <2> DEFINE c == Cmd.rainbowOff
  <2>1. c \in 1..(NumKeys + 39) /\ Arity(c) = 0 /\ c # Cmd.reset
    BY Codes, ArityIs
  <2>2. ASSUME NEW y \in Handles(x, <<c>>) PROVE y \in But(x, {"rbstatus"}) /\ ~y.rbstatus
    <3>1. Same(x, y, {"pend", "rbstatus"}) /\ y \in Ready /\ ~y.rbstatus
      BY <1>2, <2>1 DEF Outcome
    <3> QED
      BY <1>3, <3>1
  <2> QED
    BY <1>1, <2>1, <2>2
<1>10. Sends(x, <<Cmd.rainbowOn>>, {y \in But(x, {"rbstatus"}) : y.rbstatus})
  <2> DEFINE c == Cmd.rainbowOn
  <2>1. c \in 1..(NumKeys + 39) /\ Arity(c) = 0 /\ c # Cmd.reset
    BY Codes, ArityIs
  <2>2. ASSUME NEW y \in Handles(x, <<c>>) PROVE y \in But(x, {"rbstatus"}) /\ y.rbstatus
    <3>1. Same(x, y, {"pend", "rbstatus"}) /\ y \in Ready /\ y.rbstatus
      BY <1>2, <2>1 DEF Outcome
    <3> QED
      BY <1>3, <3>1
  <2> QED
    BY <1>1, <2>1, <2>2
<1>11. Sends(x, <<Cmd.extendOff>>, {y \in But(x, {"extend"}) : ~y.extend})
  <2> DEFINE c == Cmd.extendOff
  <2>1. c \in 1..(NumKeys + 39) /\ Arity(c) = 0 /\ c # Cmd.reset
    BY Codes, ArityIs
  <2>2. ASSUME NEW y \in Handles(x, <<c>>) PROVE y \in But(x, {"extend"}) /\ ~y.extend
    <3>1. Same(x, y, {"pend", "extend"}) /\ y \in Ready /\ ~y.extend
      BY <1>2, <2>1, ZenonT(60) DEF Outcome
    <3> QED
      BY <1>3, <3>1
  <2> QED
    BY <1>1, <2>1, <2>2
<1>12. Sends(x, <<Cmd.remainOff>>, {y \in But(x, {"rm_status"}) : ~y.rm_status})
  <2> DEFINE c == Cmd.remainOff
  <2>1. c \in 1..(NumKeys + 39) /\ Arity(c) = 0 /\ c # Cmd.reset
    BY Codes, ArityIs
  <2>2. ASSUME NEW y \in Handles(x, <<c>>) PROVE y \in But(x, {"rm_status"}) /\ ~y.rm_status
    <3>1. Same(x, y, {"pend", "rm_status"}) /\ y \in Ready /\ ~y.rm_status
      BY <1>2, <2>1, ZenonT(60) DEF Outcome
    <3> QED
      BY <1>3, <3>1
  <2> QED
    BY <1>1, <2>1, <2>2
<1>13. Sends(x, <<Cmd.backOff>>, {y \in But(x, {"on_background"}) : ~y.on_background})
  <2> DEFINE c == Cmd.backOff
  <2>1. c \in 1..(NumKeys + 39) /\ Arity(c) = 0 /\ c # Cmd.reset
    BY Codes, ArityIs
  <2>2. ASSUME NEW y \in Handles(x, <<c>>) PROVE y \in But(x, {"on_background"}) /\ ~y.on_background
    <3>1. Same(x, y, {"pend", "on_background"}) /\ y \in Ready /\ ~y.on_background
      BY <1>2, <2>1, ZenonT(60) DEF Outcome
    <3> QED
      BY <1>3, <3>1
  <2> QED
    BY <1>1, <2>1, <2>2
<1>14. Sends(x, <<Cmd.tick>>, But(x, {}))
  <2> DEFINE c == Cmd.tick
  <2>1. c \in 1..(NumKeys + 39) /\ Arity(c) = 0 /\ c # Cmd.reset
        /\ c \notin Returning \cup Played \cup {Cmd.rainbowOn, Cmd.rainbowOff}
    BY Codes, ArityIs DEF Returning, Played
  <2>2. ASSUME NEW y \in Handles(x, <<c>>) PROVE y \in But(x, {})
    <3>1. Same(x, y, {"pend"}) /\ y \in Ready
      BY <1>2, <2>1 DEF Outcome
    <3> QED
      BY <1>3, <3>1
  <2> QED
    BY <1>1, <2>1, <2>2
<1>15. Sends(x, <<Cmd.wake>>, But(x, {}))
  <2> DEFINE c == Cmd.wake
  <2>1. c \in 1..(NumKeys + 39) /\ Arity(c) = 0 /\ c # Cmd.reset
        /\ c \notin Returning \cup Played \cup {Cmd.rainbowOn, Cmd.rainbowOff}
    BY Codes, ArityIs DEF Returning, Played
  <2>2. ASSUME NEW y \in Handles(x, <<c>>) PROVE y \in But(x, {})
    <3>1. Same(x, y, {"pend"}) /\ y \in Ready
      BY <1>2, <2>1 DEF Outcome
    <3> QED
      BY <1>3, <3>1
  <2> QED
    BY <1>1, <2>1, <2>2
<1> QED
  BY <1>4, <1>5, <1>6, <1>7, <1>8, <1>9, <1>10, <1>11, <1>12, <1>13, <1>14, <1>15

(* What a command changes. *)
LEMMA HandlesBut ==
  ASSUME NEW x \in Ready, NEW y \in Ready, NEW F, Same(x, y, {"pend"} \cup F)
  PROVE  y \in But(x, F)
<1>1. y.pend = x.pend
  BY DEF Ready
<1>2. \A f : f # "pend" => (f \in {"pend"} \cup F <=> f \in F)
  OBVIOUS
<1> QED
  BY <1>1, <1>2 DEF Same, But

(* The commands with a number. *)
LEMMA NumberCommands ==
  ASSUME Legible, NEW x \in Ready, NEW n \in Int, n % 256 # 0
  PROVE  /\ Sends(x, <<Cmd.bright, n>>,
                  {y \in But(x, {"brightness"}) : y.brightness = n % 256})
         /\ Sends(x, <<Cmd.extendOn, n>>,
                  {y \in But(x, {"extend", "numofextend"}) : y.extend /\ y.numofextend = n % 256})
         /\ Sends(x, <<Cmd.remainOn, n>>,
                  {y \in But(x, {"rm_status", "rm_time"}) : y.rm_status /\ y.rm_time = n % 256})
<1>1. ASSUME NEW c \in 1..(NumKeys + 39), Arity(c) = 1, NEW Q,
             \A y \in FwStates : y \in Handles(x, <<c, n % 256>>) => y \in Q
      PROVE  Sends(x, <<c, n>>, Q)
  <2>1. c \in 1..255
    BY CodeBytes
  <2>2. Sends(x, <<c, n>>, Handles(x, <<c, n % 256>>))
    BY <1>1, <2>1, SendsTwo, ZenonT(60)
  <2> QED
    BY <1>1, <2>2, SendsTo
<1>2. ASSUME NEW c, c # Cmd.reset, NEW y \in Handles(x, <<c, n % 256>>)
      PROVE  /\ y \in Ready /\ Outcome(x, <<c, n % 256>>, y)
             /\ <<c, n % 256>>[1] = c /\ <<c, n % 256>>[2] = n % 256
  BY <1>2 DEF Handles
<1>3. Sends(x, <<Cmd.bright, n>>, {y \in But(x, {"brightness"}) : y.brightness = n % 256})
  <2> DEFINE c == Cmd.bright
  <2>1. c \in 1..(NumKeys + 39) /\ Arity(c) = 1 /\ c # Cmd.reset
    BY Codes, ArityIs
  <2>2. ASSUME NEW y \in Handles(x, <<c, n % 256>>)
        PROVE  y \in But(x, {"brightness"}) /\ y.brightness = n % 256
    <3>1. y \in Ready /\ Outcome(x, <<c, n % 256>>, y) /\ <<c, n % 256>>[1] = Cmd.bright
          /\ <<c, n % 256>>[2] = n % 256
      BY <1>2, <2>1
    <3>2. Same(x, y, {"pend"} \cup {"brightness"}) /\ y.brightness = n % 256
      BY <3>1 DEF Outcome
    <3> QED
      BY <3>1, <3>2, HandlesBut
  <2> QED
    BY <1>1, <2>1, <2>2
<1>4. Sends(x, <<Cmd.extendOn, n>>,
            {y \in But(x, {"extend", "numofextend"}) : y.extend /\ y.numofextend = n % 256})
  <2> DEFINE c == Cmd.extendOn
  <2>1. c \in 1..(NumKeys + 39) /\ Arity(c) = 1 /\ c # Cmd.reset
    BY Codes, ArityIs
  <2>2. ASSUME NEW y \in Handles(x, <<c, n % 256>>)
        PROVE  y \in But(x, {"extend", "numofextend"}) /\ y.extend /\ y.numofextend = n % 256
    <3>1. y \in Ready /\ Outcome(x, <<c, n % 256>>, y) /\ <<c, n % 256>>[1] = Cmd.extendOn
          /\ <<c, n % 256>>[2] = n % 256
      BY <1>2, <2>1
    <3>2. Same(x, y, {"pend"} \cup {"extend", "numofextend"}) /\ y.extend /\ y.numofextend = n % 256
      BY <3>1 DEF Outcome
    <3> QED
      BY <3>1, <3>2, HandlesBut
  <2> QED
    BY <1>1, <2>1, <2>2
<1>5. Sends(x, <<Cmd.remainOn, n>>,
            {y \in But(x, {"rm_status", "rm_time"}) : y.rm_status /\ y.rm_time = n % 256})
  <2> DEFINE c == Cmd.remainOn
  <2>1. c \in 1..(NumKeys + 39) /\ Arity(c) = 1 /\ c # Cmd.reset
    BY Codes, ArityIs
  <2>2. ASSUME NEW y \in Handles(x, <<c, n % 256>>)
        PROVE  y \in But(x, {"rm_status", "rm_time"}) /\ y.rm_status /\ y.rm_time = n % 256
    <3>1. y \in Ready /\ Outcome(x, <<c, n % 256>>, y) /\ <<c, n % 256>>[1] = Cmd.remainOn
          /\ <<c, n % 256>>[2] = n % 256
      BY <1>2, <2>1
    <3>2. Same(x, y, {"pend"} \cup {"rm_status", "rm_time"}) /\ y.rm_status /\ y.rm_time = n % 256
      BY <3>1 DEF Outcome
    <3> QED
      BY <3>1, <3>2, HandlesBut
  <2> QED
    BY <1>1, <2>1, <2>2
<1> QED
  BY <1>3, <1>4, <1>5

(* The commands with a colour. *)
LEMMA ColorCommands ==
  ASSUME Legible, NEW x \in Ready,
         NEW p \in [Channels -> Int], \A ch \in Channels : p[ch] % 256 # 0
  PROVE  /\ Sends(x, <<Cmd.color>> \o p, {y \in But(x, {"rgb"}) : y.rgb = LowByte(p)})
         /\ Sends(x, <<Cmd.backOn>> \o p,
                  {y \in But(x, {"on_background", "bgc"}) : y.on_background /\ y.bgc = LowByte(p)})
<1>1. Sends(x, <<Cmd.color>> \o p, {y \in But(x, {"rgb"}) : y.rgb = LowByte(p)})
  <2>1. Cmd.color \in 1..255 /\ Arity(Cmd.color) = NumChannels /\ Cmd.color # Cmd.reset
    BY Codes, ArityIs, CodeBytes, SMTT(40)
  <2>2. PICK m : /\ Sends(x, <<Cmd.color>> \o p, Handles(x, m))
                 /\ m[1] = Cmd.color /\ Told(m) = LowByte(p)
    BY <2>1, SendsThree, ZenonT(60)
  <2>3. ASSUME NEW y \in Handles(x, m) PROVE y \in But(x, {"rgb"}) /\ y.rgb = LowByte(p)
    <3>1. y \in Ready /\ Outcome(x, m, y)
      BY <2>1, <2>2 DEF Handles
    <3>2. Same(x, y, {"pend"} \cup {"rgb"}) /\ y.rgb = LowByte(p)
      BY <2>2, <3>1 DEF Outcome
    <3> QED
      BY <3>1, <3>2, HandlesBut
  <2> QED
    BY <2>2, <2>3, SendsTo
<1>2. Sends(x, <<Cmd.backOn>> \o p,
            {y \in But(x, {"on_background", "bgc"}) : y.on_background /\ y.bgc = LowByte(p)})
  <2>1. Cmd.backOn \in 1..255 /\ Arity(Cmd.backOn) = NumChannels /\ Cmd.backOn # Cmd.reset
    BY Codes, ArityIs, CodeBytes
  <2>2. PICK m : /\ Sends(x, <<Cmd.backOn>> \o p, Handles(x, m))
                 /\ m[1] = Cmd.backOn /\ Told(m) = LowByte(p)
    BY <2>1, SendsThree, ZenonT(60)
  <2>3. ASSUME NEW y \in Handles(x, m)
        PROVE  y \in But(x, {"on_background", "bgc"}) /\ y.on_background /\ y.bgc = LowByte(p)
    <3>1. y \in Ready /\ Outcome(x, m, y)
      BY <2>1, <2>2 DEF Handles
    <3>2. Same(x, y, {"pend"} \cup {"on_background", "bgc"}) /\ y.on_background /\ y.bgc = LowByte(p)
      BY <2>2, <3>1 DEF Outcome
    <3> QED
      BY <3>1, <3>2, HandlesBut
  <2> QED
    BY <2>2, <2>3, SendsTo
<1> QED
  BY <1>1, <1>2

(* Reset. *)
LEMMA ResetCommand ==
  ASSUME Legible, NEW x \in Ready
  PROVE  Sends(x, <<Cmd.reset>>,
               {y \in FwStates : /\ y.mode = "setup" /\ y.pend = <<>> /\ y.flag = NoKeys
                                 /\ y.rbstatus = x.rbstatus})
<1>1. Cmd.reset \in Int /\ Cmd.reset % 256 = Cmd.reset /\ Cmd.reset # 0 /\ Arity(Cmd.reset) = 0
  <2>1. Cmd.reset \in 1..(NumKeys + 39)
    BY Codes
  <2> QED
    BY <2>1, Codes, ArityIs, CodeBytes
<1>2. Sends(x, <<Cmd.reset>>, Handles(x, <<Cmd.reset>>))
  BY <1>1, SendsOne
<1>3. ASSUME NEW y \in Handles(x, <<Cmd.reset>>)
      PROVE  y \in FwStates /\ y.mode = "setup" /\ y.pend = <<>> /\ y.flag = NoKeys
             /\ y.rbstatus = x.rbstatus
  <2>1. y \in FwStates /\ Outcome(x, <<Cmd.reset>>, y) /\ <<Cmd.reset>>[1] = Cmd.reset
    BY DEF Handles
  <2>2. y.pend = <<>> /\ y.mode = "setup" /\ y.flag = NoKeys
        /\ Same(x, y, {"pend", "mode", "flag", "flagc", "flagz", "brightness"})
    BY <2>1 DEF Outcome
  <2> QED
    BY <2>1, <2>2 DEF Same
<1> QED
  BY <1>2, <1>3, SendsTo

(* The byte of a key that lights LEDs. *)
LEMMA KeyByte ==
  ASSUME Legible, NEW x \in Ready, NEW k \in Played
  PROVE  Sends(x, <<k>>, {y \in But(x, {"flag"}) :
                            y.flag = IF x.rbstatus THEN x.flag ELSE [x.flag EXCEPT ![k] = ~@]})
<1>1. k \in 1..(NumKeys + 39) /\ k \in Int /\ k # Cmd.reset
  BY Codes DEF Played
<1>2. k % 256 = k /\ k # 0
  BY <1>1, CodeBytes
<1>3. Arity(k) = 0
  <2>1. k \notin {Cmd.color, Cmd.backOn, Cmd.bright, Cmd.extendOn, Cmd.remainOn}
    BY Codes DEF Played
  <2> QED
    BY <1>1, <2>1, ArityIs
<1>4. Sends(x, <<k>>, Handles(x, <<k>>))
  BY <1>1, <1>2, <1>3, SendsOne
<1>5. ASSUME NEW y \in Handles(x, <<k>>)
      PROVE  y \in But(x, {"flag"})
             /\ y.flag = IF x.rbstatus THEN x.flag ELSE [x.flag EXCEPT ![k] = ~@]
  <2>1. y \in Ready /\ Outcome(x, <<k>>, y) /\ <<k>>[1] = k
    BY <1>1 DEF Handles
  <2>2. Same(x, y, {"pend"} \cup {"flag"})
        /\ y.flag = IF x.rbstatus THEN x.flag ELSE [x.flag EXCEPT ![k] = ~@]
    BY <2>1 DEF Outcome
  <2> QED
    BY <2>1, <2>2, HandlesBut
<1> QED
  BY <1>4, <1>5, SendsTo

(* A byte that is no command and no key that lights LEDs; a 0 is not sent. *)
LEMMA OtherByte ==
  ASSUME Legible, NEW x \in Ready, NEW k \in Int, NEW c, c = k % 256,
         c = 0 \/ c = 1 \/ c > NumKeys + 39
  PROVE  Sends(x, <<k>>, But(x, {}))
<1>0. NumKeys \in Nat /\ c \in Int
  BY Codes
<1>1. CASE c = 0
  <2>1. Host!Transmit(<<k>>) = <<>>
    BY <1>1, TransmitZero
  <2>2. x \in But(x, {}) /\ x \in FwStates
    BY DEF But, Same, Ready
  <2>3. <<k>> \in Seq(Int)
    OBVIOUS
  <2> QED
    BY <2>1, <2>2, <2>3, LeadsNowhere DEF Sends
<1>2. CASE c # 0
  <2>1. c \notin Played /\ c # Cmd.reset /\ Arity(c) = 0
        /\ c \notin Returning \cup {Cmd.rainbowOn, Cmd.rainbowOff}
    <3>1. NumKeys > 1
      BY <1>0, EffectPianoAssumption DEF Host!EffectHostAssumption
    <3>2. c \notin Played /\ (c = 1 \/ c > NumKeys + 39)
      BY <1>0, <1>2, <3>1 DEF Played
    <3>3. c \notin {Cmd.color, Cmd.backOn, Cmd.bright, Cmd.extendOn, Cmd.remainOn}
      BY <1>0, <3>1, <3>2, Codes
    <3>4. c \notin Returning \cup {Cmd.rainbowOn, Cmd.rainbowOff}
      BY <1>0, <3>1, <3>2, Codes DEF Returning
    <3> QED
      BY <1>0, <3>2, <3>3, <3>4, ArityIs DEF Returning
  <2>2. Sends(x, <<k>>, Handles(x, <<c>>))
    BY <1>2, <2>1, SendsOne
  <2>3. ASSUME NEW y \in Handles(x, <<c>>) PROVE y \in But(x, {})
    <3>1. y \in Ready /\ Outcome(x, <<c>>, y) /\ <<c>>[1] = c
      BY <2>1 DEF Handles
    <3>2. Same(x, y, {"pend"} \cup {})
      BY <2>1, <3>1 DEF Outcome
    <3> QED
      BY <3>1, <3>2, HandlesBut
  <2> QED
    BY <2>2, <2>3, SendsTo
<1> QED
  BY <1>1, <1>2

-----------------------------------------------------------------------------
(* Where start() leads: wake bytes, and every setting. *)

(* A pair, one element after the other. *)
LEMMA AppendTwo ==
  ASSUME NEW S, NEW a \in S, NEW b \in S
  PROVE  <<a,b>> = Append(<<a>>, b)
OBVIOUS

(* A triple, one element after the others. *)
LEMMA AppendThree ==
  ASSUME NEW S, NEW a \in S, NEW b \in S, NEW c \in S
  PROVE  <<a,b,c>> = Append(<<a,b>>, c)
OBVIOUS

(* Putting one element behind a sequence is appending it. *)
LEMMA Concat ==
  ASSUME NEW S, NEW s \in Seq(S), NEW b \in S
  PROVE  s \o <<b>> = Append(s, b)
BY AppendIsConcat

(* Two sequences of one element are a pair. *)
LEMMA ConcatTwo ==
  ASSUME NEW S, NEW a \in S, NEW b \in S
  PROVE  <<a>> \o <<b>> = <<a,b>>
<1> DEFINE s == <<a>>
<1>1. s \in Seq(S)
  OBVIOUS
<1>2. <<a,b>> = Append(s, b)
  BY AppendTwo
<1> HIDE DEF s
<1>3. s \o <<b>> = Append(s, b)
  BY <1>1, Concat
<1>4. s \o <<b>> = <<a, b>>
  BY <1>2, <1>3
<1> QED
  BY <1>4 DEF s

(* A pair and one element are a triple. *)
LEMMA ConcatThree ==
  ASSUME NEW S, NEW a \in S, NEW b \in S, NEW c \in S
  PROVE  <<a,b>> \o <<c>> = <<a,b,c>>
<1> DEFINE s == <<a,b>>
<1>1. s \in Seq(S)
  OBVIOUS
<1>2. <<a,b,c>> = Append(s, c)
  BY AppendThree
<1> HIDE DEF s
<1>3. s \o <<c>> = Append(s, c)
  BY <1>1, Concat
<1>4. s \o <<c>> = <<a, b, c>>
  BY <1>2, <1>3
<1> QED
  BY <1>4 DEF s

(* One byte, whatever the firmware is waiting for. *)
LEMMA SendsByte ==
  ASSUME Legible, NEW x \in FwStates, NEW c \in 1..(NumKeys + 39)
  PROVE  Sends(x, <<c>>, {Step(x, c)})
<1>1. c \in Int /\ c \in Byte /\ c % 256 = c /\ c # 0
  BY CodeBytes DEF Byte
<1> DEFINE s == <<c>>
<1>2. s \in Seq(Int) /\ Len(s) = 1 /\ s[1] = c
  BY <1>1
<1>3. <<c>> = [i \in 1..1 |-> c]
  OBVIOUS
<1> HIDE DEF s
<1>4. \A i \in 1..Len(s) : s[i] % 256 # 0
  BY <1>1, <1>2
<1>5. Host!Transmit(s) = [i \in 1..Len(s) |-> s[i] % 256]
  BY <1>2, <1>4, TransmitAll
<1>6. Host!Transmit(s) = <<c>>
  BY <1>1, <1>2, <1>3, <1>5
<1>7. Leads(x, <<c>>, {Step(x, c)})
  BY <1>1, LeadsByte
<1>8. Sends(x, s, {Step(x, c)})
  BY <1>2, <1>6, <1>7 DEF Sends
<1> QED
  BY <1>8 DEF s

(* The bytes that a command still lacks. *)
Due(x) == (Arity(x.pend[1]) + 1) - Len(x.pend)

(* A command that has been begun lacks at most three bytes: the wake bytes *)
(* are enough.                                                             *)
LEMMA DueIs ==
  ASSUME Legible, NEW x \in FwStates, x.pend # <<>>
  PROVE  Due(x) \in 1..3
<1>1. x.pend \in Seq(Byte) /\ Len(x.pend) <= Arity(x.pend[1]) /\ Len(x.pend) \in Nat \ {0}
  BY DEF FwStates, FwTypes
<1>2. Arity(x.pend[1]) \in Nat /\ Arity(x.pend[1]) <= 3
  <2>1. NumChannels \in Nat /\ NumChannels <= 3
    <3>1. NumChannels <= 3
      BY ZenonT(60) DEF Legible
    <3>2. NumChannels \in Nat
      BY LightBarAssumption
    <3> QED
      BY <3>1, <3>2
  <2>2. x.pend[1] \in Int
    <3>1. 1 \in 1..Len(x.pend)
      BY <1>1
    <3>2. x.pend[1] \in Byte
      BY <1>1, <3>1, ElementOfSeq
    <3>3. \A n : n \in Byte => n \in Int
      BY DEF Byte
    <3> QED
      BY <3>2, <3>3
  <2>3. Arity(x.pend[1]) \in {NumChannels, 1, 0}
    BY <2>2, ArityIs
  <2> QED
    BY <2>1, <2>3
<1> QED
  BY <1>1, <1>2 DEF Due

(* A command lacks one byte less, or is complete. *)
LEMMA StepDue ==
  ASSUME Legible, NEW x \in FwStates, x.pend # <<>>, NEW b \in Byte, NEW y, y = Step(x, b)
  PROVE  /\ y \in FwStates
         /\ Due(x) > 1 => y.pend # <<>> /\ Due(y) = Due(x) - 1
         /\ Due(x) = 1 => y \in Ready
<1> DEFINE m == Append(x.pend, b)
           n == Len(x.pend)
<1>1. x.pend \in Seq(Byte) /\ x.mode = "loop" /\ n <= Arity(x.pend[1]) /\ n \in Nat \ {0}
      /\ x \in FwTypes
  BY DEF FwStates, FwTypes
<1>2. m[1] = x.pend[1] /\ Len(m) = n + 1 /\ m # <<>> /\ m \in Seq(Byte)
  BY <1>1, AppendProperties
<1>3. Arity(m[1]) \in Nat /\ Due(x) = (Arity(m[1]) + 1) - n
  BY <1>2, Arities DEF Due
<1>4. y = Parsed(x, b)
  BY <1>1 DEF Step
<1>5. y = IF n < Arity(m[1]) THEN [x EXCEPT !.pend = m] ELSE Handled(x, m)
  BY <1>4 DEF Parsed
<1>6. y \in FwStates
  BY StepType
<1> HIDE DEF m, n
<1>7. ASSUME Due(x) > 1 PROVE y.pend # <<>> /\ Due(y) = Due(x) - 1
  <2>1. n < Arity(m[1])
    BY <1>1, <1>3, <1>7
  <2>2. [x EXCEPT !.pend = m].pend = m
    BY <1>1 DEF FwTypes
  <2>3. y.pend = m
    BY <1>5, <2>1, <2>2
  <2> QED
    BY <1>1, <1>2, <1>3, <2>3 DEF Due
<1>8. ASSUME Due(x) = 1 PROVE y \in Ready
  <2>1. ~(n < Arity(m[1])) /\ Arity(m[1]) # 0
    BY <1>1, <1>2, <1>3, <1>8
  <2>2. y = Handled(x, m)
    BY <1>5, <2>1
  <2>3. m[1] # Cmd.reset
    BY <2>1, Codes, ArityIs
  <2>4. y.pend = <<>> /\ y.mode = x.mode
    BY <2>2, <2>3 DEF Handled
  <2> QED
    BY <1>1, <1>6, <2>4 DEF Ready
<1> QED
  BY <1>6, <1>7, <1>8

(* setup() waits for the wake byte. *)
LEMMA StepSetup ==
  ASSUME NEW x \in FwStates, x.mode = "setup"
  PROVE  /\ Step(x, Cmd.reset) = x
         /\ Step(x, Cmd.wake) \in {y \in Ready : y.flag = x.flag /\ y.rbstatus = x.rbstatus}
<1>1. Cmd.reset # Cmd.wake /\ Cmd.wake \in Int
  BY Codes
<1>2. Step(x, Cmd.reset) = x /\ Step(x, Cmd.wake) = Woken(x)
  BY <1>1 DEF Step
<1>3. Woken(x).mode = "loop" /\ Woken(x).pend = x.pend /\ Woken(x).flag = x.flag
      /\ Woken(x).rbstatus = x.rbstatus
  BY DEF Woken
<1>4. x.pend = <<>> /\ x \in FwTypes
  BY DEF FwStates
<1>5. Woken(x) \in FwTypes
  BY <1>4, LightBarAssumption DEF Woken, FwTypes
<1>6. Woken(x) \in FwStates
  BY <1>3, <1>4, <1>5 DEF FwStates
<1> QED
  BY <1>2, <1>3, <1>4, <1>6 DEF Ready

(* The wake bytes, one by one. *)
LEMMA WakeBytes == (<<0>> \o <<Cmd.wake>>) \o <<Cmd.wake>> = Host!WakeUp
<1> DEFINE w == Cmd.wake
           T == Int
           z == 0
<1>1. w \in T /\ z \in T /\ Host!WakeUp = <<z, w, w>>
  BY Codes, HostCodes DEF Host!WakeUp
<1> HIDE DEF w, T, z
<1>2. <<z>> \o <<w>> = <<z, w>>
  BY <1>1, ConcatTwo
<1>3. <<z, w>> \o <<w>> = <<z, w, w>>
  BY <1>1, ConcatThree
<1> QED
  BY <1>1, <1>2, <1>3 DEF w, z

(* Two wake bytes, between two commands or in setup(). *)
LEMMA WakeUp ==
  ASSUME Legible, NEW x \in FwStates, x.pend = <<>>
  PROVE  Sends(x, Host!WakeUp, {y \in Ready : y.flag = x.flag /\ y.rbstatus = x.rbstatus})
<1> DEFINE G == {y \in Ready : y.flag = x.flag /\ y.rbstatus = x.rbstatus}
<1>1. Cmd.wake \in 1..(NumKeys + 39) /\ Cmd.wake \in Int /\ Cmd = Host!Code
  BY Codes, HostCodes
<1>2. ASSUME NEW y \in G PROVE Sends(y, <<Cmd.wake>>, G)
  <2>1. Sends(y, <<Cmd.wake>>, But(y, {}))
    BY Switches
  <2>2. ASSUME NEW z \in But(y, {}) PROVE z \in G
    BY DEF But, Same
  <2> QED
    BY <2>1, <2>2, SendsTo
<1>3. Sends(x, <<Cmd.wake>>, G)
  <2>1. CASE x.mode = "setup"
    <3>1. Sends(x, <<Cmd.wake>>, {Step(x, Cmd.wake)})
      BY <1>1, SendsByte
    <3> QED
      BY <2>1, <3>1, StepSetup, SendsTo
  <2>2. CASE x.mode # "setup"
    <3>1. x \in G
      BY <2>2 DEF FwStates, FwTypes, Ready
    <3> QED
      BY <1>2, <3>1
  <2> QED
    BY <2>1, <2>2
<1>4. Sends(x, <<0>>, {x})
  <2>1. Host!Transmit(<<0>>) = <<>> /\ <<0>> \in Seq(Int)
    BY TransmitZero
  <2> QED
    BY <2>1, LeadsNowhere DEF Sends
<1>5. <<Cmd.wake>> \in Seq(Int)
  BY <1>1
<1> HIDE DEF G
<1>6. Sends(x, <<0>> \o <<Cmd.wake>>, G)
  BY <1>3, <1>4, <1>5, SendsThen
<1>7. Sends(x, (<<0>> \o <<Cmd.wake>>) \o <<Cmd.wake>>, G)
  BY <1>2, <1>5, <1>6, SendsThen
<1>8. (<<0>> \o <<Cmd.wake>>) \o <<Cmd.wake>> = Host!WakeUp
  BY WakeBytes
<1> QED
  BY <1>7, <1>8 DEF G

(* Reset and two wake bytes, wherever the firmware is. *)
LEMMA WakeAnywhere ==
  ASSUME Legible, NEW x \in FwStates
  PROVE  Sends(x, <<Cmd.reset>>, {y \in FwStates : Sends(y, Host!WakeUp, Ready)})
<1> DEFINE Lacks(n) == {y \in FwStates : y.pend # <<>> /\ Due(y) \in 1..n}
           Idle == {y \in FwStates : y.pend = <<>>}
<1>1. /\ Cmd.wake \in 1..(NumKeys + 39) /\ Cmd.reset \in 1..(NumKeys + 39)
      /\ Cmd.wake \in Byte /\ Cmd.reset \in Byte /\ Cmd.reset % 256 = Cmd.reset
      /\ Cmd.wake \in Int /\ Cmd.reset \in Int /\ Cmd = Host!Code
  <2>1. /\ Cmd.wake \in 1..(NumKeys + 39) /\ Cmd.reset \in 1..(NumKeys + 39) /\ Cmd = Host!Code
    BY Codes, HostCodes
  <2>2. \A c \in 1..(NumKeys + 39) : c \in Byte /\ c % 256 = c /\ c \in Int
    BY CodeBytes DEF Byte
  <2> QED
    BY <2>1, <2>2
<1>2. ASSUME NEW n \in 1..2, NEW y \in Lacks(n + 1), NEW b \in {Cmd.wake, Cmd.reset}
      PROVE  Step(y, b) \in Lacks(n) \cup Ready
  <2>1. Due(y) \in 1..3 /\ Due(y) \in 1..(n + 1)
    BY DueIs
  <2>2. CASE Due(y) = 1
    BY <1>1, <2>2, StepDue
  <2>3. CASE Due(y) > 1
    <3>1. Step(y, b) \in FwStates /\ Step(y, b).pend # <<>> /\ Due(Step(y, b)) = Due(y) - 1
      BY <1>1, <2>3, StepDue
    <3> QED
      BY <2>1, <2>3, <3>1
  <2> QED
    BY <2>1, <2>2, <2>3
<1>3. CASE x.pend = <<>>
  <2>1. Sends(x, <<Cmd.reset>>, Idle)
    <3>1. CASE x.mode = "setup"
      <4>1. Sends(x, <<Cmd.reset>>, {Step(x, Cmd.reset)})
        BY <1>1, SendsByte
      <4> QED
        BY <1>3, <3>1, <4>1, StepSetup, SendsTo
    <3>2. CASE x.mode # "setup"
      <4>1. x \in Ready
        BY <1>3, <3>2 DEF FwStates, FwTypes, Ready
      <4> QED
        BY <4>1, ResetCommand, SendsTo
    <3> QED
      BY <3>1, <3>2
  <2>2. ASSUME NEW y \in FwStates, y \in Idle PROVE Sends(y, Host!WakeUp, Ready)
    <3>1. Sends(y, Host!WakeUp, {z \in Ready : z.flag = y.flag /\ z.rbstatus = y.rbstatus})
      BY <2>2, WakeUp
    <3> QED
      BY <3>1, SendsTo
  <2> QED
    BY <2>1, <2>2, SendsTo
<1>4. CASE x.pend # <<>>
  <2>1. Sends(x, <<Cmd.reset>>, Lacks(2) \cup Ready)
    <3>1. Sends(x, <<Cmd.reset>>, {Step(x, Cmd.reset)})
      BY <1>1, SendsByte
    <3>2. x \in Lacks(2 + 1)
      BY <1>4, DueIs
    <3>3. Step(x, Cmd.reset) \in Lacks(2) \cup Ready
      BY <1>2, <3>2
    <3> QED
      BY <3>1, <3>3, SendsTo
  <2>2. ASSUME NEW n \in 1..2, NEW y \in FwStates, y \in Lacks(n) \cup Ready
        PROVE  Sends(y, <<Cmd.wake>>, IF n = 2 THEN Lacks(1) \cup Ready ELSE Ready)
    <3>1. CASE y \in Ready
      <4>1. Sends(y, <<Cmd.wake>>, But(y, {}))
        BY <3>1, Switches
      <4>2. \A z \in FwStates : z \in But(y, {}) => z \in Ready
        BY DEF But
      <4> QED
        BY <4>1, <4>2, SendsTo
    <3>2. CASE y \in Lacks(n)
      <4>1. Sends(y, <<Cmd.wake>>, {Step(y, Cmd.wake)})
        BY <1>1, SendsByte
      <4>2. CASE n = 1
        <5>1. Due(y) = 1 /\ y.pend # <<>>
          BY <3>2, <4>2
        <5>2. Step(y, Cmd.wake) \in Ready
          BY <1>1, <5>1, StepDue
        <5> QED
          BY <4>1, <4>2, <5>2, SendsTo
      <4>3. CASE n = 2
        <5>1. Step(y, Cmd.wake) \in Lacks(1) \cup Ready
          BY <1>2, <3>2, <4>3
        <5> QED
          BY <4>1, <4>3, <5>1, SendsTo
      <4> QED
        BY <4>2, <4>3
    <3> QED
      BY <2>2, <3>1, <3>2
  <2> DEFINE L1 == Lacks(1) \cup Ready
             L2 == Lacks(2) \cup Ready
  <2>3. \A y \in FwStates : y \in L2 => Sends(y, <<Cmd.wake>>, L1)
    BY <2>2
  <2>4. \A y \in FwStates : y \in L1 => Sends(y, <<Cmd.wake>>, Ready)
    BY <2>2
  <2>5. Sends(x, <<Cmd.reset>>, L2) /\ <<Cmd.wake>> \in Seq(Int) /\ <<0>> \in Seq(Int)
    BY <1>1, <2>1
  <2> HIDE DEF L1, L2
  <2>6. ASSUME NEW y \in FwStates, y \in L2 PROVE Sends(y, Host!WakeUp, Ready)
    <3>1. Sends(y, <<0>>, L2)
      BY <2>5, <2>6, TransmitZero, LeadsNowhere DEF Sends
    <3>2. Sends(y, <<0>> \o <<Cmd.wake>>, L1)
      BY <2>3, <2>5, <3>1, SendsThen
    <3>3. Sends(y, (<<0>> \o <<Cmd.wake>>) \o <<Cmd.wake>>, Ready)
      BY <2>4, <2>5, <3>2, SendsThen
    <3> QED
      BY <3>3, WakeBytes
  <2> QED
    BY <2>5, <2>6, SendsTo
<1> QED
  BY <1>3, <1>4

(* A command, a colour and what follows. *)
LEMMA Regroup ==
  ASSUME NEW s \in Seq(Int), NEW t \in Seq(Int), NEW u \in Seq(Int)
  PROVE  (s \o t) \o u = s \o (t \o u)
BY ConcatAssociative, SMTT(40)

(* A colour is a queue of numbers. *)
LEMMA ColorSeq ==
  ASSUME NEW p \in [Channels -> Int]
  PROVE  p \in Seq(Int)
<1>1. NumChannels \in Nat
  BY LightBarAssumption
<1> QED
  BY <1>1 DEF Channels

(* The codes are numbers. *)
LEMMA CodeInts ==
  /\ Cmd = Host!Code
  /\ \A n \in Int : /\ <<n>> \in Seq(Int)
                    /\ <<Cmd.bright, n>> \in Seq(Int)
                    /\ <<Cmd.remainOn, n>> \in Seq(Int)
                    /\ <<Cmd.extendOn, n>> \in Seq(Int)
  /\ {Cmd.clear, Cmd.color, Cmd.circleOff, Cmd.circleOn, Cmd.endsOn, Cmd.bright,
      Cmd.rainbowOn, Cmd.rainbowOff, Cmd.extendOn, Cmd.endsOff, Cmd.remainOn,
      Cmd.remainOff, Cmd.tick, Cmd.extendOff, Cmd.backOn, Cmd.backOff, Cmd.reset,
      Cmd.wake} \subseteq Int
<1>1. /\ Cmd = Host!Code
      /\ {Cmd.clear, Cmd.color, Cmd.circleOff, Cmd.circleOn, Cmd.endsOn, Cmd.bright,
          Cmd.rainbowOn, Cmd.rainbowOff, Cmd.extendOn, Cmd.endsOff, Cmd.remainOn,
          Cmd.remainOff, Cmd.tick, Cmd.extendOff, Cmd.backOn, Cmd.backOff, Cmd.reset,
          Cmd.wake} \subseteq Int
  BY Codes, HostCodes
<1>2. \A m, n \in Int : <<n>> \in Seq(Int) /\ <<m, n>> \in Seq(Int)
  OBVIOUS
<1> QED
  BY <1>1, <1>2

(* The background and the keys' colour on top of it. *)
LEMMA RefreshCommands ==
  ASSUME Legible, NEW x \in Ready,
         NEW r \in [Channels -> Int], \A ch \in Channels : r[ch] % 256 # 0,
         NEW q \in [Channels -> Int], \A ch \in Channels : q[ch] % 256 # 0
  PROVE  Sends(x, Host!RefreshBg(r, q),
               {y \in But(x, {"on_background", "bgc", "rgb"}) :
                  y.on_background /\ y.bgc = LowByte(r) /\ y.rgb = LowByte(q)})
<1> DEFINE off == <<Cmd.backOff>>
           on == <<Cmd.backOn>>
           color == <<Cmd.color>>
           G1 == But(x, {"on_background", "bgc", "rgb"})
           G2 == {y \in G1 : y.on_background /\ y.bgc = LowByte(r)}
           G3 == {y \in G2 : y.rgb = LowByte(q)}
<1>1. off \in Seq(Int) /\ on \in Seq(Int) /\ color \in Seq(Int) /\ r \in Seq(Int) /\ q \in Seq(Int)
  BY CodeInts, ColorSeq, SMTT(40)
<1>2. Sends(x, off, G1)
  <2>1. Sends(x, off, {y \in But(x, {"on_background"}) : ~y.on_background})
    BY Switches
  <2> QED
    BY <2>1, SendsTo DEF But, Same
<1>3. ASSUME NEW y \in FwStates, y \in G1 PROVE Sends(y, on \o r, G2)
  <2>0. y \in Ready
    BY <1>3 DEF But
  <2>1. Sends(y, on \o r,
              {z \in But(y, {"on_background", "bgc"}) : z.on_background /\ z.bgc = LowByte(r)})
    BY <2>0, ColorCommands
  <2>2. ASSUME NEW z \in But(y, {"on_background", "bgc"}) PROVE z \in G1
    BY <1>3 DEF But, Same
  <2> QED
    BY <2>1, <2>2, SendsTo
<1>4. ASSUME NEW y \in FwStates, y \in G2 PROVE Sends(y, color \o q, G3)
  <2>0. y \in Ready
    BY <1>4 DEF But
  <2>1. Sends(y, color \o q, {z \in But(y, {"rgb"}) : z.rgb = LowByte(q)})
    BY <2>0, ColorCommands
  <2>2. ASSUME NEW z \in But(y, {"rgb"}) PROVE z \in G2
    BY <1>4 DEF But, Same
  <2> QED
    BY <2>1, <2>2, SendsTo
<1>5. Host!RefreshBg(r, q) = (off \o (on \o r)) \o (color \o q)
  <2>1. Host!RefreshBg(r, q) = ((<<Cmd.backOff, Cmd.backOn>> \o r) \o color) \o q
    BY CodeInts DEF Host!RefreshBg
  <2> DEFINE T == Int
             a == Cmd.backOff
             b == Cmd.backOn
  <2>2. a \in T /\ b \in T
    BY CodeInts
  <2> HIDE DEF a, b, T
  <2>3. <<a, b>> = <<a>> \o <<b>>
    BY <2>2, ConcatTwo
  <2> USE DEF a, b
  <2>4. <<Cmd.backOff, Cmd.backOn>> = off \o on
    BY <2>3
  <2> HIDE DEF off, on, color
  <2>5. /\ off \in Seq(Int) /\ on \in Seq(Int) /\ color \in Seq(Int)
        /\ r \in Seq(Int) /\ q \in Seq(Int) /\ on \o r \in Seq(Int)
    BY <1>1, ConcatProperties
  <2> DEFINE z == off \o (on \o r)
  <2>6. z \in Seq(Int)
    BY <2>5, ConcatProperties
  <2>7. (off \o on) \o r = off \o (on \o r)
    BY <2>5, Regroup, ZenonT(60)
  <2> HIDE DEF z
  <2>8. (z \o color) \o q = z \o (color \o q)
    BY <2>5, <2>6, Regroup, ZenonT(60)
  <2>9. Host!RefreshBg(r, q) = z \o (color \o q)
    BY <2>1, <2>4, <2>7, <2>8 DEF z
  <2> QED
    BY <2>9 DEF z
<1> HIDE DEF G1, G2, off, on, color
<1>6. on \o r \in Seq(Int) /\ color \o q \in Seq(Int)
  BY <1>1, ConcatProperties
<1>7. Sends(x, off \o (on \o r), G2)
  BY <1>2, <1>3, <1>6, SendsThen
<1> HIDE DEF G3
<1>8. Sends(x, (off \o (on \o r)) \o (color \o q), G3)
  BY <1>4, <1>6, <1>7, SendsThen
<1>9. \A y \in FwStates : y \in G3 => 
        y \in {z \in But(x, {"on_background", "bgc", "rgb"}) :
                  z.on_background /\ z.bgc = LowByte(r) /\ z.rgb = LowByte(q)}
  BY DEF G1, G2, G3
<1> QED
  BY <1>5, <1>8, <1>9, SendsTo

(* A sequence of some numbers. *)
LEMMA SeqOf ==
  ASSUME NEW S, S \subseteq Int, NEW s \in Seq(S)
  PROVE  /\ Len(s) \in Nat /\ (\A i \in 1..Len(s) : s[i] \in S) /\ s \in Seq(Int)
         /\ s = [i \in 1..Len(s) |-> s[i]]
<1>1. Len(s) \in Nat /\ (\A i \in 1..Len(s) : s[i] \in S)
  OBVIOUS
<1>2. s = [i \in 1..Len(s) |-> s[i]]
  OBVIOUS
<1>3. s \in Seq(Int)
  <2> DEFINE n == Len(s)
             f == [i \in 1..n |-> s[i]]
  <2>1. n \in Nat /\ (\A i \in 1..n : s[i] \in Int) /\ f = s
    BY <1>1, <1>2
  <2> HIDE DEF n
  <2>2. f \in [1..n -> Int]
    BY <2>1
  <2> HIDE DEF f
  <2>3. [1..n -> Int] \subseteq Seq(Int)
    BY <2>1
  <2> QED
    BY <2>1, <2>2, <2>3
<1> QED
  BY <1>1, <1>2, <1>3

(* The bytes of keys: only flags change. *)
LEMMA KeyBytes ==
  ASSUME Legible, NEW x \in Ready, NEW s \in Seq(1..(NumKeys - 1))
  PROVE  Sends(x, s, But(x, {"flag"}))
<1> DEFINE n == Len(s)
           C == But(x, {"flag"})
<1>0. NumKeys \in Nat
  BY Codes
<1>1. n \in Nat /\ (\A i \in 1..n : s[i] \in 1..(NumKeys - 1)) /\ s \in Seq(Int)
      /\ s = [i \in 1..n |-> s[i]]
  <2> DEFINE S == 1..(NumKeys - 1)
  <2>1. S \subseteq Int /\ s \in Seq(S)
    OBVIOUS
  <2> HIDE DEF S
  <2>2. /\ Len(s) \in Nat /\ (\A i \in 1..Len(s) : s[i] \in S) /\ s \in Seq(Int)
        /\ s = [i \in 1..Len(s) |-> s[i]]
    BY <2>1, SeqOf
  <2> QED
    BY <2>2 DEF S
<1>2. \A k \in 1..(NumKeys - 1) : k \in 1..(NumKeys + 39) /\ k \in Byte /\ k % 256 = k /\ k % 256 # 0
  <2>1. \A k \in 1..(NumKeys - 1) : k \in 1..(NumKeys + 39)
    BY <1>0
  <2>2. \A k \in 1..255 : k \in Byte
    BY DEF Byte
  <2> QED
    BY <2>1, <2>2, CodeBytes, ZenonT(60)
<1>3. Host!Transmit(s) = s
  <2>1. \A i \in 1..n : s[i] % 256 # 0 /\ s[i] % 256 = s[i]
    BY <1>1, <1>2
  <2>2. Host!Transmit(s) = [i \in 1..n |-> s[i] % 256]
    BY <1>1, <2>1, TransmitAll
  <2>3. [i \in 1..n |-> s[i] % 256] = [i \in 1..n |-> s[i]]
    BY <2>1
  <2> QED
    BY <1>1, <2>2, <2>3
<1>4. s \in Seq(Byte)
  <2>1. \A i \in 1..n : s[i] \in Byte
    BY <1>1, <1>2
  <2> HIDE DEF n
  <2>2. [i \in 1..n |-> s[i]] \in [1..n -> Byte]
    BY <2>1
  <2>3. [1..n -> Byte] \subseteq Seq(Byte)
    BY <1>1, SMTT(40)
  <2> QED
    BY <1>1, <2>2, <2>3
<1>5. x \in C /\ x \in FwStates
  BY DEF But, Same, Ready
<1>6. ASSUME NEW k \in 1..(NumKeys - 1), NEW y \in FwStates, y \in C PROVE Step(y, k) \in C
  <2>1. y \in Ready /\ y.mode = "loop" /\ y.pend = <<>>
    BY <1>6 DEF But, Ready
  <2> DEFINE m == Append(y.pend, k)
  <2>2. m = <<k>> /\ m[1] = k /\ Len(y.pend) = 0
    BY <2>1
  <2>3. k \in Int /\ k # Cmd.reset /\ Arity(k) = 0
        /\ k \notin Returning \cup {Cmd.rainbowOn, Cmd.rainbowOff}
    <3>1. k \notin {Cmd.color, Cmd.backOn, Cmd.bright, Cmd.extendOn, Cmd.remainOn}
      BY <1>0, Codes
    <3>2. k \notin Returning \cup {Cmd.rainbowOn, Cmd.rainbowOff}
      BY <1>0, Codes DEF Returning
    <3> QED
      BY <1>0, <3>1, <3>2, ArityIs, SMTT(40) DEF Returning
  <2> HIDE DEF m
  <2>4. Step(y, k) = Handled(y, m)
    BY <2>1, <2>2, <2>3 DEF Step, Parsed, m
  <2>5. Outcome(y, m, Handled(y, m))
    BY <2>2, <2>3, Effects
  <2>6. Step(y, k) \in FwStates
    BY <1>2, StepType
  <2>7. Handled(y, m).mode = "loop" /\ Handled(y, m).pend = <<>>
    BY <2>1, <2>2, <2>3 DEF Handled
  <2>8. Same(y, Handled(y, m), {"pend", "flag"})
    <3>1. CASE k \in Played
      BY <2>2, <2>5, <3>1 DEF Outcome
    <3>2. CASE k \notin Played
      <4>1. Same(y, Handled(y, m), {"pend"})
        BY <2>2, <2>3, <2>5, <3>2 DEF Outcome
      <4> QED
        BY <4>1 DEF Same
    <3> QED
      BY <3>1, <3>2
  <2>9. Step(y, k) \in Ready
    BY <2>4, <2>6, <2>7 DEF Ready
  <2>10. Step(y, k) \in But(y, {"flag"})
    BY <2>1, <2>4, <2>8, <2>9, HandlesBut
  <2> QED
    BY <1>6, <2>10 DEF But, Same
<1> HIDE DEF C
<1>7. \A i \in 1..Len(s) : \A y \in FwStates : y \in C => Step(y, s[i]) \in C
  BY <1>1, <1>6
<1>8. Leads(x, s, C)
  BY <1>4, <1>5, <1>7, LeadsAround
<1> QED
  BY <1>1, <1>3, <1>8 DEF Sends, C

(* What start() brings about, apart from the flags and the rainbow. *)
Follows(c, pal, r, q) ==
  {y \in Ready :
     /\ y.flagc = c.circle /\ y.flagz = c.ends
     /\ y.rm_status = c.remain /\ (c.remain => y.rm_time = c.num_remain)
     /\ y.extend = c.extend /\ (c.extend => y.numofextend = c.num_extend)
     /\ y.brightness = c.brightness % 256
     /\ y.on_background = (Host!HasBg(c) /\ c.bg)
     /\ (Host!HasBg(c) /\ c.bg => y.bgc = LowByte(r) /\ y.rgb = LowByte(q))
     /\ (~(Host!HasBg(c) /\ c.bg) => y.rgb = pal)}

(* A colour of a preset. *)
LEMMA PaletteColor ==
  ASSUME Legible, NEW p \in Host!Sets, NEW i \in Host!Colors
  PROVE  /\ Palettes[p][i] \in [Channels -> Int]
         /\ \A ch \in Channels : Palettes[p][i][ch] \in 1..255 /\ Palettes[p][i][ch] % 256 # 0
         /\ LowByte(Palettes[p][i]) = Palettes[p][i]
<1>1. Host!Channels = Channels /\ Palettes[p][i] \in [Channels -> 0..255]
  BY EffectPianoAssumption DEF Host!EffectHostAssumption, Host!Channels, Channels
<1>2. \A ch \in Channels : Palettes[p][i][ch] # 0
  BY ZenonT(60) DEF Legible
<1> DEFINE c == Palettes[p][i]
<1> HIDE DEF c
<1>3. c \in [Channels -> 0..255] /\ \A ch \in Channels : c[ch] # 0
  BY <1>1, <1>2 DEF c
<1>4. \A ch \in Channels : c[ch] \in 1..255
  BY <1>3
<1>5. \A n \in 1..255 : n % 256 = n /\ n % 256 # 0 /\ n \in Int
  OBVIOUS
<1>6. c \in [Channels -> Int]
  BY <1>3, <1>4, <1>5
<1>7. LowByte(c) = c
  <2>1. [ch \in Channels |-> c[ch] % 256] = [ch \in Channels |-> c[ch]]
    BY <1>4, <1>5
  <2> QED
    BY <1>3, <2>1 DEF LowByte
<1> QED
  BY <1>4, <1>5, <1>6, <1>7 DEF c

(* What the host can send of its settings. *)
LEMMA CarriedIs ==
  ASSUME NEW c \in Carried
  PROVE  /\ c.color \in Host!Colors /\ c.bgcolor \in Host!Colors
         /\ c.num_extend \in Int /\ c.num_extend % 256 = c.num_extend /\ c.num_extend # 0
         /\ c.num_remain \in Int /\ c.num_remain % 256 = c.num_remain /\ c.num_remain # 0
         /\ c.brightness \in Int /\ c.brightness % 256 # 0 /\ c.brightness > 0
         /\ c.circle \in BOOLEAN /\ c.ends \in BOOLEAN /\ c.remain \in BOOLEAN
         /\ c.extend \in BOOLEAN /\ c.bg \in BOOLEAN /\ c \in Host!Settings
<1>1. \A n \in 1..255 : n % 256 = n /\ n # 0 /\ n \in Int
  OBVIOUS
<1>2. c.num_extend \in 1..255 /\ c.num_remain \in 1..255
  BY DEF Carried
<1> QED
  BY <1>1, <1>2 DEF Carried, Host!Settings

(* start(), once the firmware is awake. *)
LEMMA StartCommands ==
  ASSUME Legible, NEW F, NEW B, NEW x,
         Sends(x, Host!WakeUp, {y \in Ready : y.flag \in F /\ y.rbstatus \in B}),
         NEW c \in Carried, NEW p \in Host!Sets,
         NEW r \in [Channels -> Int], NEW q \in [Channels -> Int],
         Host!HasBg(c) /\ c.bg => \A ch \in Channels : r[ch] % 256 # 0 /\ q[ch] % 256 # 0
  PROVE  Sends(x, Host!StartBytes(c, p, r, q),
               {y \in Follows(c, Palettes[p][c.color], r, q) : y.flag \in F /\ y.rbstatus \in B})
<1> DEFINE pal == Palettes[p][c.color]
           lit == Host!HasBg(c) /\ c.bg
           s1 == <<Cmd.color>> \o pal
           s2 == IF lit THEN Host!RefreshBg(r, q) ELSE <<Cmd.backOff>>
           s3 == <<IF c.circle THEN Cmd.circleOn ELSE Cmd.circleOff>>
           s4 == <<IF c.ends THEN Cmd.endsOn ELSE Cmd.endsOff>>
           s5 == IF c.remain THEN <<Cmd.remainOn, c.num_remain>> ELSE <<Cmd.remainOff>>
           s6 == IF c.extend THEN <<Cmd.extendOn, c.num_extend>> ELSE <<Cmd.extendOff>>
           s7 == <<Cmd.bright, c.brightness>>
           G0 == {y \in Ready : y.flag \in F /\ y.rbstatus \in B}
           G1 == {y \in G0 : y.rgb = pal}
           G2 == {y \in G0 : /\ y.on_background = lit
                             /\ lit => y.bgc = LowByte(r) /\ y.rgb = LowByte(q)
                             /\ ~lit => y.rgb = pal}
           G3 == {y \in G2 : y.flagc = c.circle}
           G4 == {y \in G3 : y.flagz = c.ends}
           G5 == {y \in G4 : y.rm_status = c.remain /\ (c.remain => y.rm_time = c.num_remain)}
           G6 == {y \in G5 : y.extend = c.extend /\ (c.extend => y.numofextend = c.num_extend)}
           G7 == {y \in G6 : y.brightness = c.brightness % 256}
<1>0. /\ c.color \in Host!Colors /\ c.num_extend \in Int /\ c.num_extend % 256 = c.num_extend
      /\ c.num_extend % 256 # 0 /\ c.num_remain % 256 # 0
      /\ c.num_remain \in Int /\ c.num_remain % 256 = c.num_remain
      /\ c.brightness \in Int /\ c.brightness % 256 # 0
      /\ c.circle \in BOOLEAN /\ c.ends \in BOOLEAN /\ c.remain \in BOOLEAN
      /\ c.extend \in BOOLEAN /\ c.bg \in BOOLEAN
  BY CarriedIs
<1>p. pal \in [Channels -> Int] /\ (\A ch \in Channels : pal[ch] % 256 # 0) /\ LowByte(pal) = pal
  BY <1>0, PaletteColor
<1>r. \A y : y \in Ready => y \in FwStates /\ y.flagc \in BOOLEAN /\ y.flagz \in BOOLEAN
        /\ y.rm_status \in BOOLEAN /\ y.extend \in BOOLEAN /\ y.on_background \in BOOLEAN
  BY DEF Ready, FwStates, FwTypes
<1>b. lit \in BOOLEAN
  OBVIOUS
<1> HIDE DEF pal, lit
<1>1. ASSUME NEW y \in FwStates, y \in G0 PROVE Sends(y, s1, G1)
  <2>0. y \in Ready
    BY <1>1
  <2>1. Sends(y, s1, {z \in But(y, {"rgb"}) : z.rgb = LowByte(pal)})
    BY <1>p, <2>0, ColorCommands
  <2>2. ASSUME NEW z \in But(y, {"rgb"}), z.rgb = LowByte(pal) PROVE z \in G1
    BY <1>1, <1>p, <2>2 DEF But, Same
  <2> QED
    BY <2>1, <2>2, SendsTo
<1>2. ASSUME NEW y \in FwStates, y \in G1 PROVE Sends(y, s2, G2)
  <2>0. y \in Ready
    BY <1>2
  <2>1. CASE lit
    <3>0. \A ch \in Channels : r[ch] % 256 # 0 /\ q[ch] % 256 # 0
      BY <2>1 DEF lit
    <3>1. Sends(y, s2, {z \in But(y, {"on_background", "bgc", "rgb"}) :
                   z.on_background /\ z.bgc = LowByte(r) /\ z.rgb = LowByte(q)})
      BY <2>0, <2>1, <3>0, RefreshCommands
    <3>2. ASSUME NEW z \in But(y, {"on_background", "bgc", "rgb"}), z.on_background,
                 z.bgc = LowByte(r), z.rgb = LowByte(q)
          PROVE  z \in G2
      <4>1. z \in Ready /\ z.flag \in F /\ z.rbstatus \in B
        BY <1>2 DEF But, Same
      <4> QED
        BY <1>r, <2>1, <3>2, <4>1
    <3> QED
      BY <3>1, <3>2, SendsTo
  <2>2. CASE ~lit
    <3>1. Sends(y, s2, {z \in But(y, {"on_background"}) : ~z.on_background})
      BY <2>0, <2>2, Switches
    <3>2. ASSUME NEW z \in But(y, {"on_background"}), ~z.on_background PROVE z \in G2
      <4>1. z \in Ready /\ z.flag \in F /\ z.rbstatus \in B /\ z.rgb = pal
        BY <1>2 DEF But, Same
      <4> QED
        BY <1>r, <1>b, <2>2, <3>2, <4>1
    <3> QED
      BY <3>1, <3>2, SendsTo
  <2> QED
    BY <2>1, <2>2
<1>3. ASSUME NEW y \in FwStates, y \in G2 PROVE Sends(y, s3, G3)
  <2>0. y \in Ready
    BY <1>3
  <2>1. Sends(y, s3, {z \in But(y, {"flagc"}) : z.flagc = c.circle})
    <3>1. Sends(y, <<Cmd.circleOn>>, {z \in But(y, {"flagc"}) : z.flagc})
          /\ Sends(y, <<Cmd.circleOff>>, {z \in But(y, {"flagc"}) : ~z.flagc})
      BY <2>0, Switches
    <3>2. \A z \in But(y, {"flagc"}) : z.flagc \in BOOLEAN
      BY <1>r DEF But
    <3>3. CASE c.circle
      <4>1. \A z \in FwStates : z \in {v \in But(y, {"flagc"}) : v.flagc}
                                => z \in {v \in But(y, {"flagc"}) : v.flagc = c.circle}
        BY <1>0, <3>2, <3>3
      <4> QED
        BY <3>1, <3>3, <4>1, SendsTo
    <3>4. CASE ~c.circle
      <4>1. \A z \in FwStates : z \in {v \in But(y, {"flagc"}) : ~v.flagc}
                                => z \in {v \in But(y, {"flagc"}) : v.flagc = c.circle}
        BY <1>0, <3>2, <3>4
      <4> QED
        BY <3>1, <3>4, <4>1, SendsTo
    <3> QED
      BY <3>3, <3>4
  <2>2. ASSUME NEW z \in But(y, {"flagc"}), z.flagc = c.circle PROVE z \in G3
    BY <1>3, <2>2 DEF But, Same
  <2> QED
    BY <2>1, <2>2, SendsTo
<1>4. ASSUME NEW y \in FwStates, y \in G3 PROVE Sends(y, s4, G4)
  <2>0. y \in Ready
    BY <1>4
  <2>1. Sends(y, s4, {z \in But(y, {"flagz"}) : z.flagz = c.ends})
    <3>1. Sends(y, <<Cmd.endsOn>>, {z \in But(y, {"flagz"}) : z.flagz})
          /\ Sends(y, <<Cmd.endsOff>>, {z \in But(y, {"flagz"}) : ~z.flagz})
      BY <2>0, Switches
    <3>2. \A z \in But(y, {"flagz"}) : z.flagz \in BOOLEAN
      BY <1>r DEF But
    <3>3. CASE c.ends
      <4>1. \A z \in FwStates : z \in {v \in But(y, {"flagz"}) : v.flagz}
                                => z \in {v \in But(y, {"flagz"}) : v.flagz = c.ends}
        BY <1>0, <3>2, <3>3
      <4> QED
        BY <3>1, <3>3, <4>1, SendsTo
    <3>4. CASE ~c.ends
      <4>1. \A z \in FwStates : z \in {v \in But(y, {"flagz"}) : ~v.flagz}
                                => z \in {v \in But(y, {"flagz"}) : v.flagz = c.ends}
        BY <1>0, <3>2, <3>4
      <4> QED
        BY <3>1, <3>4, <4>1, SendsTo
    <3> QED
      BY <3>3, <3>4
  <2>2. ASSUME NEW z \in But(y, {"flagz"}), z.flagz = c.ends PROVE z \in G4
    BY <1>4, <2>2 DEF But, Same
  <2> QED
    BY <2>1, <2>2, SendsTo
<1>5. ASSUME NEW y \in FwStates, y \in G4 PROVE Sends(y, s5, G5)
  <2>0. y \in Ready
    BY <1>5
  <2>1. CASE c.remain
    <3>1. Sends(y, s5, {z \in But(y, {"rm_status", "rm_time"}) :
                          z.rm_status /\ z.rm_time = c.num_remain})
      <4>1. Sends(y, <<Cmd.remainOn, c.num_remain>>, {z \in But(y, {"rm_status", "rm_time"}) :
                          z.rm_status /\ z.rm_time = c.num_remain % 256})
        BY <1>0, <2>0, NumberCommands, ZenonT(60)
      <4> QED
        BY <1>0, <2>1, <4>1
    <3>2. ASSUME NEW z \in But(y, {"rm_status", "rm_time"}), z.rm_status,
                 z.rm_time = c.num_remain
          PROVE  z \in G5
      <4>1. z \in G4 /\ z \in Ready
        BY <1>5 DEF But, Same
      <4>2. z.rm_status = c.remain
        BY <1>0, <1>r, <2>1, <3>2, <4>1
      <4> HIDE DEF G4
      <4> QED
        BY <3>2, <4>1, <4>2
    <3> QED
      BY <3>1, <3>2, SendsTo
  <2>2. CASE ~c.remain
    <3>1. Sends(y, s5, {z \in But(y, {"rm_status"}) : ~z.rm_status})
      BY <2>0, <2>2, Switches
    <3>2. ASSUME NEW z \in But(y, {"rm_status"}), ~z.rm_status PROVE z \in G5
      <4>1. z \in G4 /\ z \in Ready
        BY <1>5 DEF But, Same
      <4> QED
        BY <1>0, <1>r, <2>2, <3>2, <4>1
    <3> QED
      BY <3>1, <3>2, SendsTo
  <2> QED
    BY <2>1, <2>2
<1>6. ASSUME NEW y \in FwStates, y \in G5 PROVE Sends(y, s6, G6)
  <2>0. y \in Ready
    BY <1>6
  <2>1. CASE c.extend
    <3>1. Sends(y, s6, {z \in But(y, {"extend", "numofextend"}) :
                          z.extend /\ z.numofextend = c.num_extend})
      <4>1. Sends(y, <<Cmd.extendOn, c.num_extend>>, {z \in But(y, {"extend", "numofextend"}) :
                          z.extend /\ z.numofextend = c.num_extend % 256})
        BY <1>0, <2>0, NumberCommands, ZenonT(60)
      <4> QED
        BY <1>0, <2>1, <4>1
    <3>2. ASSUME NEW z \in But(y, {"extend", "numofextend"}), z.extend,
                 z.numofextend = c.num_extend
          PROVE  z \in G6
      <4>1. z \in G5 /\ z \in Ready
        BY <1>6 DEF But, Same
      <4>2. z.extend = c.extend
        BY <1>0, <1>r, <2>1, <3>2, <4>1
      <4> HIDE DEF G5
      <4> QED
        BY <3>2, <4>1, <4>2
    <3> QED
      BY <3>1, <3>2, SendsTo
  <2>2. CASE ~c.extend
    <3>1. Sends(y, s6, {z \in But(y, {"extend"}) : ~z.extend})
      BY <2>0, <2>2, Switches
    <3>2. ASSUME NEW z \in But(y, {"extend"}), ~z.extend PROVE z \in G6
      <4>1. z \in G5 /\ z \in Ready
        BY <1>6 DEF But, Same
      <4> QED
        BY <1>0, <1>r, <2>2, <3>2, <4>1
    <3> QED
      BY <3>1, <3>2, SendsTo
  <2> QED
    BY <2>1, <2>2
<1>7. ASSUME NEW y \in FwStates, y \in G6 PROVE Sends(y, s7, G7)
  <2>0. y \in Ready
    BY <1>7
  <2>1. Sends(y, s7, {z \in But(y, {"brightness"}) : z.brightness = c.brightness % 256})
    BY <1>0, <2>0, NumberCommands, ZenonT(60)
  <2>2. ASSUME NEW z \in But(y, {"brightness"}), z.brightness = c.brightness % 256 PROVE z \in G7
    BY <1>7, <2>2 DEF But, Same
  <2> QED
    BY <2>1, <2>2, SendsTo
<1>8. /\ s1 \in Seq(Int) /\ s2 \in Seq(Int) /\ s3 \in Seq(Int) /\ s4 \in Seq(Int)
      /\ s5 \in Seq(Int) /\ s6 \in Seq(Int) /\ s7 \in Seq(Int) /\ Host!WakeUp \in Seq(Int)
      /\ <<Cmd.color>> \in Seq(Int) /\ pal \in Seq(Int)
  <2>1. Host!WakeUp \in Seq(Int) /\ <<Cmd.color>> \in Seq(Int) /\ pal \in Seq(Int)
        /\ r \in Seq(Int) /\ q \in Seq(Int)
    BY <1>p, CodeInts, ColorSeq DEF Sends
  <2>2. s1 \in Seq(Int)
    BY <2>1, ConcatProperties
  <2>3. s2 \in Seq(Int)
    <3>1. <<Cmd.backOff, Cmd.backOn>> \in Seq(Int) /\ <<Cmd.backOff>> \in Seq(Int)
          /\ Host!Code = Cmd
      BY CodeInts
    <3>2. Host!RefreshBg(r, q) \in Seq(Int)
      BY <2>1, <3>1, ConcatProperties DEF Host!RefreshBg
    <3> QED
      BY <3>1, <3>2
  <2>4. s3 \in Seq(Int) /\ s4 \in Seq(Int)
    BY CodeInts
  <2>5. s5 \in Seq(Int) /\ s6 \in Seq(Int) /\ s7 \in Seq(Int)
    BY <1>0, CodeInts
  <2> QED
    BY <2>1, <2>2, <2>3, <2>4, <2>5
<1>9. Host!StartBytes(c, p, r, q)
        = ((((((Host!WakeUp \o s1) \o s2) \o s3) \o s4) \o s5) \o s6) \o s7
  <2>1. (Host!WakeUp \o <<Cmd.color>>) \o pal = Host!WakeUp \o s1
    BY <1>8, Regroup, SMTT(40)
  <2>2. Host!StartBytes(c, p, r, q)
          = (((((((Host!WakeUp \o <<Cmd.color>>) \o pal) \o s2) \o s3) \o s4) \o s5) \o s6) \o s7
    BY CodeInts DEF Host!StartBytes, pal, lit
  <2> QED
    BY <2>1, <2>2
<1> HIDE DEF s1, s2, s3, s4, s5, s6, s7, G0, G1, G2, G3, G4, G5, G6, G7
<1>10. Sends(x, Host!WakeUp \o s1, G1)
  <2>1. Sends(x, Host!WakeUp, G0)
    BY DEF G0
  <2> QED
    BY <1>1, <1>8, <2>1, SendsThen
<1>11. Sends(x, (Host!WakeUp \o s1) \o s2, G2)
  BY <1>2, <1>8, <1>10, SendsThen
<1>12. Sends(x, ((Host!WakeUp \o s1) \o s2) \o s3, G3)
  BY <1>3, <1>8, <1>11, SendsThen
<1>13. Sends(x, (((Host!WakeUp \o s1) \o s2) \o s3) \o s4, G4)
  BY <1>4, <1>8, <1>12, SendsThen
<1>14. Sends(x, ((((Host!WakeUp \o s1) \o s2) \o s3) \o s4) \o s5, G5)
  BY <1>5, <1>8, <1>13, SendsThen
<1>15. Sends(x, (((((Host!WakeUp \o s1) \o s2) \o s3) \o s4) \o s5) \o s6, G6)
  BY <1>6, <1>8, <1>14, SendsThen
<1>16. Sends(x, ((((((Host!WakeUp \o s1) \o s2) \o s3) \o s4) \o s5) \o s6) \o s7, G7)
  BY <1>7, <1>8, <1>15, SendsThen
<1>17. \A y \in FwStates : y \in G7 =>
         y \in {z \in Follows(c, Palettes[p][c.color], r, q) : z.flag \in F /\ z.rbstatus \in B}
  BY DEF G0, G2, G3, G4, G5, G6, G7, Follows, pal, lit
<1> QED
  BY <1>9, <1>16, <1>17, SendsTo

(* The effect of key U: every key is down and up again, the bar is cleared, *)
(* and the circle is on.                                                   *)
LEMMA EffectCommands ==
  ASSUME Legible, NEW x \in Ready
  PROVE  Sends(x, Host!EffectBytes,
               {y \in But(x, {"flagc", "flag"}) : y.flagc /\ y.flag = NoKeys})
<1> DEFINE n == NumKeys - 1
           w == EffectWidth
           S == 1..n
           a == <<Cmd.circleOff>>
           m1 == [j \in 1..w |-> j]
           mm == [j \in 1..(n - w) |-> <<j + w, j>>]
           m2 == Host!FlattenSeq(mm)
           m3 == [j \in 1..w |-> n - w + j]
           b == <<Cmd.circleOn>>
           c == <<Cmd.clear>>
           G == But(x, {"flagc", "flag"})
           G5 == {y \in G : y.flagc}
           G6 == {y \in G5 : y.flag = NoKeys}
<1>1. n \in Nat /\ w \in Nat /\ w <= n /\ n - w \in Nat
  BY Codes, EffectPianoAssumption DEF Host!EffectHostAssumption
<1>2. m1 \in Seq(S) /\ m3 \in Seq(S)
  <2> HIDE DEF n, w
  <2>1. m1 \in [1..w -> S] /\ m3 \in [1..w -> S]
    BY <1>1
  <2> HIDE DEF S
  <2>2. [1..w -> S] \subseteq Seq(S)
    BY <1>1
  <2> QED
    BY <2>1, <2>2
<1>3. m2 \in Seq(S)
  <2>1. mm \in Seq(Seq(S))
    <3> DEFINE k == n - w
    <3>1. \A j \in 1..k : j + w \in S /\ j \in S
      BY <1>1
    <3>0. k \in Nat
      BY <1>1
    <3> HIDE DEF S, k
    <3>2. \A j \in 1..k : <<j + w, j>> \in Seq(S)
      BY <3>1
    <3> DEFINE T == Seq(S)
    <3> HIDE DEF T
    <3>3. [j \in 1..k |-> <<j + w, j>>] \in [1..k -> T]
      BY <3>2 DEF T
    <3>4. [1..k -> T] \subseteq Seq(T)
      BY <3>0
    <3>5. mm = [j \in 1..k |-> <<j + w, j>>]
      BY DEF k
    <3> QED
      BY <3>3, <3>4, <3>5 DEF T
  <2> HIDE DEF S, mm
  <2> QED
    BY <2>1, FlattenConcat
<1> HIDE DEF m1, m2, m3, mm
<1>4. m1 \in Seq(Int) /\ m2 \in Seq(Int) /\ m3 \in Seq(Int)
  <2>1. S \subseteq Int
    BY <1>1
  <2> HIDE DEF S
  <2> QED
    BY <1>2, <1>3, <2>1, SeqOf
<1>5. a \in Seq(Int) /\ b \in Seq(Int) /\ c \in Seq(Int)
  BY CodeInts
<1>6. Host!EffectBytes = ((((a \o m1) \o m2) \o m3) \o b) \o c
  <2>1. Host!EffectBytes = (((a \o m1) \o m2) \o m3) \o <<Cmd.circleOn, Cmd.clear>>
    BY CodeInts DEF Host!EffectBytes, m1, m2, m3, mm
  <2>2. <<Cmd.circleOn, Cmd.clear>> = b \o c
    <3> DEFINE u == Cmd.circleOn
               v == Cmd.clear
               T == Int
    <3>1. u \in T /\ v \in T
      BY CodeInts
    <3> HIDE DEF u, v, T
    <3>2. <<u, v>> = <<u>> \o <<v>>
      BY <3>1, ConcatTwo
    <3> QED
      BY <3>2 DEF u, v
  <2> HIDE DEF a, b, c
  <2>3. ((a \o m1) \o m2) \o m3 \in Seq(Int)
    <3>1. a \o m1 \in Seq(Int)
      BY <1>4, <1>5, ConcatProperties
    <3>2. (a \o m1) \o m2 \in Seq(Int)
      BY <1>4, <3>1, ConcatProperties
    <3> QED
      BY <1>4, <3>2, ConcatProperties
  <2>4. (((a \o m1) \o m2) \o m3) \o (b \o c) = ((((a \o m1) \o m2) \o m3) \o b) \o c
    BY <1>5, <2>3, Regroup
  <2> QED
    BY <2>1, <2>2, <2>4
<1>7. Sends(x, a, G)
  <2>1. Sends(x, a, {y \in But(x, {"flagc"}) : ~y.flagc})
    BY Switches
  <2> QED
    BY <2>1, SendsTo DEF But, Same
<1>8. ASSUME NEW s \in Seq(S), NEW y \in FwStates, y \in G PROVE Sends(y, s, G)
  <2>1. y \in Ready
    BY <1>8 DEF But
  <2>2. Sends(y, s, But(y, {"flag"}))
    BY <2>1, KeyBytes
  <2>3. \A z \in FwStates : z \in But(y, {"flag"}) => z \in G
    BY <1>8 DEF But, Same
  <2> QED
    BY <2>2, <2>3, SendsTo
<1>9. ASSUME NEW y \in FwStates, y \in G PROVE Sends(y, b, G5)
  <2>1. y \in Ready
    BY <1>9 DEF But
  <2>2. Sends(y, b, {z \in But(y, {"flagc"}) : z.flagc})
    BY <2>1, Switches
  <2>3. \A z \in FwStates : z \in {v \in But(y, {"flagc"}) : v.flagc} => z \in G5
    BY <1>9 DEF But, Same
  <2> QED
    BY <2>2, <2>3, SendsTo
<1>10. ASSUME NEW y \in FwStates, y \in G5 PROVE Sends(y, c, G6)
  <2>1. y \in Ready
    BY <1>10 DEF But
  <2>2. Sends(y, c, {z \in But(y, {"flag"}) : z.flag = NoKeys})
    BY <2>1, Switches
  <2>3. \A z \in FwStates : z \in {v \in But(y, {"flag"}) : v.flag = NoKeys} => z \in G6
    BY <1>10 DEF But, Same
  <2> QED
    BY <2>2, <2>3, SendsTo
<1> HIDE DEF a, b, c, G, G5, S
<1>11. Sends(x, a \o m1, G)
  BY <1>2, <1>4, <1>7, <1>8, SendsThen
<1>12. Sends(x, (a \o m1) \o m2, G)
  BY <1>3, <1>4, <1>8, <1>11, SendsThen
<1>13. Sends(x, ((a \o m1) \o m2) \o m3, G)
  BY <1>2, <1>4, <1>8, <1>12, SendsThen
<1>14. Sends(x, (((a \o m1) \o m2) \o m3) \o b, G5)
  BY <1>5, <1>9, <1>13, SendsThen
<1> HIDE DEF G6
<1>15. Sends(x, ((((a \o m1) \o m2) \o m3) \o b) \o c, G6)
  BY <1>5, <1>10, <1>14, SendsThen
<1>16. \A y \in FwStates : y \in G6 =>
         y \in {z \in But(x, {"flagc", "flag"}) : z.flagc /\ z.flag = NoKeys}
  BY DEF G, G5, G6
<1> QED
  BY <1>6, <1>15, <1>16, SendsTo

-----------------------------------------------------------------------------
(* The invariant, and the two ways a handler uses the line. *)

(* What the firmware works with, compared with what the host does: what the *)
(* host sends next is a command, and the settings are the same but for       *)
(* those in drift.                                                         *)
InStep(x) ==
  /\ x \in Ready
  /\ cfg.circle => x.flagc \/ "circle" \in drift \/ on_rainbow
  /\ ~cfg.circle => ~x.flagc \/ "circle" \in drift
  /\ x.flagz = cfg.ends
  /\ x.rm_status = cfg.remain /\ (cfg.remain => x.rm_time = cfg.num_remain)
  /\ x.extend = cfg.extend /\ (cfg.extend => x.numofextend = cfg.num_extend)
  /\ x.on_background = cfg.bg \/ "back" \in drift
  /\ cfg.bg => x.bgc = LowByte(real) /\ x.rgb = LowByte(plus)
  /\ ~cfg.bg => x.rgb = Palettes[palette][cfg.color] \/ "color" \in drift

(* The brightness is the one that was set, unless it was too large to be   *)
(* sent (Effect_Piano.cpp:651) or a rainbow has lent its own.              *)
BrightIs(x) == x.brightness = cfg.brightness \/ cfg.brightness > 255 \/ on_rainbow

(* Between two commands, the firmware agrees with the host: about the      *)
(* keys, unless the host knows that it may not; that the rainbow is on     *)
(* only if the host has asked for it; and, while the program runs, about   *)
(* the settings. A brightness that waits is not there yet.                 *)
Agrees(x) ==
  /\ x.pend = <<>>
  /\ ~upset => \A k \in Played : x.flag[k] = held[k]
  /\ x.rbstatus => on_rainbow \/ contain_rainbow \/ "rainbow" \in drift \/ fault # "none"
  /\ running => InStep(x) /\ (queued # <<>> \/ BrightIs(x))

(* The states of the firmware that agree with the host. *)
Synced == {x \in FwStates : Agrees(x)}

(* Since the last start(), nothing has been lost: whatever is on the line    *)
(* brings the firmware to where the host thinks it is.                      *)
LineLeads == fault # "now" => Leads(Firmware, line, Synced)

(* The brightness that waits behind "rainbow off". *)
Waiting ==
  \/ queued = <<>>
  \/ \E n \in Int : /\ queued = <<Cmd.bright, n>> /\ n % 256 # 0
                    /\ n = cfg.brightness \/ cfg.brightness > 255

(* What the host keeps: settings that a line can carry, the colours of the *)
(* background as they were sent, and what waits.                           *)
HostOK ==
  /\ using_set \in Host!Sets /\ palette = using_set
  /\ cfg \in Carried /\ file \in [Host!Sets -> Carried]
  /\ held \in [Keys -> BOOLEAN]
  /\ real \in [Channels -> Int] /\ plus \in [Channels -> Int]
  /\ running /\ cfg.bg => \A ch \in Channels : real[ch] % 256 # 0 /\ plus[ch] % 256 # 0
  /\ ~running => queued = <<>>
  /\ Waiting
  /\ fault # "none" => upset

(* The inductive invariant. *)
SyncInv == TypeOK /\ line \in Seq(Byte) /\ HostOK /\ LineLeads

(* Nothing to send. *)
LEMMA TransmitEmpty ==
  ASSUME Legible
  PROVE  Host!Transmit(<<>>) = <<>> /\ <<>> \in Seq(Int)
<1> DEFINE s == <<>>
<1>1. s \in Seq(Int) /\ Len(s) = 0
  OBVIOUS
<1> HIDE DEF s
<1>2. Host!Transmit(s) = [i \in 1..0 |-> s[i] % 256]
  <2>1. \A i \in 1..Len(s) : s[i] % 256 # 0
    BY <1>1
  <2>2. Host!Transmit(s) = [i \in 1..Len(s) |-> s[i] % 256]
    BY <1>1, <2>1, TransmitAll
  <2> QED
    BY <1>1, <2>2
<1>3. [i \in 1..0 |-> s[i] % 256] = <<>>
  OBVIOUS
<1> QED
  BY <1>1, <1>2, <1>3 DEF s

(* What waits is sent first. *)
LEMMA Flush ==
  ASSUME Legible, HostOK, running, NEW x \in Synced
  PROVE  Sends(x, queued, {y \in Ready : Agrees(y) /\ BrightIs(y)})
<1>1. x \in Ready /\ x \in FwStates /\ Agrees(x) /\ InStep(x)
  BY DEF Synced, Agrees, InStep
<1>2. CASE queued = <<>>
  <2>1. BrightIs(x)
    BY <1>1, <1>2 DEF Agrees
  <2>2. Host!Transmit(<<>>) = <<>> /\ <<>> \in Seq(Int)
    BY TransmitEmpty
  <2> QED
    BY <1>1, <1>2, <2>1, <2>2, LeadsNowhere DEF Sends
<1>3. CASE queued # <<>>
  <2>1. PICK n \in Int : /\ queued = <<Cmd.bright, n>> /\ n % 256 # 0
                         /\ n = cfg.brightness \/ cfg.brightness > 255
    BY <1>3 DEF HostOK, Waiting
  <2>2. Sends(x, queued, {y \in But(x, {"brightness"}) : y.brightness = n % 256})
    BY <1>1, <2>1, NumberCommands
  <2>3. ASSUME NEW y \in But(x, {"brightness"}), y.brightness = n % 256
        PROVE  y \in Ready /\ Agrees(y) /\ BrightIs(y)
    <3>1. y \in Ready /\ Same(x, y, {"brightness"})
      BY DEF But
    <3>2. cfg.brightness > 255 \/ n % 256 = cfg.brightness
      <4>1. cfg.brightness \in Int /\ cfg.brightness > 0
        BY CarriedIs DEF HostOK
      <4>2. \A m \in 1..255 : m % 256 = m
        OBVIOUS
      <4> QED
        BY <2>1, <4>1, <4>2
    <3>3. BrightIs(y)
      BY <2>3, <3>2 DEF BrightIs
    <3>4. InStep(y)
      BY <1>1, <3>1 DEF InStep, Same
    <3> QED
      BY <1>1, <3>1, <3>3, <3>4 DEF Agrees, Same
  <2> QED
    BY <2>2, <2>3, SendsTo
<1> QED
  BY <1>2, <1>3

(* What waits, and s, are bytes on the line; the firmware has not moved. *)
LEMMA LineType ==
  ASSUME Legible, SyncInv, UNCHANGED vars, NEW s \in Seq(Int),
         line' = line \o Host!Transmit(queued \o s)
  PROVE  /\ TypeOK' /\ line' \in Seq(Byte) /\ Firmware' = Firmware
         /\ queued \in Seq(Int) /\ Host!Transmit(queued) \in Seq(Byte)
         /\ Host!Transmit(queued \o s) \in Seq(Byte)
<1>1. line \in Seq(Byte) /\ HostOK /\ TypeOK
  BY DEF SyncInv
<1>2. queued \in Seq(Int)
  <2>1. CASE queued = <<>>
    BY <2>1
  <2>2. CASE queued # <<>>
    <3>1. PICK n \in Int : queued = <<Cmd.bright, n>>
      BY <1>1, <2>2 DEF HostOK, Waiting
    <3> QED
      BY <3>1, CodeInts
  <2> QED
    BY <2>1, <2>2
<1>3. queued \o s \in Seq(Int)
  BY <1>2, ConcatProperties
<1>4. Host!Transmit(queued \o s) \in Seq(Byte) /\ Host!Transmit(queued) \in Seq(Byte)
  BY <1>2, <1>3, TransmitConcat
<1>5. line' \in Seq(Byte)
  BY <1>1, <1>4, ConcatProperties
<1>6. Firmware' = Firmware
  BY DEF Firmware, vars, parser, ring, colors, spread, remain
<1>7. TypeOK'
  BY <1>1, Kept DEF vars, parser, ParserType, TypeOK
<1> QED
  BY <1>2, <1>4, <1>5, <1>6, <1>7

(* A handler that sends what waits, and s. *)
LEMMA LineStep ==
  ASSUME Legible, SyncInv, running, UNCHANGED vars, NEW s \in Seq(Int),
         line' = line \o Host!Transmit(queued \o s),
         fault' # "now" => fault # "now",
         \A y \in Ready : Agrees(y) /\ BrightIs(y) => Sends(y, s, Synced')
  PROVE  TypeOK' /\ line' \in Seq(Byte) /\ LineLeads'
<1>1. line \in Seq(Byte) /\ HostOK
  BY DEF SyncInv
<1>2. /\ TypeOK' /\ line' \in Seq(Byte) /\ Firmware' = Firmware
      /\ queued \in Seq(Int) /\ Host!Transmit(queued \o s) \in Seq(Byte)
  BY LineType
<1>3. ASSUME fault' # "now" PROVE Leads(Firmware', line', Synced')
  <2>1. Leads(Firmware, line, Synced)
    BY <1>3 DEF SyncInv, LineLeads
  <2>2. ASSUME NEW x \in FwStates, x \in Synced
        PROVE  Leads(x, Host!Transmit(queued \o s), Synced')
    <3>1. Sends(x, queued, {y \in Ready : Agrees(y) /\ BrightIs(y)})
      BY <1>1, <2>2, Flush
    <3> DEFINE G == {y \in Ready : Agrees(y) /\ BrightIs(y)}
               Q == Synced'
    <3>2. \A y \in FwStates : y \in G => Sends(y, s, Q)
      OBVIOUS
    <3>3. Sends(x, queued, G)
      BY <3>1
    <3> HIDE DEF G, Q
    <3>4. Sends(x, queued \o s, Q)
      BY <3>2, <3>3, SendsThen
    <3> QED
      BY <3>4 DEF Sends, Q
  <2> DEFINE Q == Synced'
             u == Host!Transmit(queued \o s)
  <2> HIDE DEF Q, u
  <2>3. Leads(Firmware, line \o u, Q)
    BY <1>1, <1>2, <2>1, <2>2, LeadsThen DEF Q, u
  <2> QED
    BY <1>2, <2>3 DEF Q, u
<1>4. LineLeads'
  BY <1>3 DEF LineLeads
<1> QED
  BY <1>2, <1>4

(* A handler that pushes s. *)
LEMMA PushStep ==
  ASSUME Legible, SyncInv, running, UNCHANGED vars, NEW s \in Seq(Int), Host!Push(s),
         fault' # "now" => fault # "now",
         \A y \in Ready : Agrees(y) /\ BrightIs(y) => Sends(y, s, Synced')
  PROVE  /\ TypeOK' /\ line' \in Seq(Byte) /\ LineLeads'
         /\ queued' = <<>> /\ Waiting'
<1>1. line' = line \o Host!Transmit(queued \o s) /\ queued' = <<>>
  BY DEF Host!Push
<1>2. TypeOK' /\ line' \in Seq(Byte) /\ LineLeads'
  BY <1>1, LineStep
<1> QED
  BY <1>1, <1>2 DEF Waiting

(* A handler that sends nothing. *)
LEMMA QuietStep ==
  ASSUME SyncInv, UNCHANGED vars, line' = line, fault' = fault,
         \A x \in FwStates : Agrees(x) => Agrees(x)'
  PROVE  TypeOK' /\ line' \in Seq(Byte) /\ LineLeads'
<1>1. line \in Seq(Byte) /\ TypeOK
  BY DEF SyncInv
<1>2. Firmware' = Firmware
  BY DEF Firmware, vars, parser, ring, colors, spread, remain
<1>3. TypeOK'
  BY <1>1, Kept DEF vars, parser, ParserType, TypeOK
<1>4. ASSUME fault' # "now" PROVE Leads(Firmware', line', Synced')
  <2> DEFINE P == Synced
             Q == Synced'
  <2>1. Leads(Firmware, line, P)
    BY <1>4 DEF SyncInv, LineLeads
  <2>2. \A x \in FwStates : x \in P => x \in Q
    BY DEF Synced
  <2> HIDE DEF P, Q
  <2>3. Leads(Firmware, line, Q)
    BY <1>1, <2>1, <2>2, LeadsTo
  <2> QED
    BY <1>2, <2>3 DEF Q
<1>5. LineLeads'
  BY <1>4 DEF LineLeads
<1> QED
  BY <1>1, <1>3, <1>5

(* A handler that sends s and changes no setting. *)
LEMMA SendSync ==
  ASSUME Legible, SyncInv, UNCHANGED vars, NEW s \in Seq(Int), Host!Send(s),
         fault' = fault, upset => upset', held' \in [Keys -> BOOLEAN],
         \A y \in Ready : Agrees(y) /\ BrightIs(y) => Sends(y, s, Synced')
  PROVE  SyncInv'
<1>1. running /\ Host!Push(s) /\ HostOK
      /\ UNCHANGED <<running, using_set, palette, cfg, real, plus, file>>
  BY DEF Host!Send, Host!Ready, Host!setVars, Host!bgVars, SyncInv
<1>2. TypeOK' /\ line' \in Seq(Byte) /\ LineLeads' /\ queued' = <<>> /\ Waiting'
  BY <1>1, PushStep
<1>3. HostOK'
  BY <1>1, <1>2 DEF HostOK
<1> QED
  BY <1>2, <1>3 DEF SyncInv

(* A handler that changes settings, sends s and saves. *)
LEMMA SetSync ==
  ASSUME Legible, SyncInv, UNCHANGED vars, NEW c \in Carried, NEW s \in Seq(Int), Host!Set(c, s),
         fault' = fault, upset => upset', held' \in [Keys -> BOOLEAN],
         real' \in [Channels -> Int] /\ plus' \in [Channels -> Int],
         c.bg => \A ch \in Channels : real'[ch] % 256 # 0 /\ plus'[ch] % 256 # 0,
         \A y \in Ready : Agrees(y) /\ BrightIs(y) => Sends(y, s, Synced')
  PROVE  SyncInv'
<1>1. running /\ Host!Push(s) /\ HostOK /\ cfg' = c
      /\ UNCHANGED <<running, using_set, palette>>
      /\ file' = [file EXCEPT ![using_set] = c]
  BY DEF Host!Set, Host!Ready, Host!setVars, Host!Save, SyncInv
<1>2. TypeOK' /\ line' \in Seq(Byte) /\ LineLeads' /\ queued' = <<>> /\ Waiting'
  BY <1>1, PushStep
<1>3. file' \in [Host!Sets -> Carried]
  BY <1>1 DEF HostOK
<1>4. HostOK'
  BY <1>1, <1>2, <1>3, SMTT(40) DEF HostOK
<1> QED
  BY <1>2, <1>4 DEF SyncInv

(* The settings that can be carried, one of them changed. *)
LEMMA CarriedChange ==
  ASSUME NEW c \in Carried
  PROVE  /\ \A b \in BOOLEAN : /\ [c EXCEPT !.circle = b] \in Carried
                               /\ [c EXCEPT !.ends = b] \in Carried
                               /\ [c EXCEPT !.extend = b] \in Carried
                               /\ [c EXCEPT !.remain = b] \in Carried
                               /\ [c EXCEPT !.bg = b] \in Carried
         /\ \A i \in Host!Colors : /\ [c EXCEPT !.color = i] \in Carried
                                   /\ [c EXCEPT !.bgcolor = i] \in Carried
         /\ \A n \in 1..255 : /\ [c EXCEPT !.num_extend = n] \in Carried
                              /\ [c EXCEPT !.num_remain = n] \in Carried
         /\ \A n \in Int : n > 0 /\ n % 256 # 0 => [c EXCEPT !.brightness = n] \in Carried
         /\ \A n \in BackNumbers \cap Int : [c EXCEPT !.bgbright = n] \in Carried
<1>1. c \in Host!Settings /\ 1..255 \subseteq Int /\ Host!Colors \subseteq Int
  BY DEF Carried, Host!Colors
<1>2. \A b \in BOOLEAN : /\ [c EXCEPT !.circle = b] \in Carried
                         /\ [c EXCEPT !.ends = b] \in Carried
                         /\ [c EXCEPT !.extend = b] \in Carried
                         /\ [c EXCEPT !.remain = b] \in Carried
                         /\ [c EXCEPT !.bg = b] \in Carried
  BY <1>1 DEF Carried, Host!Settings
<1>3. \A i \in Host!Colors : /\ [c EXCEPT !.color = i] \in Carried
                             /\ [c EXCEPT !.bgcolor = i] \in Carried
  BY <1>1 DEF Carried, Host!Settings
<1>4. \A n \in 1..255 : /\ [c EXCEPT !.num_extend = n] \in Carried
                        /\ [c EXCEPT !.num_remain = n] \in Carried
  BY <1>1 DEF Carried, Host!Settings
<1>5. \A n \in Int : n > 0 /\ n % 256 # 0 => [c EXCEPT !.brightness = n] \in Carried
  BY <1>1 DEF Carried, Host!Settings
<1>6. \A n \in BackNumbers \cap Int : [c EXCEPT !.bgbright = n] \in Carried
  BY <1>1 DEF Carried, Host!Settings
<1> QED
  BY <1>2, <1>3, <1>4, <1>5, <1>6

(* The colours of the background: typed, and with no byte 0. *)
LEMMA BackgroundIs ==
  ASSUME Legible, HostOK, NEW c \in Carried, NEW p \in Host!Sets, Host!GetBgColor(c, p)
  PROVE  /\ real' \in [Channels -> Int] /\ plus' \in [Channels -> Int]
         /\ Host!HasBg(c) =>
              \A ch \in Channels : real'[ch] % 256 # 0 /\ plus'[ch] % 256 # 0
         /\ ~Host!HasBg(c) => real' = real /\ plus' = plus
<1>1. CASE ~Host!HasBg(c)
  BY <1>1 DEF Host!GetBgColor, HostOK
<1>2. CASE Host!HasBg(c)
  <2>1. /\ c.color \in Host!Colors /\ c.bgcolor \in Host!Colors /\ c.bgbright \in BackNumbers \ {0}
        /\ c.bgbright \in Int
    BY <1>2, CarriedIs DEF Carried, Host!HasBg, Host!Settings
  <2>2. /\ \A ch \in Channels : Palettes[p][c.color][ch] \in Int /\ Palettes[p][c.bgcolor][ch] \in Int
        /\ Host!Channels = Channels
    <3>1. Palettes[p][c.color] \in [Channels -> Int] /\ Palettes[p][c.bgcolor] \in [Channels -> Int]
      BY <2>1, PaletteColor
    <3> QED
      BY <3>1 DEF Host!Channels, Channels
  <2>3. real' = Host!BgReal(c, p) /\ plus' = Host!BgPlus(c, p)
    BY <1>2 DEF Host!GetBgColor
  <2>4. real' \in [Channels -> Int] /\ plus' \in [Channels -> Int]
    BY <2>1, <2>2, <2>3 DEF Host!BgReal, Host!BgPlus
  <2> DEFINE d == [Presets[p] EXCEPT !.color = c.color, !.bgcolor = c.bgcolor,
                                     !.bgbright = c.bgbright]
  <2>5. \A ch \in Channels : Host!BgReal(d, p)[ch] % 256 # 0 /\ Host!BgPlus(d, p)[ch] % 256 # 0
    BY <2>1, ZenonT(60) DEF Legible
  <2>6. d.color = c.color /\ d.bgcolor = c.bgcolor /\ d.bgbright = c.bgbright
    <3>1. Presets[p] \in Host!Settings
      BY ZenonT(60) DEF Legible, Carried
    <3> QED
      BY <3>1 DEF Host!Settings
  <2> HIDE DEF d
  <2>7. Host!BgReal(d, p) = Host!BgReal(c, p) /\ Host!BgPlus(d, p) = Host!BgPlus(c, p)
    BY <2>6 DEF Host!BgReal, Host!BgPlus
  <2> QED
    BY <1>2, <2>3, <2>4, <2>5, <2>7
<1> QED
  BY <1>1, <1>2

(* What the ghost variable keeps of a handler, by its name. *)
LEMMA NoteIs ==
  ASSUME HostOK, NEW h, NEW k, Note(h, k), h # "midi"
  PROVE  /\ held' = held /\ held' \in [Keys -> BOOLEAN] /\ (upset => upset')
         /\ h = "other" => drift' = drift
         /\ h = "clear" => drift' = drift
         /\ h = "effect" => drift' = drift \cup {"circle"}
         /\ h = "back" => drift' = drift \cup {"color"}
         /\ h = "backOn" => drift' = drift \ {"back"}
         /\ h = "dark" => drift' = drift \ {"rainbow"}
         /\ h \in {"color", "bgcolor"} /\ cfg.bg /\ ~Host!HasBg(cfg)
              => drift' = drift \cup {"back", "color"}
         /\ h = "color" /\ (cfg.bg => Host!HasBg(cfg)) => drift' = drift \ {"color"}
         /\ h = "bgcolor" /\ (cfg.bg => Host!HasBg(cfg)) => drift' = drift
         /\ h = "start" => drift' = drift \cap {"rainbow"}
         /\ h = "again" => drift' = drift \cap {"rainbow", "file"}
         /\ h = "select" => drift' = (drift \cap {"rainbow"}) \cup {"color", "file"}
         /\ h = "exit" => drift' = IF on_rainbow \/ contain_rainbow THEN drift \cup {"rainbow"}
                                                                     ELSE drift
         /\ h \in {"start", "again", "select", "effect", "clear", "exit"} /\ ~upset'
              => \A key \in Keys : held[key] = FALSE
<1>1. held' = held /\ held' \in [Keys -> BOOLEAN] /\ (upset => upset')
  BY DEF Note, HostOK
<1>2. drift' = Drift(h)
  BY DEF Note
<1>3. /\ h = "other" => drift' = drift
      /\ h = "clear" => drift' = drift
      /\ h = "effect" => drift' = drift \cup {"circle"}
      /\ h = "back" => drift' = drift \cup {"color"}
      /\ h = "backOn" => drift' = drift \ {"back"}
      /\ h = "dark" => drift' = drift \ {"rainbow"}
  BY <1>2 DEF Drift
<1>4. /\ h = "start" => drift' = drift \cap {"rainbow"}
      /\ h = "again" => drift' = drift \cap {"rainbow", "file"}
      /\ h = "select" => drift' = (drift \cap {"rainbow"}) \cup {"color", "file"}
  BY <1>2 DEF Drift
<1>5. h = "exit" => drift' = IF on_rainbow \/ contain_rainbow THEN drift \cup {"rainbow"} ELSE drift
  BY <1>2 DEF Drift
<1>6. /\ h \in {"color", "bgcolor"} /\ cfg.bg /\ ~Host!HasBg(cfg)
           => drift' = drift \cup {"back", "color"}
      /\ h = "color" /\ (cfg.bg => Host!HasBg(cfg)) => drift' = drift \ {"color"}
      /\ h = "bgcolor" /\ (cfg.bg => Host!HasBg(cfg)) => drift' = drift
  BY <1>2 DEF Drift
<1>7. ASSUME h \in {"start", "again", "select", "effect", "clear", "exit"}, ~upset'
      PROVE  \A key \in Keys : held[key] = FALSE
  <2>1. ~AnyHeld
    BY <1>7 DEF Note
  <2> QED
    BY <2>1 DEF AnyHeld, HostOK
<1> QED
  BY <1>1, <1>3, <1>4, <1>5, <1>6, <1>7

-----------------------------------------------------------------------------
(* The switches and the typed commands keep it. *)

(* What every handler of the form Set does. *)
LEMMA SetIs ==
  ASSUME NEW c, NEW s, Host!Set(c, s)
  PROVE  /\ running /\ running' = running /\ palette' = palette /\ using_set' = using_set
         /\ on_rainbow' = on_rainbow /\ contain_rainbow' = contain_rainbow
         /\ cfg' = c /\ queued' = <<>>
BY DEF Host!Set, Host!Ready, Host!setVars, Host!rbVars, Host!Push

(* SwitchCircle. *)
LEMMA CircleSync ==
  ASSUME Legible, SyncInv, UNCHANGED vars, fault' = fault, Note("other", 0), Host!SwitchCircle
  PROVE  SyncInv'
<1> DEFINE c == [cfg EXCEPT !.circle = ~cfg.circle]
           s == IF cfg.circle THEN <<Cmd.circleOff>> ELSE <<Cmd.circleOn>>
<1>1. HostOK /\ cfg \in Carried /\ cfg \in Host!Settings /\ cfg.circle \in BOOLEAN
      /\ cfg.num_extend % 256 = cfg.num_extend /\ cfg.num_remain % 256 = cfg.num_remain
  BY CarriedIs, SMTT(40) DEF SyncInv, HostOK
<1>2. c \in Carried /\ s \in Seq(Int)
  BY <1>1, CarriedChange, CarriedIs, CodeInts, ZenonT(60)
<1>3. Host!Set(c, s) /\ real' = real /\ plus' = plus
  BY <1>1, CodeInts DEF Host!SwitchCircle, Host!bgVars
<1>4. /\ c.circle = ~cfg.circle /\ c.circle \in BOOLEAN
      /\ c.ends = cfg.ends /\ c.extend = cfg.extend /\ c.remain = cfg.remain
      /\ c.bg = cfg.bg /\ c.num_extend = cfg.num_extend /\ c.num_remain = cfg.num_remain
      /\ c.brightness = cfg.brightness /\ c.color = cfg.color /\ c.bgcolor = cfg.bgcolor
      /\ c.bgbright = cfg.bgbright
  BY <1>1 DEF Host!Settings
<1>5. /\ running' = running /\ palette' = palette /\ running /\ cfg' = c /\ queued' = <<>>
      /\ on_rainbow' = on_rainbow /\ contain_rainbow' = contain_rainbow
      /\ drift' = drift /\ held' = held /\ held' \in [Keys -> BOOLEAN] /\ (upset => upset')
      /\ real' = real /\ plus' = plus
  <2>1. /\ running' = running /\ palette' = palette /\ running /\ cfg' = c /\ queued' = <<>>
        /\ on_rainbow' = on_rainbow /\ contain_rainbow' = contain_rainbow
    BY <1>3, SetIs
  <2>2. drift' = drift /\ held' = held /\ held' \in [Keys -> BOOLEAN] /\ (upset => upset')
    BY <1>1, NoteIs
  <2> QED
    BY <1>3, <2>1, <2>2
<1> HIDE DEF c, s
<1>6. ASSUME NEW y \in Ready, Agrees(y), BrightIs(y) PROVE Sends(y, s, Synced')
  <2>1. InStep(y)
    BY <1>5, <1>6 DEF Agrees
  <2>2. CASE cfg.circle
    <3>1. Sends(y, s, {z \in But(y, {"flagc"}) : ~z.flagc})
      BY <1>1, <2>2, Switches DEF s
    <3>2. ASSUME NEW z \in But(y, {"flagc"}), ~z.flagc PROVE z \in Synced'
      <4>1. z \in Ready /\ z \in FwStates /\ Same(y, z, {"flagc"})
            /\ z.flagz \in BOOLEAN /\ z.extend \in BOOLEAN /\ z.rm_status \in BOOLEAN
        BY DEF But, Ready, FwStates, FwTypes
      <4>2. InStep(z)'
        BY <1>1, <1>4, <1>5, <2>1, <2>2, <3>2, <4>1, ZenonT(60) DEF InStep, Same
      <4>3. BrightIs(z)'
        BY <1>1, <1>4, <1>5, <1>6, <4>1 DEF BrightIs, Same
      <4> QED
        BY <1>5, <1>6, <4>1, <4>2, <4>3 DEF Synced, Agrees, Same, Ready
    <3> QED
      BY <3>1, <3>2, SendsTo
  <2>3. CASE ~cfg.circle
    <3>1. Sends(y, s, {z \in But(y, {"flagc"}) : z.flagc})
      BY <1>1, <2>3, Switches DEF s
    <3>2. ASSUME NEW z \in But(y, {"flagc"}), z.flagc PROVE z \in Synced'
      <4>1. z \in Ready /\ z \in FwStates /\ Same(y, z, {"flagc"})
            /\ z.flagz \in BOOLEAN /\ z.extend \in BOOLEAN /\ z.rm_status \in BOOLEAN
        BY DEF But, Ready, FwStates, FwTypes
      <4>2. InStep(z)'
        BY <1>1, <1>4, <1>5, <2>1, <2>3, <3>2, <4>1, ZenonT(60) DEF InStep, Same
      <4>3. BrightIs(z)'
        BY <1>1, <1>4, <1>5, <1>6, <4>1 DEF BrightIs, Same
      <4> QED
        BY <1>5, <1>6, <4>1, <4>2, <4>3 DEF Synced, Agrees, Same, Ready
    <3> QED
      BY <3>1, <3>2, SendsTo
  <2> QED
    BY <2>2, <2>3
<1>7. c.bg => \A ch \in Channels : real'[ch] % 256 # 0 /\ plus'[ch] % 256 # 0
  BY <1>1, <1>3, <1>4, <1>5 DEF HostOK
<1>8. real' \in [Channels -> Int] /\ plus' \in [Channels -> Int]
  BY <1>1, <1>3 DEF HostOK
<1> QED
  BY <1>2, <1>3, <1>5, <1>6, <1>7, <1>8, SetSync

(* SwitchEnds. *)
LEMMA EndsSync ==
  ASSUME Legible, SyncInv, UNCHANGED vars, fault' = fault, Note("other", 0), Host!SwitchEnds
  PROVE  SyncInv'
<1> DEFINE c == [cfg EXCEPT !.ends = ~cfg.ends]
           s == IF cfg.ends THEN <<Cmd.endsOff>> ELSE <<Cmd.endsOn>>
<1>1. HostOK /\ cfg \in Carried /\ cfg \in Host!Settings /\ cfg.ends \in BOOLEAN
      /\ cfg.num_extend % 256 = cfg.num_extend /\ cfg.num_remain % 256 = cfg.num_remain
  BY CarriedIs, SMTT(40) DEF SyncInv, HostOK
<1>2. c \in Carried /\ s \in Seq(Int)
  BY <1>1, CarriedChange, CarriedIs, CodeInts, ZenonT(60)
<1>3. Host!Set(c, s) /\ real' = real /\ plus' = plus
  BY <1>1, CodeInts DEF Host!SwitchEnds, Host!bgVars
<1>4. /\ c.ends = ~cfg.ends /\ c.ends \in BOOLEAN
      /\ c.circle = cfg.circle /\ c.extend = cfg.extend /\ c.remain = cfg.remain
      /\ c.bg = cfg.bg /\ c.num_extend = cfg.num_extend /\ c.num_remain = cfg.num_remain
      /\ c.brightness = cfg.brightness /\ c.color = cfg.color /\ c.bgcolor = cfg.bgcolor
      /\ c.bgbright = cfg.bgbright
  BY <1>1 DEF Host!Settings
<1>5. /\ running' = running /\ palette' = palette /\ running /\ cfg' = c /\ queued' = <<>>
      /\ on_rainbow' = on_rainbow /\ contain_rainbow' = contain_rainbow
      /\ drift' = drift /\ held' = held /\ held' \in [Keys -> BOOLEAN] /\ (upset => upset')
      /\ real' = real /\ plus' = plus
  <2>1. /\ running' = running /\ palette' = palette /\ running /\ cfg' = c /\ queued' = <<>>
        /\ on_rainbow' = on_rainbow /\ contain_rainbow' = contain_rainbow
    BY <1>3, SetIs
  <2>2. drift' = drift /\ held' = held /\ held' \in [Keys -> BOOLEAN] /\ (upset => upset')
    BY <1>1, NoteIs
  <2> QED
    BY <1>3, <2>1, <2>2
<1> HIDE DEF c, s
<1>6. ASSUME NEW y \in Ready, Agrees(y), BrightIs(y) PROVE Sends(y, s, Synced')
  <2>1. InStep(y)
    BY <1>5, <1>6 DEF Agrees
  <2>2. CASE cfg.ends
    <3>1. Sends(y, s, {z \in But(y, {"flagz"}) : ~z.flagz})
      BY <1>1, <2>2, Switches DEF s
    <3>2. ASSUME NEW z \in But(y, {"flagz"}), ~z.flagz PROVE z \in Synced'
      <4>1. z \in Ready /\ z \in FwStates /\ Same(y, z, {"flagz"})
            /\ z.flagz \in BOOLEAN /\ z.extend \in BOOLEAN /\ z.rm_status \in BOOLEAN
        BY DEF But, Ready, FwStates, FwTypes
      <4>2. InStep(z)'
        BY <1>1, <1>4, <1>5, <2>1, <2>2, <3>2, <4>1 DEF InStep, Same
      <4>3. BrightIs(z)'
        BY <1>1, <1>4, <1>5, <1>6, <4>1 DEF BrightIs, Same
      <4> QED
        BY <1>5, <1>6, <4>1, <4>2, <4>3 DEF Synced, Agrees, Same, Ready
    <3> QED
      BY <3>1, <3>2, SendsTo
  <2>3. CASE ~cfg.ends
    <3>1. Sends(y, s, {z \in But(y, {"flagz"}) : z.flagz})
      BY <1>1, <2>3, Switches DEF s
    <3>2. ASSUME NEW z \in But(y, {"flagz"}), z.flagz PROVE z \in Synced'
      <4>1. z \in Ready /\ z \in FwStates /\ Same(y, z, {"flagz"})
            /\ z.flagz \in BOOLEAN /\ z.extend \in BOOLEAN /\ z.rm_status \in BOOLEAN
        BY DEF But, Ready, FwStates, FwTypes
      <4>2. InStep(z)'
        BY <1>1, <1>4, <1>5, <2>1, <2>3, <3>2, <4>1, ZenonT(60) DEF InStep, Same
      <4>3. BrightIs(z)'
        BY <1>1, <1>4, <1>5, <1>6, <4>1 DEF BrightIs, Same
      <4> QED
        BY <1>5, <1>6, <4>1, <4>2, <4>3 DEF Synced, Agrees, Same, Ready
    <3> QED
      BY <3>1, <3>2, SendsTo
  <2> QED
    BY <2>2, <2>3
<1>7. c.bg => \A ch \in Channels : real'[ch] % 256 # 0 /\ plus'[ch] % 256 # 0
  BY <1>1, <1>3, <1>4, <1>5 DEF HostOK
<1>8. real' \in [Channels -> Int] /\ plus' \in [Channels -> Int]
  BY <1>1, <1>3 DEF HostOK
<1> QED
  BY <1>2, <1>3, <1>5, <1>6, <1>7, <1>8, SetSync

(* SwitchExtend. *)
LEMMA ExtendSync ==
  ASSUME Legible, SyncInv, UNCHANGED vars, fault' = fault, Note("other", 0), Host!SwitchExtend
  PROVE  SyncInv'
<1> DEFINE c == [cfg EXCEPT !.extend = ~cfg.extend]
           s == IF cfg.extend THEN <<Cmd.extendOff>> ELSE <<Cmd.extendOn, cfg.num_extend>>
<1>1. HostOK /\ cfg \in Carried /\ cfg \in Host!Settings /\ cfg.extend \in BOOLEAN
      /\ cfg.num_extend % 256 = cfg.num_extend /\ cfg.num_remain % 256 = cfg.num_remain
  BY CarriedIs, SMTT(40) DEF SyncInv, HostOK
<1>2. c \in Carried /\ s \in Seq(Int)
  BY <1>1, CarriedChange, CarriedIs, CodeInts, ZenonT(60)
<1>3. Host!Set(c, s) /\ real' = real /\ plus' = plus
  BY <1>1, CodeInts DEF Host!SwitchExtend, Host!bgVars
<1>4. /\ c.extend = ~cfg.extend /\ c.extend \in BOOLEAN
      /\ c.circle = cfg.circle /\ c.ends = cfg.ends /\ c.remain = cfg.remain
      /\ c.bg = cfg.bg /\ c.num_extend = cfg.num_extend /\ c.num_remain = cfg.num_remain
      /\ c.brightness = cfg.brightness /\ c.color = cfg.color /\ c.bgcolor = cfg.bgcolor
      /\ c.bgbright = cfg.bgbright
  BY <1>1 DEF Host!Settings
<1>5. /\ running' = running /\ palette' = palette /\ running /\ cfg' = c /\ queued' = <<>>
      /\ on_rainbow' = on_rainbow /\ contain_rainbow' = contain_rainbow
      /\ drift' = drift /\ held' = held /\ held' \in [Keys -> BOOLEAN] /\ (upset => upset')
      /\ real' = real /\ plus' = plus
  <2>1. /\ running' = running /\ palette' = palette /\ running /\ cfg' = c /\ queued' = <<>>
        /\ on_rainbow' = on_rainbow /\ contain_rainbow' = contain_rainbow
    BY <1>3, SetIs
  <2>2. drift' = drift /\ held' = held /\ held' \in [Keys -> BOOLEAN] /\ (upset => upset')
    BY <1>1, NoteIs
  <2> QED
    BY <1>3, <2>1, <2>2
<1> HIDE DEF c, s
<1>6. ASSUME NEW y \in Ready, Agrees(y), BrightIs(y) PROVE Sends(y, s, Synced')
  <2>1. InStep(y)
    BY <1>5, <1>6 DEF Agrees
  <2>2. CASE cfg.extend
    <3>1. Sends(y, s, {z \in But(y, {"extend"}) : ~z.extend})
      BY <1>1, <2>2, Switches DEF s
    <3>2. ASSUME NEW z \in But(y, {"extend"}), ~z.extend PROVE z \in Synced'
      <4>1. z \in Ready /\ z \in FwStates /\ Same(y, z, {"extend"})
            /\ z.flagz \in BOOLEAN /\ z.extend \in BOOLEAN /\ z.rm_status \in BOOLEAN
        BY DEF But, Ready, FwStates, FwTypes
      <4>2. InStep(z)'
        BY <1>1, <1>4, <1>5, <2>1, <2>2, <3>2, <4>1 DEF InStep, Same
      <4>3. BrightIs(z)'
        BY <1>1, <1>4, <1>5, <1>6, <4>1 DEF BrightIs, Same
      <4> QED
        BY <1>5, <1>6, <4>1, <4>2, <4>3 DEF Synced, Agrees, Same, Ready
    <3> QED
      BY <3>1, <3>2, SendsTo
  <2>3. CASE ~cfg.extend
    <3>1. Sends(y, s, {z \in But(y, {"extend", "numofextend"}) : z.extend /\ z.numofextend = cfg.num_extend % 256})
      BY <1>1, <2>3, CarriedIs, NumberCommands, ZenonT(60) DEF s
    <3>2. ASSUME NEW z \in But(y, {"extend", "numofextend"}), z.extend /\ z.numofextend = cfg.num_extend % 256 PROVE z \in Synced'
      <4>1. z \in Ready /\ z \in FwStates /\ Same(y, z, {"extend", "numofextend"})
            /\ z.flagz \in BOOLEAN /\ z.extend \in BOOLEAN /\ z.rm_status \in BOOLEAN
        BY DEF But, Ready, FwStates, FwTypes
      <4>2. InStep(z)'
        BY <1>1, <1>4, <1>5, <2>1, <2>3, <3>2, <4>1, ZenonT(60) DEF InStep, Same
      <4>3. BrightIs(z)'
        BY <1>1, <1>4, <1>5, <1>6, <4>1 DEF BrightIs, Same
      <4> QED
        BY <1>5, <1>6, <4>1, <4>2, <4>3 DEF Synced, Agrees, Same, Ready
    <3> QED
      BY <3>1, <3>2, SendsTo
  <2> QED
    BY <2>2, <2>3
<1>7. c.bg => \A ch \in Channels : real'[ch] % 256 # 0 /\ plus'[ch] % 256 # 0
  BY <1>1, <1>3, <1>4, <1>5 DEF HostOK
<1>8. real' \in [Channels -> Int] /\ plus' \in [Channels -> Int]
  BY <1>1, <1>3 DEF HostOK
<1> QED
  BY <1>2, <1>3, <1>5, <1>6, <1>7, <1>8, SetSync

(* SwitchRemain. *)
LEMMA RemainSync ==
  ASSUME Legible, SyncInv, UNCHANGED vars, fault' = fault, Note("other", 0), Host!SwitchRemain
  PROVE  SyncInv'
<1> DEFINE c == [cfg EXCEPT !.remain = ~cfg.remain]
           s == IF cfg.remain THEN <<Cmd.remainOff>> ELSE <<Cmd.remainOn, cfg.num_remain>>
<1>1. HostOK /\ cfg \in Carried /\ cfg \in Host!Settings /\ cfg.remain \in BOOLEAN
      /\ cfg.num_extend % 256 = cfg.num_extend /\ cfg.num_remain % 256 = cfg.num_remain
  BY CarriedIs, SMTT(40) DEF SyncInv, HostOK
<1>2. c \in Carried /\ s \in Seq(Int)
  BY <1>1, CarriedChange, CarriedIs, CodeInts, ZenonT(60)
<1>3. Host!Set(c, s) /\ real' = real /\ plus' = plus
  BY <1>1, CodeInts DEF Host!SwitchRemain, Host!bgVars
<1>4. /\ c.remain = ~cfg.remain /\ c.remain \in BOOLEAN
      /\ c.circle = cfg.circle /\ c.ends = cfg.ends /\ c.extend = cfg.extend
      /\ c.bg = cfg.bg /\ c.num_extend = cfg.num_extend /\ c.num_remain = cfg.num_remain
      /\ c.brightness = cfg.brightness /\ c.color = cfg.color /\ c.bgcolor = cfg.bgcolor
      /\ c.bgbright = cfg.bgbright
  BY <1>1 DEF Host!Settings
<1>5. /\ running' = running /\ palette' = palette /\ running /\ cfg' = c /\ queued' = <<>>
      /\ on_rainbow' = on_rainbow /\ contain_rainbow' = contain_rainbow
      /\ drift' = drift /\ held' = held /\ held' \in [Keys -> BOOLEAN] /\ (upset => upset')
      /\ real' = real /\ plus' = plus
  <2>1. /\ running' = running /\ palette' = palette /\ running /\ cfg' = c /\ queued' = <<>>
        /\ on_rainbow' = on_rainbow /\ contain_rainbow' = contain_rainbow
    BY <1>3, SetIs
  <2>2. drift' = drift /\ held' = held /\ held' \in [Keys -> BOOLEAN] /\ (upset => upset')
    BY <1>1, NoteIs
  <2> QED
    BY <1>3, <2>1, <2>2
<1> HIDE DEF c, s
<1>6. ASSUME NEW y \in Ready, Agrees(y), BrightIs(y) PROVE Sends(y, s, Synced')
  <2>1. InStep(y)
    BY <1>5, <1>6 DEF Agrees
  <2>2. CASE cfg.remain
    <3>1. Sends(y, s, {z \in But(y, {"rm_status"}) : ~z.rm_status})
      BY <1>1, <2>2, Switches DEF s
    <3>2. ASSUME NEW z \in But(y, {"rm_status"}), ~z.rm_status PROVE z \in Synced'
      <4>1. z \in Ready /\ z \in FwStates /\ Same(y, z, {"rm_status"})
            /\ z.flagz \in BOOLEAN /\ z.extend \in BOOLEAN /\ z.rm_status \in BOOLEAN
        BY DEF But, Ready, FwStates, FwTypes
      <4>2. InStep(z)'
        BY <1>1, <1>4, <1>5, <2>1, <2>2, <3>2, <4>1 DEF InStep, Same
      <4>3. BrightIs(z)'
        BY <1>1, <1>4, <1>5, <1>6, <4>1, SMTT(40) DEF BrightIs, Same
      <4> QED
        BY <1>5, <1>6, <4>1, <4>2, <4>3 DEF Synced, Agrees, Same, Ready
    <3> QED
      BY <3>1, <3>2, SendsTo
  <2>3. CASE ~cfg.remain
    <3>1. Sends(y, s, {z \in But(y, {"rm_status", "rm_time"}) : z.rm_status /\ z.rm_time = cfg.num_remain % 256})
      BY <1>1, <2>3, CarriedIs, NumberCommands, ZenonT(60) DEF s
    <3>2. ASSUME NEW z \in But(y, {"rm_status", "rm_time"}), z.rm_status /\ z.rm_time = cfg.num_remain % 256 PROVE z \in Synced'
      <4>1. z \in Ready /\ z \in FwStates /\ Same(y, z, {"rm_status", "rm_time"})
            /\ z.flagz \in BOOLEAN /\ z.extend \in BOOLEAN /\ z.rm_status \in BOOLEAN
        BY DEF But, Ready, FwStates, FwTypes
      <4>2. InStep(z)'
        BY <1>1, <1>4, <1>5, <2>1, <2>3, <3>2, <4>1, ZenonT(60) DEF InStep, Same
      <4>3. BrightIs(z)'
        BY <1>1, <1>4, <1>5, <1>6, <4>1 DEF BrightIs, Same
      <4> QED
        BY <1>5, <1>6, <4>1, <4>2, <4>3 DEF Synced, Agrees, Same, Ready
    <3> QED
      BY <3>1, <3>2, SendsTo
  <2> QED
    BY <2>2, <2>3
<1>7. c.bg => \A ch \in Channels : real'[ch] % 256 # 0 /\ plus'[ch] % 256 # 0
  BY <1>1, <1>3, <1>4, <1>5 DEF HostOK
<1>8. real' \in [Channels -> Int] /\ plus' \in [Channels -> Int]
  BY <1>1, <1>3 DEF HostOK
<1> QED
  BY <1>2, <1>3, <1>5, <1>6, <1>7, <1>8, SetSync

(* A setting that is sent only while it is on. *)
LEMMA SpreadSync ==
  ASSUME Legible, SyncInv, UNCHANGED vars, fault' = fault, Note("other", 0),
         NEW c \in Carried, NEW on, NEW s \in Seq(Int), Host!SetSpread(c, on, s),
         c.bg = cfg.bg, c.brightness = cfg.brightness,
         on => \A y \in Ready : Agrees(y) /\ BrightIs(y) => Sends(y, s, Synced'),
         ~on => \A x \in FwStates : Agrees(x) => Agrees(x)'
  PROVE  SyncInv'
<1>1. /\ HostOK /\ running /\ running' = running /\ cfg' = c
      /\ real' = real /\ plus' = plus /\ using_set' = using_set /\ palette' = palette
      /\ file' = [file EXCEPT ![using_set] = c]
      /\ IF on THEN Host!Push(s) ELSE queued' = queued /\ line' = line
  BY DEF Host!SetSpread, Host!Ready, Host!Save, Host!setVars, Host!bgVars, SyncInv
<1>2. held' \in [Keys -> BOOLEAN] /\ (upset => upset')
  BY <1>1, NoteIs
<1>3. TypeOK' /\ line' \in Seq(Byte) /\ LineLeads' /\ Waiting'
  <2>1. CASE on
    BY <1>1, <2>1, PushStep
  <2>2. CASE ~on
    <3>1. TypeOK' /\ line' \in Seq(Byte) /\ LineLeads'
      BY <1>1, <2>2, QuietStep
    <3>2. Waiting'
      BY <1>1, <2>2 DEF HostOK, Waiting
    <3> QED
      BY <3>1, <3>2
  <2> QED
    BY <2>1, <2>2
<1>4. file' \in [Host!Sets -> Carried]
  BY <1>1 DEF HostOK
<1>5. HostOK'
  BY <1>1, <1>2, <1>3, <1>4 DEF HostOK
<1> QED
  BY <1>3, <1>5 DEF SyncInv

(* What SetSpread leaves alone. *)
LEMMA SpreadIs ==
  ASSUME HostOK, NEW c, NEW on, NEW s, Host!SetSpread(c, on, s), Note("other", 0)
  PROVE  /\ running /\ running' = running /\ palette' = palette /\ cfg' = c
         /\ on_rainbow' = on_rainbow /\ contain_rainbow' = contain_rainbow
         /\ drift' = drift /\ held' = held /\ (upset => upset')
         /\ real' = real /\ plus' = plus
         /\ IF on THEN queued' = <<>> ELSE queued' = queued
<1>1. drift' = drift /\ held' = held /\ (upset => upset')
  BY NoteIs
<1> QED
  BY <1>1 DEF Host!SetSpread, Host!Ready, Host!setVars, Host!rbVars, Host!bgVars, Host!Push

(* "set background color_default". *)
LEMMA BackgroundColorSync ==
  ASSUME Legible, SyncInv, UNCHANGED vars, fault' = fault, Note("other", 0),
         NEW i \in Host!Colors, Host!SetBackgroundColor(i)
  PROVE  SyncInv'
<1> DEFINE c == [cfg EXCEPT !.bgcolor = i]
<1>1. HostOK /\ cfg \in Carried /\ cfg \in Host!Settings
  BY CarriedIs DEF SyncInv, HostOK
<1>2. c \in Carried /\ <<>> \in Seq(Int)
  <2>1. c \in Carried
    BY <1>1, CarriedChange, ZenonT(60)
  <2>2. <<>> \in Seq(Int)
    OBVIOUS
  <2> QED
    BY <2>1, <2>2, SMTT(40)
<1>3. Host!SetSpread(c, FALSE, <<>>)
  BY DEF Host!SetBackgroundColor
<1>4. /\ c.circle = cfg.circle /\ c.ends = cfg.ends /\ c.extend = cfg.extend
      /\ c.remain = cfg.remain /\ c.bg = cfg.bg /\ c.num_extend = cfg.num_extend
      /\ c.num_remain = cfg.num_remain /\ c.brightness = cfg.brightness
      /\ c.color = cfg.color /\ c.bgbright = cfg.bgbright
  BY <1>1 DEF Host!Settings
<1> HIDE DEF c
<1>5. /\ running /\ running' = running /\ palette' = palette /\ cfg' = c
      /\ on_rainbow' = on_rainbow /\ contain_rainbow' = contain_rainbow
      /\ drift' = drift /\ held' = held /\ (upset => upset')
      /\ real' = real /\ plus' = plus /\ queued' = queued
  BY <1>1, <1>3, SpreadIs
<1>6. ASSUME NEW x \in FwStates, Agrees(x) PROVE Agrees(x)'
  <2>1. InStep(x) => InStep(x)'
    BY <1>4, <1>5 DEF InStep
  <2>2. BrightIs(x) => BrightIs(x)'
    BY <1>4, <1>5 DEF BrightIs
  <2> QED
    BY <1>5, <1>6, <2>1, <2>2 DEF Agrees
<1> QED
  BY <1>2, <1>3, <1>4, <1>6, SpreadSync

(* "set extend". *)
LEMMA SetExtendSync ==
  ASSUME Legible, SyncInv, UNCHANGED vars, fault' = fault, Note("other", 0),
         NEW n \in Spreads, Host!SetExtend(n)
  PROVE  SyncInv'
<1> DEFINE v == Host!Clamp(n, 10)
           c == [cfg EXCEPT !.num_extend = v]
           s == <<Cmd.extendOn, v>>
<1>1. HostOK /\ cfg \in Carried /\ cfg \in Host!Settings /\ cfg.extend \in BOOLEAN
  BY CarriedIs DEF SyncInv, HostOK
<1>2. v \in 1..255 /\ v \in Int /\ v % 256 = v /\ v % 256 # 0
  <2>1. n \in Int /\ n >= 1
    BY EffectPianoAssumption, ZenonT(60) DEF Legible, Host!EffectHostAssumption
  <2>2. v \in 1..255
    BY <2>1 DEF Host!Clamp
  <2>3. \A m \in 1..255 : m \in Int /\ m % 256 = m /\ m % 256 # 0
    OBVIOUS
  <2> QED
    BY <2>2, <2>3
<1> HIDE DEF v
<1>3. c \in Carried /\ s \in Seq(Int)
  BY <1>1, <1>2, CarriedChange, CodeInts, ZenonT(60)
<1>4. Host!SetSpread(c, cfg.extend, s)
  BY CodeInts DEF Host!SetExtend, v
<1>5. /\ c.circle = cfg.circle /\ c.ends = cfg.ends /\ c.extend = cfg.extend
      /\ c.remain = cfg.remain /\ c.bg = cfg.bg /\ c.num_extend = v
      /\ c.num_remain = cfg.num_remain /\ c.brightness = cfg.brightness
      /\ c.color = cfg.color /\ c.bgbright = cfg.bgbright
  BY <1>1 DEF Host!Settings
<1> HIDE DEF c
<1>6. /\ running /\ running' = running /\ palette' = palette /\ cfg' = c
      /\ on_rainbow' = on_rainbow /\ contain_rainbow' = contain_rainbow
      /\ drift' = drift /\ held' = held /\ (upset => upset')
      /\ real' = real /\ plus' = plus
      /\ IF cfg.extend THEN queued' = <<>> ELSE queued' = queued
  BY <1>1, <1>4, SpreadIs
<1>7. ASSUME ~cfg.extend, NEW x \in FwStates, Agrees(x) PROVE Agrees(x)'
  <2>1. InStep(x) => InStep(x)'
    BY <1>5, <1>6, <1>7 DEF InStep
  <2>2. BrightIs(x) => BrightIs(x)'
    BY <1>5, <1>6 DEF BrightIs
  <2> QED
    BY <1>6, <1>7, <2>1, <2>2 DEF Agrees
<1>8. ASSUME cfg.extend, NEW y \in Ready, Agrees(y), BrightIs(y) PROVE Sends(y, s, Synced')
  <2>1. Sends(y, s, {z \in But(y, {"extend", "numofextend"}) : z.extend /\ z.numofextend = v % 256})
    BY <1>2, NumberCommands
  <2>2. ASSUME NEW z \in But(y, {"extend", "numofextend"}), z.extend, z.numofextend = v % 256
        PROVE  z \in Synced'
    <3>1. z \in Ready /\ z \in FwStates /\ Same(y, z, {"extend", "numofextend"})
          /\ z.extend \in BOOLEAN
      BY DEF But, Ready, FwStates, FwTypes
    <3>2. InStep(y)
      BY <1>6, <1>8 DEF Agrees
    <3>3. InStep(z)'
      BY <1>1, <1>2, <1>5, <1>6, <1>8, <2>2, <3>1, <3>2, ZenonT(60) DEF InStep, Same
    <3>4. BrightIs(z)'
      BY <1>5, <1>6, <1>8, <3>1 DEF BrightIs, Same
    <3> QED
      BY <1>6, <1>8, <3>1, <3>3, <3>4 DEF Synced, Agrees, Same, Ready
  <2> QED
    BY <2>1, <2>2, SendsTo
<1> QED
  BY <1>3, <1>4, <1>5, <1>7, <1>8, SpreadSync

(* "set remain". *)
LEMMA SetRemainSync ==
  ASSUME Legible, SyncInv, UNCHANGED vars, fault' = fault, Note("other", 0),
         NEW n \in Times, Host!SetRemain(n)
  PROVE  SyncInv'
<1> DEFINE v == Host!Clamp(n, 200)
           c == [cfg EXCEPT !.num_remain = v]
           s == <<Cmd.remainOn, v>>
<1>1. HostOK /\ cfg \in Carried /\ cfg \in Host!Settings /\ cfg.remain \in BOOLEAN
  BY CarriedIs DEF SyncInv, HostOK
<1>2. v \in 1..255 /\ v \in Int /\ v % 256 = v /\ v % 256 # 0
  <2>1. n \in Int /\ n >= 1
    BY EffectPianoAssumption, ZenonT(60) DEF Legible, Host!EffectHostAssumption
  <2>2. v \in 1..255
    BY <2>1 DEF Host!Clamp
  <2>3. \A m \in 1..255 : m \in Int /\ m % 256 = m /\ m % 256 # 0
    OBVIOUS
  <2> QED
    BY <2>2, <2>3
<1> HIDE DEF v
<1>3. c \in Carried /\ s \in Seq(Int)
  BY <1>1, <1>2, CarriedChange, CodeInts, ZenonT(60)
<1>4. Host!SetSpread(c, cfg.remain, s)
  BY CodeInts DEF Host!SetRemain, v
<1>5. /\ c.circle = cfg.circle /\ c.ends = cfg.ends /\ c.extend = cfg.extend
      /\ c.remain = cfg.remain /\ c.bg = cfg.bg /\ c.num_remain = v
      /\ c.num_extend = cfg.num_extend /\ c.brightness = cfg.brightness
      /\ c.color = cfg.color /\ c.bgbright = cfg.bgbright
  BY <1>1 DEF Host!Settings
<1> HIDE DEF c
<1>6. /\ running /\ running' = running /\ palette' = palette /\ cfg' = c
      /\ on_rainbow' = on_rainbow /\ contain_rainbow' = contain_rainbow
      /\ drift' = drift /\ held' = held /\ (upset => upset')
      /\ real' = real /\ plus' = plus
      /\ IF cfg.remain THEN queued' = <<>> ELSE queued' = queued
  BY <1>1, <1>4, SpreadIs
<1>7. ASSUME ~cfg.remain, NEW x \in FwStates, Agrees(x) PROVE Agrees(x)'
  <2>1. InStep(x) => InStep(x)'
    BY <1>5, <1>6, <1>7 DEF InStep
  <2>2. BrightIs(x) => BrightIs(x)'
    BY <1>5, <1>6 DEF BrightIs
  <2> QED
    BY <1>6, <1>7, <2>1, <2>2 DEF Agrees
<1>8. ASSUME cfg.remain, NEW y \in Ready, Agrees(y), BrightIs(y) PROVE Sends(y, s, Synced')
  <2>1. Sends(y, s, {z \in But(y, {"rm_status", "rm_time"}) : z.rm_status /\ z.rm_time = v % 256})
    BY <1>2, NumberCommands
  <2>2. ASSUME NEW z \in But(y, {"rm_status", "rm_time"}), z.rm_status, z.rm_time = v % 256
        PROVE  z \in Synced'
    <3>1. z \in Ready /\ z \in FwStates /\ Same(y, z, {"rm_status", "rm_time"})
          /\ z.rm_status \in BOOLEAN
      BY DEF But, Ready, FwStates, FwTypes
    <3>2. InStep(y)
      BY <1>6, <1>8 DEF Agrees
    <3>3. InStep(z)'
      <4>1. z.rm_time = cfg'.num_remain /\ z.rm_status = cfg'.remain
        BY <1>1, <1>2, <1>5, <1>6, <1>8, <2>2, <3>1
      <4> QED
        BY <1>5, <1>6, <3>1, <3>2, <4>1 DEF InStep, Same
    <3>4. BrightIs(z)'
      BY <1>5, <1>6, <1>8, <3>1 DEF BrightIs, Same
    <3> QED
      BY <1>6, <1>8, <3>1, <3>3, <3>4 DEF Synced, Agrees, Same, Ready
  <2> QED
    BY <2>1, <2>2, SendsTo
<1> HIDE DEF s
<1>9. SyncInv'
  BY <1>3, <1>4, <1>5, <1>7, <1>8, SpreadSync
<1> QED
  BY <1>9

(* "set brightness": a number above 255 is not sent. *)
LEMMA SetBrightnessSync ==
  ASSUME Legible, SyncInv, UNCHANGED vars, fault' = fault, Note("other", 0),
         NEW n \in Brights, Host!SetBrightness(n)
  PROVE  SyncInv'
<1> DEFINE v == IF n < 10 THEN 10 ELSE n
           c == [cfg EXCEPT !.brightness = v]
           s == <<Cmd.bright, v>>
<1>1. HostOK /\ cfg \in Carried /\ cfg \in Host!Settings
  BY CarriedIs DEF SyncInv, HostOK
<1>2. v \in Int /\ v > 0 /\ v % 256 # 0 /\ (v <= 255 => v % 256 = v)
  <2>1. n \in Int /\ (n < 10 \/ n % 256 # 0)
    BY EffectPianoAssumption, ZenonT(60) DEF Legible, Host!EffectHostAssumption
  <2>2. v \in Int /\ v >= 10 /\ (v = 10 \/ v % 256 # 0)
    BY <2>1
  <2> HIDE DEF v
  <2>3. \A m \in 1..255 : m % 256 = m /\ m % 256 # 0
    OBVIOUS
  <2>4. v <= 255 => v \in 1..255
    BY <2>2
  <2> QED
    BY <2>2, <2>3, <2>4
<1>3. /\ IF v <= 255 THEN Host!Set(c, s)
         ELSE /\ running /\ cfg' = c
              /\ UNCHANGED <<queued, line, file, using_set, palette, running, on_rainbow,
                             contain_rainbow>>
      /\ real' = real /\ plus' = plus
  BY CodeInts DEF Host!SetBrightness, Host!setVars, Host!rbVars, Host!bgVars, Host!Ready
<1> HIDE DEF v
<1>4. c \in Carried /\ s \in Seq(Int)
  BY <1>1, <1>2, CarriedChange, CodeInts, ZenonT(60)
<1>5. /\ c.circle = cfg.circle /\ c.ends = cfg.ends /\ c.extend = cfg.extend
      /\ c.remain = cfg.remain /\ c.bg = cfg.bg /\ c.num_remain = cfg.num_remain
      /\ c.num_extend = cfg.num_extend /\ c.brightness = v
      /\ c.color = cfg.color /\ c.bgbright = cfg.bgbright
  BY <1>1 DEF Host!Settings
<1> HIDE DEF c
<1>6. /\ drift' = drift /\ held' = held /\ held' \in [Keys -> BOOLEAN] /\ (upset => upset')
      /\ real' \in [Channels -> Int] /\ plus' \in [Channels -> Int]
      /\ (running /\ c.bg => \A ch \in Channels : real'[ch] % 256 # 0 /\ plus'[ch] % 256 # 0)
  <2>1. drift' = drift /\ held' = held /\ held' \in [Keys -> BOOLEAN] /\ (upset => upset')
    BY <1>1, NoteIs
  <2> QED
    BY <1>1, <1>3, <1>5, <2>1 DEF HostOK
<1>7. CASE v <= 255
  <2>1. /\ running /\ running' = running /\ palette' = palette
        /\ on_rainbow' = on_rainbow /\ contain_rainbow' = contain_rainbow
        /\ cfg' = c /\ queued' = <<>>
    BY <1>3, <1>7, SetIs
  <2>2. ASSUME NEW y \in Ready, Agrees(y), BrightIs(y) PROVE Sends(y, s, Synced')
    <3>1. Sends(y, s, {z \in But(y, {"brightness"}) : z.brightness = v % 256})
      BY <1>2, NumberCommands
    <3>2. ASSUME NEW z \in But(y, {"brightness"}), z.brightness = v % 256 PROVE z \in Synced'
      <4>1. z \in Ready /\ z \in FwStates /\ Same(y, z, {"brightness"})
        BY DEF But, Ready
      <4>2. InStep(y)
        BY <2>1, <2>2 DEF Agrees
      <4>3. InStep(z)'
        BY <1>3, <1>5, <1>6, <2>1, <4>1, <4>2 DEF InStep, Same
      <4>4. BrightIs(z)'
        BY <1>2, <1>5, <1>7, <2>1, <3>2 DEF BrightIs
      <4> QED
        BY <1>6, <2>1, <2>2, <4>1, <4>3, <4>4 DEF Synced, Agrees, Same, Ready
    <3> QED
      BY <3>1, <3>2, SendsTo
  <2> QED
    BY <1>3, <1>4, <1>6, <1>7, <2>1, <2>2, SetSync
<1>8. CASE ~(v <= 255)
  <2>1. /\ running /\ cfg' = c
        /\ queued' = queued /\ line' = line /\ file' = file /\ using_set' = using_set
        /\ palette' = palette /\ running' = running /\ on_rainbow' = on_rainbow
        /\ contain_rainbow' = contain_rainbow
    BY <1>3, <1>8
  <2>2. v > 255
    BY <1>2, <1>8
  <2>3. ASSUME NEW x \in FwStates, Agrees(x) PROVE Agrees(x)'
    <3>1. InStep(x) => InStep(x)'
      BY <1>3, <1>5, <1>6, <2>1 DEF InStep
    <3>2. BrightIs(x)'
      BY <1>5, <2>1, <2>2 DEF BrightIs
    <3> QED
      BY <1>6, <2>1, <2>3, <3>1, <3>2 DEF Agrees
  <2>4. TypeOK' /\ line' \in Seq(Byte) /\ LineLeads'
    BY <2>1, <2>3, QuietStep
  <2>5. Waiting'
    BY <1>1, <1>5, <2>1, <2>2 DEF HostOK, Waiting
  <2>6. HostOK'
    BY <1>1, <1>4, <1>6, <2>1, <2>5 DEF HostOK
  <2> QED
    BY <2>4, <2>6 DEF SyncInv
<1> QED
  BY <1>7, <1>8

(* The background is sent again. *)
LEMMA RefreshSends ==
  ASSUME Legible, NEW y \in Ready, real' \in [Channels -> Int], plus' \in [Channels -> Int],
         \A ch \in Channels : real'[ch] % 256 # 0 /\ plus'[ch] % 256 # 0
  PROVE  /\ Sends(y, Host!RefreshBg(real', plus'),
                  {z \in But(y, {"on_background", "bgc", "rgb"}) :
                     z.on_background /\ z.bgc = LowByte(real') /\ z.rgb = LowByte(plus')})
         /\ Host!RefreshBg(real', plus') \in Seq(Int)
<1> DEFINE r == real'
           q == plus'
<1>1. /\ r \in [Channels -> Int] /\ q \in [Channels -> Int]
      /\ (\A ch \in Channels : r[ch] % 256 # 0) /\ (\A ch \in Channels : q[ch] % 256 # 0)
  OBVIOUS
<1> HIDE DEF r, q
<1>2. Sends(y, Host!RefreshBg(r, q),
            {z \in But(y, {"on_background", "bgc", "rgb"}) :
               z.on_background /\ z.bgc = LowByte(r) /\ z.rgb = LowByte(q)})
  BY <1>1, RefreshCommands
<1>3. Host!RefreshBg(r, q) \in Seq(Int)
  BY <1>2 DEF Sends
<1> QED
  BY <1>2, <1>3 DEF r, q

(* It is a queue of numbers. *)
LEMMA RefreshQueue ==
  ASSUME real' \in [Channels -> Int], plus' \in [Channels -> Int]
  PROVE  Host!RefreshBg(real', plus') \in Seq(Int)
<1> DEFINE r == real'
           q == plus'
<1>1. r \in Seq(Int) /\ q \in Seq(Int)
  BY ColorSeq
<1> HIDE DEF r, q
<1>2. <<Cmd.backOff, Cmd.backOn>> \in Seq(Int) /\ <<Cmd.color>> \in Seq(Int) /\ Host!Code = Cmd
  BY CodeInts
<1>3. Host!RefreshBg(r, q) \in Seq(Int)
  BY <1>1, <1>2, ConcatProperties DEF Host!RefreshBg
<1> QED
  BY <1>3 DEF r, q

(* The colour of the keys is sent. *)
LEMMA ColorSends ==
  ASSUME Legible, NEW y \in Ready, NEW p \in Host!Sets, NEW i \in Host!Colors
  PROVE  /\ Sends(y, <<Cmd.color>> \o Palettes[p][i],
                  {z \in But(y, {"rgb"}) : z.rgb = Palettes[p][i]})
         /\ <<Cmd.color>> \o Palettes[p][i] \in Seq(Int)
<1> DEFINE pal == Palettes[p][i]
<1>1. pal \in [Channels -> Int] /\ (\A ch \in Channels : pal[ch] % 256 # 0) /\ LowByte(pal) = pal
  BY PaletteColor
<1> HIDE DEF pal
<1>2. Sends(y, <<Cmd.color>> \o pal, {z \in But(y, {"rgb"}) : z.rgb = LowByte(pal)})
  BY <1>1, ColorCommands
<1>3. Sends(y, <<Cmd.color>> \o pal, {z \in But(y, {"rgb"}) : z.rgb = pal})
  BY <1>1, <1>2
<1>4. <<Cmd.color>> \o pal \in Seq(Int)
  BY <1>2 DEF Sends
<1> QED
  BY <1>3, <1>4 DEF pal

(* The background is switched off. *)
LEMMA BackgroundOffSync ==
  ASSUME Legible, SyncInv, UNCHANGED vars, fault' = fault, Note("back", 0),
         Host!SwitchBackgroundOff
  PROVE  SyncInv'
<1> DEFINE c == [cfg EXCEPT !.bg = FALSE]
           s == <<Cmd.backOff>>
<1>1. HostOK /\ cfg \in Carried /\ cfg \in Host!Settings
  BY CarriedIs DEF SyncInv, HostOK
<1>2. c \in Carried /\ s \in Seq(Int)
  <2>1. c \in Carried
    BY <1>1, CarriedChange, ZenonT(60)
  <2> QED
    BY <2>1, CodeInts, SMTT(40)
<1>3. Host!Set(c, s) /\ real' = real /\ plus' = plus
  BY CodeInts DEF Host!SwitchBackgroundOff, Host!bgVars
<1>4. /\ c.circle = cfg.circle /\ c.ends = cfg.ends /\ c.extend = cfg.extend
      /\ c.remain = cfg.remain /\ ~c.bg /\ c.bg = FALSE /\ c.num_extend = cfg.num_extend
      /\ c.num_remain = cfg.num_remain /\ c.brightness = cfg.brightness
      /\ c.color = cfg.color /\ c.bgbright = cfg.bgbright
  BY <1>1 DEF Host!Settings
<1> HIDE DEF c
<1>5. /\ running' = running /\ palette' = palette /\ running /\ cfg' = c /\ queued' = <<>>
      /\ on_rainbow' = on_rainbow /\ contain_rainbow' = contain_rainbow
      /\ drift' = drift \cup {"color"} /\ held' = held /\ held' \in [Keys -> BOOLEAN]
      /\ (upset => upset') /\ real' \in [Channels -> Int] /\ plus' \in [Channels -> Int]
  <2>1. /\ running' = running /\ palette' = palette /\ running /\ cfg' = c /\ queued' = <<>>
        /\ on_rainbow' = on_rainbow /\ contain_rainbow' = contain_rainbow
    BY <1>3, SetIs
  <2>2. drift' = drift \cup {"color"} /\ held' = held /\ held' \in [Keys -> BOOLEAN]
        /\ (upset => upset')
    BY <1>1, NoteIs
  <2> QED
    BY <1>1, <1>3, <2>1, <2>2 DEF HostOK
<1>6. ASSUME NEW y \in Ready, Agrees(y), BrightIs(y) PROVE Sends(y, s, Synced')
  <2>1. InStep(y)
    BY <1>5, <1>6 DEF Agrees
  <2>2. Sends(y, s, {z \in But(y, {"on_background"}) : ~z.on_background})
    BY Switches
  <2>3. ASSUME NEW z \in But(y, {"on_background"}), ~z.on_background PROVE z \in Synced'
    <3>1. z \in Ready /\ z \in FwStates /\ Same(y, z, {"on_background"})
          /\ z.on_background \in BOOLEAN
      BY DEF But, Ready, FwStates, FwTypes
    <3>2. InStep(z)'
      BY <1>4, <1>5, <2>1, <2>3, <3>1 DEF InStep, Same
    <3>3. BrightIs(z)'
      BY <1>4, <1>5, <1>6, <3>1 DEF BrightIs, Same
    <3> QED
      BY <1>5, <1>6, <3>1, <3>2, <3>3 DEF Synced, Agrees, Same, Ready
  <2> QED
    BY <2>2, <2>3, SendsTo
<1> HIDE DEF s
<1>7. SyncInv'
  BY <1>2, <1>3, <1>4, <1>5, <1>6, SetSync
<1> QED
  BY <1>7

(* The background is switched on. *)
LEMMA BackgroundOnSync ==
  ASSUME Legible, SyncInv, UNCHANGED vars, fault' = fault, Note("backOn", 0),
         Host!SwitchBackgroundOn
  PROVE  SyncInv'
<1> DEFINE c == [cfg EXCEPT !.bg = TRUE]
           s == Host!RefreshBg(real', plus')
<1>1. HostOK /\ cfg \in Carried /\ cfg \in Host!Settings /\ palette \in Host!Sets
  BY CarriedIs, SMTT(40) DEF SyncInv, HostOK
<1>2. c \in Carried
  BY <1>1, CarriedChange, ZenonT(60)
<1>3. Host!Set(c, s) /\ Host!GetBgColor(cfg, palette) /\ Host!HasBg(cfg)
  BY DEF Host!SwitchBackgroundOn
<1>4. /\ c.circle = cfg.circle /\ c.ends = cfg.ends /\ c.extend = cfg.extend
      /\ c.remain = cfg.remain /\ c.bg /\ c.bg = TRUE /\ c.num_extend = cfg.num_extend
      /\ c.num_remain = cfg.num_remain /\ c.brightness = cfg.brightness
      /\ c.color = cfg.color /\ c.bgbright = cfg.bgbright
  BY <1>1 DEF Host!Settings
<1> HIDE DEF c
<1>5. /\ real' \in [Channels -> Int] /\ plus' \in [Channels -> Int]
      /\ \A ch \in Channels : real'[ch] % 256 # 0 /\ plus'[ch] % 256 # 0
  BY <1>1, <1>3, BackgroundIs
<1>6. /\ running' = running /\ palette' = palette /\ running /\ cfg' = c /\ queued' = <<>>
      /\ on_rainbow' = on_rainbow /\ contain_rainbow' = contain_rainbow
      /\ drift' = drift \ {"back"} /\ held' = held /\ held' \in [Keys -> BOOLEAN]
      /\ (upset => upset')
  <2>1. /\ running' = running /\ palette' = palette /\ running /\ cfg' = c /\ queued' = <<>>
        /\ on_rainbow' = on_rainbow /\ contain_rainbow' = contain_rainbow
    BY <1>3, SetIs
  <2>2. drift' = drift \ {"back"} /\ held' = held /\ held' \in [Keys -> BOOLEAN]
        /\ (upset => upset')
    BY <1>1, NoteIs
  <2> QED
    BY <2>1, <2>2
<1> HIDE DEF s
<1>7. ASSUME NEW y \in Ready PROVE /\ s \in Seq(Int)
         /\ Sends(y, s, {z \in But(y, {"on_background", "bgc", "rgb"}) :
                      z.on_background /\ z.bgc = LowByte(real') /\ z.rgb = LowByte(plus')})
  BY <1>5, RefreshSends DEF s
<1>8. ASSUME NEW y \in Ready, Agrees(y), BrightIs(y) PROVE Sends(y, s, Synced')
  <2>1. InStep(y)
    BY <1>6, <1>8 DEF Agrees
  <2>2. ASSUME NEW z \in But(y, {"on_background", "bgc", "rgb"}), z.on_background,
               z.bgc = LowByte(real'), z.rgb = LowByte(plus')
        PROVE  z \in Synced'
    <3>1. z \in Ready /\ z \in FwStates /\ Same(y, z, {"on_background", "bgc", "rgb"})
          /\ z.on_background \in BOOLEAN
      BY DEF But, Ready, FwStates, FwTypes
    <3>2. InStep(z)'
      BY <1>4, <1>6, <2>1, <2>2, <3>1 DEF InStep, Same
    <3>3. BrightIs(z)'
      BY <1>4, <1>6, <1>8, <3>1 DEF BrightIs, Same
    <3> QED
      BY <1>6, <1>8, <3>1, <3>2, <3>3 DEF Synced, Agrees, Same, Ready
  <2> QED
    BY <1>7, <2>2, SendsTo
<1>9. s \in Seq(Int)
  <2>1. s = Host!RefreshBg(real', plus')
    BY DEF s
  <2> QED
    BY <1>5, <2>1, RefreshQueue
<1>10. SyncInv'
  BY <1>2, <1>3, <1>5, <1>6, <1>8, <1>9, SetSync
<1> QED
  BY <1>10

(* The settings of the keys and the brightness stay as they are. *)
OtherSettings ==
  /\ cfg'.circle = cfg.circle /\ cfg'.ends = cfg.ends
  /\ cfg'.extend = cfg.extend /\ cfg'.num_extend = cfg.num_extend
  /\ cfg'.remain = cfg.remain /\ cfg'.num_remain = cfg.num_remain
  /\ cfg'.brightness = cfg.brightness

(* The rest of what the firmware follows stays as it is. *)
OtherState ==
  /\ running /\ running' = running /\ palette' = palette
  /\ on_rainbow' = on_rainbow /\ contain_rainbow' = contain_rainbow
  /\ held' = held /\ (upset => upset') /\ fault' = fault
  /\ "circle" \in drift => "circle" \in drift'
  /\ "rainbow" \in drift => "rainbow" \in drift'

(* A handler that sends the background again. *)
LEMMA RefreshSync ==
  ASSUME Legible, OtherSettings, OtherState, queued' = <<>>,
         real' \in [Channels -> Int], plus' \in [Channels -> Int],
         \A ch \in Channels : real'[ch] % 256 # 0 /\ plus'[ch] % 256 # 0,
         cfg'.bg \in BOOLEAN, cfg'.bg \/ {"back", "color"} \subseteq drift',
         NEW y \in Ready, Agrees(y), BrightIs(y)
  PROVE  Sends(y, Host!RefreshBg(real', plus'), Synced')
<1>1. InStep(y)
  BY DEF Agrees, OtherState
<1>2. Sends(y, Host!RefreshBg(real', plus'),
            {z \in But(y, {"on_background", "bgc", "rgb"}) :
               z.on_background /\ z.bgc = LowByte(real') /\ z.rgb = LowByte(plus')})
  BY RefreshSends
<1>3. ASSUME NEW z \in But(y, {"on_background", "bgc", "rgb"}), z.on_background,
             z.bgc = LowByte(real'), z.rgb = LowByte(plus')
      PROVE  z \in Synced'
  <2>1. z \in Ready /\ z \in FwStates /\ Same(y, z, {"on_background", "bgc", "rgb"})
        /\ z.on_background \in BOOLEAN
    BY DEF But, Ready, FwStates, FwTypes
  <2>2. InStep(z)'
    BY <1>1, <1>3, <2>1, ZenonT(60) DEF InStep, Same, OtherSettings, OtherState
  <2>3. BrightIs(z)'
    BY <2>1 DEF BrightIs, Same, OtherSettings, OtherState
  <2> QED
    BY <2>1, <2>2, <2>3 DEF Synced, Agrees, Same, Ready, OtherState
<1> QED
  BY <1>2, <1>3, SendsTo, SMTT(40)

(* The settings with a background that has no brightness switched off. *)
LEMMA CarriedWithBg ==
  ASSUME NEW c \in Carried
  PROVE  /\ Host!WithBg(c) \in Carried
         /\ Host!HasBg(c) => Host!WithBg(c) = c
         /\ ~Host!HasBg(c) => Host!WithBg(c) = [c EXCEPT !.bg = FALSE]
         /\ LET w == Host!WithBg(c)
            IN  /\ w.circle = c.circle /\ w.ends = c.ends
                /\ w.extend = c.extend /\ w.num_extend = c.num_extend
                /\ w.remain = c.remain /\ w.num_remain = c.num_remain
                /\ w.brightness = c.brightness /\ w.color = c.color
                /\ w.bgbright = c.bgbright
                /\ w.bg = (Host!HasBg(c) /\ c.bg) /\ w.bg \in BOOLEAN
<1>1. c \in Host!Settings /\ c.bg \in BOOLEAN
  BY CarriedIs
<1>2. CASE Host!HasBg(c)
  BY <1>1, <1>2 DEF Host!WithBg
<1>3. CASE ~Host!HasBg(c)
  <2>1. Host!WithBg(c) = [c EXCEPT !.bg = FALSE]
    BY <1>3 DEF Host!WithBg
  <2>2. [c EXCEPT !.bg = FALSE] \in Carried
    BY CarriedChange, ZenonT(60)
  <2> QED
    BY <1>1, <1>3, <2>1, <2>2 DEF Host!Settings
<1> QED
  BY <1>2, <1>3

(* PickColor with the background on. *)
LEMMA PickColorOn ==
  ASSUME Legible, SyncInv, UNCHANGED vars, fault' = fault, Note("color", 0),
         NEW i \in Host!Colors, Host!PickColor(i), cfg.bg
  PROVE  SyncInv'
<1> DEFINE c == [cfg EXCEPT !.color = i]
           w == Host!WithBg(c)
           s == Host!RefreshBg(real', plus')
<1>1. HostOK /\ cfg \in Carried /\ cfg \in Host!Settings /\ palette \in Host!Sets /\ running
  BY CarriedIs, SMTT(40) DEF SyncInv, HostOK, Host!PickColor, Host!Set, Host!Ready
<1>2. c \in Carried
  BY <1>1, CarriedChange, ZenonT(60)
<1>3. Host!Set(w, s) /\ Host!GetBgColor(c, palette)
  BY DEF Host!PickColor
<1>4. /\ c.circle = cfg.circle /\ c.ends = cfg.ends /\ c.extend = cfg.extend
      /\ c.remain = cfg.remain /\ c.bg = cfg.bg /\ c.num_extend = cfg.num_extend
      /\ c.num_remain = cfg.num_remain /\ c.brightness = cfg.brightness
      /\ c.color = i /\ c.bgbright = cfg.bgbright
  BY <1>1 DEF Host!Settings
<1> HIDE DEF c
<1>5. /\ w.circle = c.circle /\ w.ends = c.ends
      /\ w.extend = c.extend /\ w.num_extend = c.num_extend
      /\ w.remain = c.remain /\ w.num_remain = c.num_remain
      /\ w.brightness = c.brightness /\ w.color = c.color
      /\ w.bgbright = c.bgbright
      /\ w.bg = (Host!HasBg(c) /\ c.bg) /\ w.bg \in BOOLEAN /\ w \in Carried
  BY <1>2, CarriedWithBg
<1> HIDE DEF w, s
<1>6. Host!HasBg(c) = Host!HasBg(cfg)
  BY <1>4 DEF Host!HasBg
<1>7. /\ real' \in [Channels -> Int] /\ plus' \in [Channels -> Int]
      /\ Host!HasBg(c) =>
           \A ch \in Channels : real'[ch] % 256 # 0 /\ plus'[ch] % 256 # 0
      /\ ~Host!HasBg(c) => real' = real /\ plus' = plus
  BY <1>1, <1>2, <1>3, BackgroundIs
<1>8. \A ch \in Channels : real'[ch] % 256 # 0 /\ plus'[ch] % 256 # 0
  BY <1>1, <1>7 DEF HostOK
<1>9. /\ running' = running /\ palette' = palette /\ cfg' = w /\ queued' = <<>>
      /\ on_rainbow' = on_rainbow /\ contain_rainbow' = contain_rainbow
  BY <1>3, SetIs
<1>10. /\ held' = held /\ held' \in [Keys -> BOOLEAN] /\ (upset => upset')
       /\ ~Host!HasBg(cfg) => drift' = drift \cup {"back", "color"}
       /\ Host!HasBg(cfg) => drift' = drift \ {"color"}
  BY <1>1, NoteIs
<1>11. OtherSettings
  BY <1>4, <1>5, <1>9 DEF OtherSettings
<1>12. OtherState
  BY <1>1, <1>9, <1>10 DEF OtherState
<1>13. cfg'.bg \in BOOLEAN /\ (cfg'.bg \/ {"back", "color"} \subseteq drift')
  BY <1>4, <1>5, <1>6, <1>9, <1>10
<1>14. ASSUME NEW y \in Ready, Agrees(y), BrightIs(y) PROVE Sends(y, s, Synced')
  BY <1>7, <1>8, <1>9, <1>11, <1>12, <1>13, <1>14, RefreshSync DEF s
<1>15. s \in Seq(Int)
  BY <1>7, RefreshQueue DEF s
<1>16. SyncInv'
  BY <1>3, <1>5, <1>7, <1>8, <1>10, <1>14, <1>15, SetSync
<1> QED
  BY <1>16

(* PickColor with the background off. *)
LEMMA PickColorOff ==
  ASSUME Legible, SyncInv, UNCHANGED vars, fault' = fault, Note("color", 0),
         NEW i \in Host!Colors, Host!PickColor(i), ~cfg.bg
  PROVE  SyncInv'
<1> DEFINE c == [cfg EXCEPT !.color = i]
           s == <<Cmd.color>> \o Palettes[palette][i]
<1>1. HostOK /\ cfg \in Carried /\ cfg \in Host!Settings /\ palette \in Host!Sets
  BY CarriedIs, SMTT(40) DEF SyncInv, HostOK
<1>2. c \in Carried
  BY <1>1, CarriedChange, ZenonT(60)
<1>3. Host!Set(c, s) /\ real' = real /\ plus' = plus
  BY CodeInts DEF Host!PickColor, Host!bgVars
<1>4. /\ c.circle = cfg.circle /\ c.ends = cfg.ends /\ c.extend = cfg.extend
      /\ c.remain = cfg.remain /\ ~c.bg /\ c.bg = cfg.bg /\ c.num_extend = cfg.num_extend
      /\ c.num_remain = cfg.num_remain /\ c.brightness = cfg.brightness
      /\ c.color = i /\ c.bgbright = cfg.bgbright
  BY <1>1 DEF Host!Settings
<1> HIDE DEF c
<1>5. /\ running' = running /\ palette' = palette /\ running /\ cfg' = c /\ queued' = <<>>
      /\ on_rainbow' = on_rainbow /\ contain_rainbow' = contain_rainbow
      /\ drift' = drift \ {"color"} /\ held' = held /\ held' \in [Keys -> BOOLEAN]
      /\ (upset => upset') /\ real' \in [Channels -> Int] /\ plus' \in [Channels -> Int]
  <2>1. /\ running' = running /\ palette' = palette /\ running /\ cfg' = c /\ queued' = <<>>
        /\ on_rainbow' = on_rainbow /\ contain_rainbow' = contain_rainbow
    BY <1>3, SetIs
  <2>2. drift' = drift \ {"color"} /\ held' = held /\ held' \in [Keys -> BOOLEAN]
        /\ (upset => upset')
    BY <1>1, NoteIs
  <2> QED
    BY <1>1, <1>3, <2>1, <2>2 DEF HostOK
<1>6. ASSUME NEW y \in Ready, Agrees(y), BrightIs(y) PROVE Sends(y, s, Synced') /\ s \in Seq(Int)
  <2>1. InStep(y)
    BY <1>5, <1>6 DEF Agrees
  <2>2. Sends(y, s, {z \in But(y, {"rgb"}) : z.rgb = Palettes[palette][i]}) /\ s \in Seq(Int)
    BY <1>1, ColorSends
  <2>3. ASSUME NEW z \in But(y, {"rgb"}), z.rgb = Palettes[palette][i] PROVE z \in Synced'
    <3>1. z \in Ready /\ z \in FwStates /\ Same(y, z, {"rgb"}) /\ z.on_background \in BOOLEAN
      BY DEF But, Ready, FwStates, FwTypes
    <3>2. InStep(z)'
      BY <1>4, <1>5, <2>1, <2>3, <3>1 DEF InStep, Same
    <3>3. BrightIs(z)'
      BY <1>4, <1>5, <1>6, <3>1 DEF BrightIs, Same
    <3> QED
      BY <1>5, <1>6, <3>1, <3>2, <3>3 DEF Synced, Agrees, Same, Ready
  <2> QED
    BY <2>2, <2>3, SendsTo
<1>7. s \in Seq(Int)
  <2> DEFINE pal == Palettes[palette][i]
  <2>1. pal \in [Channels -> Int]
    BY <1>1, PaletteColor
  <2> HIDE DEF pal
  <2>2. pal \in Seq(Int) /\ <<Cmd.color>> \in Seq(Int)
    BY <2>1, ColorSeq, CodeInts
  <2>3. <<Cmd.color>> \o pal \in Seq(Int)
    BY <2>2, ConcatProperties
  <2> QED
    BY <2>3 DEF pal
<1> HIDE DEF s
<1>8. SyncInv'
  BY <1>2, <1>3, <1>4, <1>5, <1>6, <1>7, SetSync
<1> QED
  BY <1>8

(* A handler that changes settings of the background and sends nothing. *)
LEMMA QuietSync ==
  ASSUME Legible, SyncInv, UNCHANGED vars, OtherSettings, OtherState,
         line' = line, queued' = queued, using_set' = using_set,
         cfg' \in Carried, file' \in [Host!Sets -> Carried],
         real' \in [Channels -> Int], plus' \in [Channels -> Int],
         "color" \in drift => "color" \in drift', "back" \in drift => "back" \in drift',
         cfg'.bg => cfg.bg /\ real' = real /\ plus' = plus,
         cfg.bg /\ ~cfg'.bg => {"back", "color"} \subseteq drift',
         cfg'.color = cfg.color
  PROVE  SyncInv'
<1>1. HostOK /\ cfg \in Carried /\ cfg.bg \in BOOLEAN /\ cfg'.bg \in BOOLEAN
      /\ cfg.circle \in BOOLEAN
  BY CarriedIs DEF SyncInv, HostOK
<1>2. ASSUME NEW x \in FwStates, Agrees(x) PROVE Agrees(x)'
  <2>1. InStep(x) /\ (queued # <<>> \/ BrightIs(x))
    BY <1>2 DEF Agrees, OtherState
  <2>2. InStep(x)'
    <3>1. x.on_background \in BOOLEAN
      BY DEF FwStates, FwTypes
    <3>2. CASE cfg'.bg
      BY <1>1, <2>1, <3>1, <3>2 DEF InStep, OtherSettings, OtherState
    <3>3. CASE ~cfg'.bg /\ cfg.bg
      BY <1>1, <2>1, <3>1, <3>3 DEF InStep, OtherSettings, OtherState
    <3>4. CASE ~cfg'.bg /\ ~cfg.bg
      BY <1>1, <2>1, <3>1, <3>4 DEF InStep, OtherSettings, OtherState
    <3> QED
      BY <1>1, <3>2, <3>3, <3>4
  <2>3. BrightIs(x) => BrightIs(x)'
    BY DEF BrightIs, OtherSettings, OtherState
  <2> QED
    BY <1>2, <2>1, <2>2, <2>3 DEF Agrees, OtherState
<1>3. TypeOK' /\ line' \in Seq(Byte) /\ LineLeads'
  BY <1>2, QuietStep DEF OtherState
<1>4. Waiting'
  BY <1>1 DEF HostOK, Waiting, OtherSettings
<1>5. HostOK'
  BY <1>1, <1>4 DEF HostOK, OtherState
<1> QED
  BY <1>3, <1>5 DEF SyncInv

(* A handler that changes settings of the background and sends it. *)
LEMMA RefreshStep ==
  ASSUME Legible, SyncInv, UNCHANGED vars, OtherSettings, OtherState,
         Host!Push(Host!RefreshBg(real', plus')), using_set' = using_set,
         cfg' \in Carried, file' \in [Host!Sets -> Carried],
         real' \in [Channels -> Int], plus' \in [Channels -> Int],
         \A ch \in Channels : real'[ch] % 256 # 0 /\ plus'[ch] % 256 # 0,
         cfg'.bg
  PROVE  SyncInv'
<1> DEFINE s == Host!RefreshBg(real', plus')
<1>1. HostOK /\ running /\ queued' = <<>> /\ cfg'.bg \in BOOLEAN /\ Host!Push(s)
      /\ (fault' # "now" => fault # "now")
  BY CarriedIs DEF SyncInv, OtherState, Host!Push
<1>2. s \in Seq(Int)
  BY RefreshQueue
<1>3. ASSUME NEW y \in Ready, Agrees(y), BrightIs(y) PROVE Sends(y, s, Synced')
  BY <1>1, <1>3, RefreshSync
<1> HIDE DEF s
<1>4. TypeOK' /\ line' \in Seq(Byte) /\ LineLeads' /\ queued' = <<>> /\ Waiting'
  BY <1>1, <1>2, <1>3, PushStep
<1>5. HostOK'
  BY <1>1, <1>4 DEF HostOK, OtherState
<1> QED
  BY <1>4, <1>5 DEF SyncInv

(* PickBackground. *)
LEMMA PickBackgroundSync ==
  ASSUME Legible, SyncInv, UNCHANGED vars, fault' = fault, Note("bgcolor", 0),
         NEW i \in Host!Colors, Host!PickBackground(i)
  PROVE  SyncInv'
<1> DEFINE c == [cfg EXCEPT !.bgcolor = i]
           w == Host!WithBg(c)
<1>1. HostOK /\ cfg \in Carried /\ cfg \in Host!Settings /\ palette \in Host!Sets
      /\ file \in [Host!Sets -> Carried] /\ cfg.bg \in BOOLEAN
  BY CarriedIs, SMTT(40) DEF SyncInv, HostOK
<1>2. c \in Carried
  BY <1>1, CarriedChange, ZenonT(60)
<1>3. /\ running /\ Host!GetBgColor(c, palette) /\ cfg' = w
      /\ file' = [file EXCEPT ![using_set] = c]
      /\ IF cfg.bg /\ Host!HasBg(c) THEN Host!Push(Host!RefreshBg(real', plus'))
                                    ELSE queued' = queued /\ line' = line
      /\ UNCHANGED <<running, using_set, palette, on_rainbow, contain_rainbow>>
  BY DEF Host!PickBackground, Host!Ready, Host!setVars, Host!rbVars
<1>4. /\ c.circle = cfg.circle /\ c.ends = cfg.ends /\ c.extend = cfg.extend
      /\ c.remain = cfg.remain /\ c.bg = cfg.bg /\ c.num_extend = cfg.num_extend
      /\ c.num_remain = cfg.num_remain /\ c.brightness = cfg.brightness
      /\ c.color = cfg.color /\ c.bgbright = cfg.bgbright
  BY <1>1 DEF Host!Settings
<1> HIDE DEF c
<1>5. /\ w.circle = c.circle /\ w.ends = c.ends
      /\ w.extend = c.extend /\ w.num_extend = c.num_extend
      /\ w.remain = c.remain /\ w.num_remain = c.num_remain
      /\ w.brightness = c.brightness /\ w.color = c.color
      /\ w.bg = (Host!HasBg(c) /\ c.bg) /\ w.bg \in BOOLEAN /\ w \in Carried
  BY <1>2, CarriedWithBg
<1> HIDE DEF w
<1>6. Host!HasBg(c) = Host!HasBg(cfg)
  BY <1>4 DEF Host!HasBg
<1>7. /\ real' \in [Channels -> Int] /\ plus' \in [Channels -> Int]
      /\ Host!HasBg(c) =>
           \A ch \in Channels : real'[ch] % 256 # 0 /\ plus'[ch] % 256 # 0
      /\ ~Host!HasBg(c) => real' = real /\ plus' = plus
  BY <1>1, <1>2, <1>3, BackgroundIs
<1>8. /\ held' = held /\ held' \in [Keys -> BOOLEAN] /\ (upset => upset')
      /\ cfg.bg /\ ~Host!HasBg(cfg) => drift' = drift \cup {"back", "color"}
      /\ (cfg.bg => Host!HasBg(cfg)) => drift' = drift
  BY <1>1, NoteIs
<1>9. OtherSettings
  BY <1>3, <1>4, <1>5 DEF OtherSettings
<1>10. OtherState
  BY <1>3, <1>8 DEF OtherState
<1>11. file' \in [Host!Sets -> Carried] /\ cfg' \in Carried
  BY <1>1, <1>2, <1>3, <1>5
<1>12. CASE cfg.bg /\ Host!HasBg(c)
  <2>1. cfg'.bg
    BY <1>3, <1>4, <1>5, <1>12
  <2> QED
    BY <1>3, <1>7, <1>9, <1>10, <1>11, <1>12, <2>1, RefreshStep
<1>13. CASE ~(cfg.bg /\ Host!HasBg(c))
  <2>1. ~cfg'.bg /\ cfg'.color = cfg.color
    BY <1>3, <1>4, <1>5, <1>13
  <2>2. cfg.bg => {"back", "color"} \subseteq drift'
    BY <1>6, <1>8, <1>13
  <2>3. ("color" \in drift => "color" \in drift') /\ ("back" \in drift => "back" \in drift')
    BY <1>8
  <2> QED
    BY <1>3, <1>7, <1>9, <1>10, <1>11, <1>13, <2>1, <2>2, <2>3, QuietSync
<1> QED
  BY <1>12, <1>13

(* "set background brightness". *)
LEMMA BackgroundBrightnessSync ==
  ASSUME Legible, SyncInv, UNCHANGED vars, fault' = fault, Note("other", 0),
         NEW n \in BackBrights, Host!SetBackgroundBrightness(n)
  PROVE  SyncInv'
<1> DEFINE c == [cfg EXCEPT !.bgbright = n]
<1>1. HostOK /\ cfg \in Carried /\ cfg \in Host!Settings /\ palette \in Host!Sets
      /\ file \in [Host!Sets -> Carried] /\ cfg.bg \in BOOLEAN
  BY CarriedIs, SMTT(40) DEF SyncInv, HostOK
<1>2. c \in Carried /\ n \in Int
  <2>1. n \in BackNumbers \cap Int
    BY EffectPianoAssumption DEF Host!EffectHostAssumption, BackNumbers
  <2> QED
    BY <1>1, <2>1, CarriedChange, ZenonT(60)
<1>3. /\ running /\ cfg' = c
      /\ IF n \in 1..255
         THEN /\ Host!GetBgColor(c, palette)
              /\ IF cfg.bg THEN Host!Push(Host!RefreshBg(real', plus'))
                           ELSE queued' = queued /\ line' = line
              /\ file' = [file EXCEPT ![using_set] = cfg']
         ELSE UNCHANGED <<real, plus, queued, line, file>>
      /\ UNCHANGED <<running, using_set, palette, on_rainbow, contain_rainbow>>
  BY DEF Host!SetBackgroundBrightness, Host!Ready, Host!setVars, Host!rbVars, Host!bgVars,
         Host!Save
<1>4. /\ c.circle = cfg.circle /\ c.ends = cfg.ends /\ c.extend = cfg.extend
      /\ c.remain = cfg.remain /\ c.bg = cfg.bg /\ c.num_extend = cfg.num_extend
      /\ c.num_remain = cfg.num_remain /\ c.brightness = cfg.brightness
      /\ c.color = cfg.color /\ c.bgbright = n
  BY <1>1 DEF Host!Settings
<1> HIDE DEF c
<1>5. drift' = drift /\ held' = held /\ held' \in [Keys -> BOOLEAN] /\ (upset => upset')
  BY <1>1, NoteIs
<1>6. OtherSettings /\ cfg'.color = cfg.color /\ cfg'.bg = cfg.bg
  BY <1>3, <1>4 DEF OtherSettings
<1>7. OtherState
  BY <1>3, <1>5 DEF OtherState
<1>8. CASE n \in 1..255
  <2>1. Host!HasBg(c)
    BY <1>4, <1>8 DEF Host!HasBg
  <2>2. /\ real' \in [Channels -> Int] /\ plus' \in [Channels -> Int]
        /\ \A ch \in Channels : real'[ch] % 256 # 0 /\ plus'[ch] % 256 # 0
    BY <1>1, <1>2, <1>3, <1>8, <2>1, BackgroundIs
  <2>3. file' \in [Host!Sets -> Carried] /\ cfg' \in Carried
    BY <1>1, <1>2, <1>3, <1>8
  <2>4. CASE cfg.bg
    BY <1>3, <1>6, <1>7, <1>8, <2>2, <2>3, <2>4, RefreshStep, SMTT(40)
  <2>5. CASE ~cfg.bg
    BY <1>3, <1>5, <1>6, <1>7, <1>8, <2>2, <2>3, <2>5, QuietSync
  <2> QED
    BY <2>4, <2>5
<1>9. CASE n \notin 1..255
  <2>1. file' \in [Host!Sets -> Carried] /\ cfg' \in Carried
        /\ real' = real /\ plus' = plus /\ queued' = queued /\ line' = line
        /\ real' \in [Channels -> Int] /\ plus' \in [Channels -> Int]
        /\ using_set' = using_set
    BY <1>1, <1>2, <1>3, <1>9 DEF HostOK
  <2> QED
    BY <1>1, <1>5, <1>6, <1>7, <2>1, QuietSync
<1> QED
  BY <1>8, <1>9

-----------------------------------------------------------------------------
(* The keys, the piano and the rainbow keep it. *)

(* What every handler of the form Send leaves alone. *)
LEMMA SendIs ==
  ASSUME NEW s, Host!Send(s)
  PROVE  /\ running /\ running' = running /\ palette' = palette /\ cfg' = cfg
         /\ real' = real /\ plus' = plus /\ queued' = <<>>
         /\ on_rainbow' = on_rainbow /\ contain_rainbow' = contain_rainbow
BY DEF Host!Send, Host!Ready, Host!setVars, Host!rbVars, Host!bgVars, Host!Push

(* ClearBar. *)
LEMMA ClearSync ==
  ASSUME Legible, SyncInv, UNCHANGED vars, fault' = fault, Note("clear", 0), Host!ClearBar
  PROVE  SyncInv'
<1> DEFINE s == <<Cmd.clear>>
<1>1. HostOK /\ Host!Send(s) /\ s \in Seq(Int)
  BY CodeInts DEF SyncInv, Host!ClearBar
<1>2. /\ running' = running /\ palette' = palette /\ running /\ cfg' = cfg /\ queued' = <<>>
      /\ real' = real /\ plus' = plus
      /\ on_rainbow' = on_rainbow /\ contain_rainbow' = contain_rainbow
  BY <1>1, SendIs
<1>3. /\ drift' = drift /\ held' = held /\ held' \in [Keys -> BOOLEAN] /\ (upset => upset')
      /\ ~upset' => \A k \in Keys : held[k] = FALSE
  BY <1>1, NoteIs
<1>4. ASSUME NEW y \in Ready, Agrees(y), BrightIs(y) PROVE Sends(y, s, Synced')
  <2>1. InStep(y)
    BY <1>2, <1>4 DEF Agrees
  <2>2. Sends(y, s, {z \in But(y, {"flag"}) : z.flag = NoKeys})
    BY Switches
  <2>3. ASSUME NEW z \in But(y, {"flag"}), z.flag = NoKeys PROVE z \in Synced'
    <3>1. z \in Ready /\ z \in FwStates /\ Same(y, z, {"flag"})
      BY DEF But, Ready
    <3>2. InStep(z)'
      BY <1>2, <1>3, <2>1, <3>1 DEF InStep, Same
    <3>3. BrightIs(z)'
      BY <1>2, <1>4, <3>1 DEF BrightIs, Same
    <3>4. ~upset' => \A k \in Played : z.flag[k] = held'[k]
      BY <1>3, <2>3 DEF NoKeys, Played, Keys
    <3> QED
      BY <1>2, <1>3, <1>4, <3>1, <3>2, <3>3, <3>4 DEF Synced, Agrees, Same, Ready
  <2> QED
    BY <2>2, <2>3, SendsTo
<1> HIDE DEF s
<1>5. SyncInv'
  BY <1>1, <1>3, <1>4, SendSync
<1> QED
  BY <1>5

(* Effect1: the bar ends dark, with the circle on. *)
LEMMA EffectSync ==
  ASSUME Legible, SyncInv, UNCHANGED vars, fault' = fault, Note("effect", 0), Host!Effect1
  PROVE  SyncInv'
<1> DEFINE s == Host!EffectBytes
<1>1. HostOK /\ Host!Send(s)
  BY DEF SyncInv, Host!Effect1
<1>2. /\ running' = running /\ palette' = palette /\ running /\ cfg' = cfg /\ queued' = <<>>
      /\ real' = real /\ plus' = plus
      /\ on_rainbow' = on_rainbow /\ contain_rainbow' = contain_rainbow
  BY <1>1, SendIs
<1>3. /\ drift' = drift \cup {"circle"} /\ held' = held /\ held' \in [Keys -> BOOLEAN]
      /\ (upset => upset')
      /\ ~upset' => \A k \in Keys : held[k] = FALSE
  BY <1>1, NoteIs
<1>4. ASSUME NEW y \in Ready
      PROVE  Sends(y, s, {z \in But(y, {"flagc", "flag"}) : z.flagc /\ z.flag = NoKeys})
  BY EffectCommands
<1> HIDE DEF s
<1>5. ASSUME NEW y \in Ready, Agrees(y), BrightIs(y) PROVE Sends(y, s, Synced')
  <2>1. InStep(y)
    BY <1>2, <1>5 DEF Agrees
  <2>2. ASSUME NEW z \in But(y, {"flagc", "flag"}), z.flagc, z.flag = NoKeys
        PROVE  z \in Synced'
    <3>1. z \in Ready /\ z \in FwStates /\ Same(y, z, {"flagc", "flag"})
      BY DEF But, Ready
    <3>2. InStep(z)'
      BY <1>2, <1>3, <2>1, <3>1 DEF InStep, Same
    <3>3. BrightIs(z)'
      BY <1>2, <1>5, <3>1 DEF BrightIs, Same
    <3>4. ~upset' => \A k \in Played : z.flag[k] = held'[k]
      BY <1>3, <2>2 DEF NoKeys, Played, Keys
    <3> QED
      BY <1>2, <1>3, <1>5, <3>1, <3>2, <3>3, <3>4 DEF Synced, Agrees, Same, Ready
  <2> QED
    BY <1>4, <2>2, SendsTo
<1>6. s \in Seq(Int)
  <2>1. Firmware \in FwTypes
    BY FirmwareTyped DEF SyncInv, FwStates
  <2> DEFINE f == Firmware
             x == [mode |-> "loop", pend |-> <<>>, flag |-> f.flag, flagc |-> f.flagc,
                   flagz |-> f.flagz, rgb |-> f.rgb, bgc |-> f.bgc,
                   brightness |-> f.brightness, rbstatus |-> f.rbstatus,
                   extend |-> f.extend, numofextend |-> f.numofextend,
                   rm_status |-> f.rm_status, rm_time |-> f.rm_time,
                   on_background |-> f.on_background]
  <2>4. f \in FwTypes
    BY <2>1
  <2> HIDE DEF f
  <2>2. x \in FwTypes /\ x.mode = "loop" /\ x.pend = <<>>
    BY <2>4 DEF FwTypes
  <2> HIDE DEF x
  <2>3. x \in Ready
    BY <2>2 DEF Ready, FwStates
  <2> QED
    BY <1>4, <2>3 DEF Sends
<1>7. SyncInv'
  BY <1>1, <1>3, <1>5, <1>6, SendSync
<1> QED
  BY <1>7

(* ContainFrame. *)
LEMMA FrameSync ==
  ASSUME Legible, SyncInv, UNCHANGED vars, fault' = fault, Note("other", 0), Host!ContainFrame
  PROVE  SyncInv'
<1> DEFINE s == <<Cmd.rainbowOn>>
<1>1. HostOK /\ Host!Send(s) /\ s \in Seq(Int) /\ contain_rainbow
  BY CodeInts DEF SyncInv, Host!ContainFrame
<1>2. /\ running' = running /\ palette' = palette /\ running /\ cfg' = cfg /\ queued' = <<>>
      /\ real' = real /\ plus' = plus
      /\ on_rainbow' = on_rainbow /\ contain_rainbow' = contain_rainbow
  BY <1>1, SendIs
<1>3. drift' = drift /\ held' = held /\ held' \in [Keys -> BOOLEAN] /\ (upset => upset')
  BY <1>1, NoteIs
<1>4. ASSUME NEW y \in Ready, Agrees(y), BrightIs(y) PROVE Sends(y, s, Synced')
  <2>1. InStep(y)
    BY <1>2, <1>4 DEF Agrees
  <2>2. Sends(y, s, {z \in But(y, {"rbstatus"}) : z.rbstatus})
    BY Switches
  <2>3. ASSUME NEW z \in But(y, {"rbstatus"}) PROVE z \in Synced'
    <3>1. z \in Ready /\ z \in FwStates /\ Same(y, z, {"rbstatus"})
      BY DEF But, Ready
    <3>2. InStep(z)'
      BY <1>2, <1>3, <2>1, <3>1 DEF InStep, Same
    <3>3. BrightIs(z)'
      BY <1>2, <1>4, <3>1 DEF BrightIs, Same
    <3> QED
      BY <1>1, <1>2, <1>3, <1>4, <3>1, <3>2, <3>3 DEF Synced, Agrees, Same, Ready
  <2> QED
    BY <2>2, <2>3, SendsTo
<1> HIDE DEF s
<1>5. SyncInv'
  BY <1>1, <1>3, <1>4, SendSync
<1> QED
  BY <1>5

(* A byte that changes nothing. *)
LEMMA NothingSync ==
  ASSUME Legible, SyncInv, UNCHANGED vars, fault' = fault,
         drift' = drift, upset => upset', held' \in [Keys -> BOOLEAN],
         ~upset' => \A k \in Played : held'[k] = held[k],
         NEW s \in Seq(Int), Host!Send(s),
         \A y \in Ready : Sends(y, s, But(y, {}))
  PROVE  SyncInv'
<1>1. HostOK
  BY DEF SyncInv
<1>2. /\ running' = running /\ palette' = palette /\ running /\ cfg' = cfg /\ queued' = <<>>
      /\ real' = real /\ plus' = plus
      /\ on_rainbow' = on_rainbow /\ contain_rainbow' = contain_rainbow
  BY SendIs
<1>3. ASSUME NEW y \in Ready, Agrees(y), BrightIs(y) PROVE Sends(y, s, Synced')
  <2>1. InStep(y)
    BY <1>2, <1>3 DEF Agrees
  <2>2. ASSUME NEW z \in But(y, {}) PROVE z \in Synced'
    <3>1. z \in Ready /\ z \in FwStates /\ Same(y, z, {})
      BY DEF But, Ready
    <3>2. InStep(z)'
      BY <1>2, <2>1, <3>1 DEF InStep, Same
    <3>3. BrightIs(z)'
      BY <1>2, <1>3, <3>1 DEF BrightIs, Same
    <3> QED
      BY <1>2, <1>3, <3>1, <3>2, <3>3 DEF Synced, Agrees, Same, Ready
  <2> QED
    BY <2>2, SendsTo
<1>4. SyncInv'
  BY <1>3, SendSync
<1> QED
  BY <1>4

(* Tick. *)
LEMMA TickSync ==
  ASSUME Legible, SyncInv, UNCHANGED vars, fault' = fault, Note("other", 0), Host!Tick
  PROVE  SyncInv'
<1> DEFINE s == <<Cmd.tick>>
<1>1. HostOK /\ Host!Send(s) /\ s \in Seq(Int)
  BY CodeInts DEF SyncInv, Host!Tick
<1>2. drift' = drift /\ held' = held /\ held' \in [Keys -> BOOLEAN] /\ (upset => upset')
  BY <1>1, NoteIs
<1>3. \A y \in Ready : Sends(y, s, But(y, {}))
  BY Switches
<1> HIDE DEF s
<1>4. SyncInv'
  BY <1>1, <1>2, <1>3, NothingSync
<1> QED
  BY <1>4

(* The keys that light something are keys. *)
LEMMA PlayedIs == Played \subseteq Keys
BY LightBarAssumption DEF Played, Keys

(* Bookkeeping of a key of the piano. *)
LEMMA MidiNote ==
  ASSUME HostOK, NEW k, Note("midi", k)
  PROVE  /\ drift' = drift /\ held' \in [Keys -> BOOLEAN] /\ (upset => upset')
         /\ k \in Keys => held' = [held EXCEPT ![k] = ~held[k]]
         /\ k \notin Keys => held' = held
         /\ ~upset' => ~on_rainbow /\ "rainbow" \notin drift
         /\ k = NumKeys /\ ~upset' => \A key \in Keys : held[key] = FALSE
<1>1. drift' = drift
  <2>1. drift' = Drift("midi")
    BY DEF Note
  <2> QED
    BY <2>1 DEF Drift
<1>2. /\ held' = IF k \in Keys THEN [held EXCEPT ![k] = ~held[k]] ELSE held
      /\ held \in [Keys -> BOOLEAN]
  BY DEF Note, HostOK
<1>3. (upset => upset') /\ (~upset' => ~on_rainbow /\ "rainbow" \notin drift)
  BY DEF Note
<1>4. ASSUME k = NumKeys, ~upset' PROVE \A key \in Keys : held[key] = FALSE
  <2>1. ~AnyHeld
    BY <1>4 DEF Note
  <2> QED
    BY <1>2, <2>1 DEF AnyHeld
<1>5. held' \in [Keys -> BOOLEAN]
  <2>1. CASE k \in Keys
    BY <1>2, <2>1
  <2>2. CASE k \notin Keys
    BY <1>2, <2>2
  <2> QED
    BY <2>1, <2>2
<1> QED
  BY <1>1, <1>2, <1>3, <1>4, <1>5

(* What the piano plays: a key of its own, the clear command, or nothing. *)
LEMMA NoteByte ==
  ASSUME Legible, NEW k \in Notes
  PROVE  /\ k \in Int
         /\ \/ k \in Played
            \/ k = NumKeys /\ k = Cmd.clear /\ k \notin Played
            \/ /\ k \notin Played
               /\ \E c \in Int : c = k % 256 /\ (c = 0 \/ c = 1 \/ c > NumKeys + 39)
<1>1. k \in -20..107 /\ k <= NumKeys /\ NumKeys \in Nat /\ NumKeys <= 88 /\ NumKeys > 1
  <2>1. NumKeys \in Nat /\ NumKeys > 1 /\ Notes \subseteq -20..107
    BY EffectPianoAssumption DEF Host!EffectHostAssumption
  <2> QED
    BY <2>1, ZenonT(60) DEF Legible
<1>2. CASE k < 0
  <2>1. k % 256 = k + 256
    <3>1. \A n \in -20..(-1) : n % 256 = n + 256
      OBVIOUS
    <3> QED
      BY <1>1, <1>2, <3>1
  <2>2. k % 256 > NumKeys + 39 /\ k % 256 \in Int
    BY <1>1, <1>2, <2>1
  <2> QED
    BY <1>1, <1>2, <2>2 DEF Played
<1>3. CASE k \in {0, 1}
  <2>1. k % 256 = k
    <3>1. \A n \in 0..1 : n % 256 = n
      OBVIOUS
    <3> QED
      BY <1>3, <3>1
  <2> QED
    BY <1>1, <1>3, <2>1 DEF Played
<1>4. CASE k = NumKeys
  <2>1. Cmd.clear = NumKeys
    BY DEF Cmd
  <2> QED
    BY <1>1, <1>4, <2>1 DEF Played
<1>5. CASE k >= 2 /\ k < NumKeys
  BY <1>1, <1>5 DEF Played, Keys
<1> QED
  BY <1>1, <1>2, <1>3, <1>4, <1>5

(* Midi. *)
LEMMA MidiSync ==
  ASSUME Legible, SyncInv, UNCHANGED vars, fault' = fault,
         NEW k \in Notes, Note("midi", k), Host!Midi(k)
  PROVE  SyncInv'
<1> DEFINE s == <<k>>
<1>1. HostOK /\ Host!Send(s) /\ ~contain_rainbow
  BY DEF SyncInv, Host!Midi
<1>2. /\ running' = running /\ palette' = palette /\ running /\ cfg' = cfg /\ queued' = <<>>
      /\ real' = real /\ plus' = plus
      /\ on_rainbow' = on_rainbow /\ contain_rainbow' = contain_rainbow
  BY <1>1, SendIs
<1>3. /\ drift' = drift /\ held' \in [Keys -> BOOLEAN] /\ (upset => upset')
      /\ k \in Keys => held' = [held EXCEPT ![k] = ~held[k]]
      /\ k \notin Keys => held' = held
      /\ ~upset' => ~on_rainbow /\ "rainbow" \notin drift
      /\ k = NumKeys /\ ~upset' => \A key \in Keys : held[key] = FALSE
  BY <1>1, MidiNote
<1>4. /\ k \in Int
      /\ \/ k \in Played
         \/ k = NumKeys /\ k = Cmd.clear /\ k \notin Played
         \/ /\ k \notin Played
            /\ \E c \in Int : c = k % 256 /\ (c = 0 \/ c = 1 \/ c > NumKeys + 39)
  BY NoteByte
<1>5. s \in Seq(Int)
  BY <1>4
<1>6. CASE k \in Played
  <2>1. ASSUME NEW y \in Ready, Agrees(y), BrightIs(y) PROVE Sends(y, s, Synced')
    <3>1. InStep(y)
      BY <1>2, <2>1 DEF Agrees
    <3>2. Sends(y, s, {z \in But(y, {"flag"}) :
                         z.flag = IF y.rbstatus THEN y.flag ELSE [y.flag EXCEPT ![k] = ~@]})
      BY <1>6, KeyByte
    <3>3. ASSUME NEW z \in But(y, {"flag"}),
                 z.flag = IF y.rbstatus THEN y.flag ELSE [y.flag EXCEPT ![k] = ~@]
          PROVE  z \in Synced'
      <4>1. z \in Ready /\ z \in FwStates /\ Same(y, z, {"flag"})
            /\ y.flag \in [Keys -> BOOLEAN] /\ y.rbstatus \in BOOLEAN
        BY DEF But, Ready, FwStates, FwTypes
      <4>2. InStep(z)'
        BY <1>2, <1>3, <3>1, <4>1 DEF InStep, Same
      <4>3. BrightIs(z)'
        BY <1>2, <2>1, <4>1 DEF BrightIs, Same
      <4>4. ASSUME ~upset' PROVE \A key \in Played : z.flag[key] = held'[key]
        <5>1. ~upset /\ ~y.rbstatus
          <6>1. fault = "none"
            BY <1>1, <1>3, <4>4 DEF HostOK
          <6> QED
            BY <1>1, <1>3, <2>1, <4>4, <6>1 DEF Agrees
        <5>2. \A key \in Played : y.flag[key] = held[key]
          BY <2>1, <5>1 DEF Agrees
        <5>3. z.flag = [y.flag EXCEPT ![k] = ~y.flag[k]]
          BY <3>3, <5>1
        <5>4. held' = [held EXCEPT ![k] = ~held[k]] /\ held \in [Keys -> BOOLEAN]
              /\ Played \subseteq Keys
          BY <1>1, <1>3, <1>6, PlayedIs DEF HostOK
        <5> QED
          BY <1>6, <4>1, <5>2, <5>3, <5>4
      <4> QED
        BY <1>1, <1>2, <1>3, <2>1, <4>1, <4>2, <4>3, <4>4 DEF Synced, Agrees, Same, Ready
    <3> QED
      BY <3>2, <3>3, SendsTo
  <2> QED
    BY <1>1, <1>3, <1>5, <2>1, SendSync
<1>7. CASE k = NumKeys /\ k = Cmd.clear /\ k \notin Played
  <2>1. ASSUME NEW y \in Ready, Agrees(y), BrightIs(y) PROVE Sends(y, s, Synced')
    <3>1. InStep(y)
      BY <1>2, <2>1 DEF Agrees
    <3>2. Sends(y, s, {z \in But(y, {"flag"}) : z.flag = NoKeys})
      BY <1>7, Switches
    <3>3. ASSUME NEW z \in But(y, {"flag"}), z.flag = NoKeys PROVE z \in Synced'
      <4>1. z \in Ready /\ z \in FwStates /\ Same(y, z, {"flag"})
        BY DEF But, Ready
      <4>2. InStep(z)'
        BY <1>2, <1>3, <3>1, <4>1 DEF InStep, Same
      <4>3. BrightIs(z)'
        BY <1>2, <2>1, <4>1 DEF BrightIs, Same
      <4>4. ~upset' => \A key \in Played : z.flag[key] = held'[key]
        <5>1. \A key \in Played : key \in Keys /\ key # k
          BY <1>7, PlayedIs
        <5>2. held \in [Keys -> BOOLEAN] /\ (k \in Keys \/ k \notin Keys)
          BY <1>1 DEF HostOK
        <5> QED
          BY <1>3, <1>7, <3>3, <5>1, <5>2 DEF NoKeys
      <4> QED
        BY <1>2, <1>3, <2>1, <4>1, <4>2, <4>3, <4>4 DEF Synced, Agrees, Same, Ready
    <3> QED
      BY <3>2, <3>3, SendsTo
  <2> QED
    BY <1>1, <1>3, <1>5, <2>1, SendSync
<1>8. CASE k \notin Played /\ \E c \in Int : c = k % 256 /\ (c = 0 \/ c = 1 \/ c > NumKeys + 39)
  <2>1. ASSUME NEW y \in Ready PROVE Sends(y, s, But(y, {}))
    BY <1>4, <1>8, OtherByte
  <2>2. ASSUME NEW key \in Played PROVE held'[key] = held[key]
    <3>1. held \in [Keys -> BOOLEAN] /\ key \in Keys /\ key # k
      BY <1>1, <1>8, PlayedIs DEF HostOK
    <3> QED
      BY <1>3, <3>1
  <2> QED
    BY <1>1, <1>3, <1>5, <2>1, <2>2, NothingSync
<1> QED
  BY <1>4, <1>6, <1>7, <1>8

(* Three elements and one. *)
LEMMA ConcatFour ==
  ASSUME NEW S, NEW a \in S, NEW b \in S, NEW c \in S, NEW d \in S
  PROVE  <<a, b, c>> \o <<d>> = <<a, b, c, d>>
<1> DEFINE s == <<a, b, c>>
<1>1. s \in Seq(S)
  OBVIOUS
<1>2. <<a, b, c, d>> = Append(s, d)
  OBVIOUS
<1> HIDE DEF s
<1>3. s \o <<d>> = Append(s, d)
  BY <1>1, Concat
<1>4. s \o <<d>> = <<a, b, c, d>>
  BY <1>2, <1>3
<1> QED
  BY <1>4 DEF s

(* One command after another. *)
LEMMA ButBut ==
  ASSUME NEW x, NEW E, NEW F, NEW y \in But(x, E), NEW z \in But(y, F)
  PROVE  z \in But(x, E \cup F)
BY DEF But, Same

(* The commands that start a rainbow. *)
LEMMA RainbowStarts ==
  ASSUME Legible, NEW x \in Ready
  PROVE  /\ <<Cmd.bright, 20, Cmd.circleOff, Cmd.rainbowOn>> \in Seq(Int)
         /\ Sends(x, <<Cmd.bright, 20, Cmd.circleOff, Cmd.rainbowOn>>,
                  {y \in But(x, {"brightness", "flagc", "rbstatus"}) : ~y.flagc})
<1> DEFINE T == Int
           a == <<Cmd.bright, 20>>
           b == <<Cmd.circleOff>>
           c == <<Cmd.rainbowOn>>
           E == {"brightness"}
           F == {"flagc"}
           G == {"rbstatus"}
<1>1. a \in Seq(Int) /\ b \in Seq(Int) /\ c \in Seq(Int)
  <2>1. 20 \in Int
    OBVIOUS
  <2> QED
    BY <2>1, CodeInts
<1>2. (a \o b) \o c = <<Cmd.bright, 20, Cmd.circleOff, Cmd.rainbowOn>>
  <2>1. Cmd.bright \in T /\ 20 \in T /\ Cmd.circleOff \in T /\ Cmd.rainbowOn \in T
    BY CodeInts
  <2> HIDE DEF T
  <2>2. a \o b = <<Cmd.bright, 20, Cmd.circleOff>>
    BY <2>1, ConcatThree
  <2>3. <<Cmd.bright, 20, Cmd.circleOff>> \o c = <<Cmd.bright, 20, Cmd.circleOff, Cmd.rainbowOn>>
    BY <2>1, ConcatFour
  <2> QED
    BY <2>2, <2>3
<1>3. Sends(x, a, But(x, E))
  <2>1. 20 \in Int /\ 20 % 256 # 0
    OBVIOUS
  <2> DEFINE n == 20
  <2>2. n \in Int /\ n % 256 # 0
    BY <2>1
  <2> HIDE DEF n
  <2>3. Sends(x, <<Cmd.bright, n>>, {y \in But(x, {"brightness"}) : y.brightness = n % 256})
    BY <2>2, NumberCommands
  <2>4. Sends(x, <<Cmd.bright, n>>, But(x, {"brightness"}))
    BY <2>3, SendsTo
  <2> QED
    BY <2>4 DEF n
<1> HIDE DEF a
<1>4. ASSUME NEW y \in But(x, E)
      PROVE  Sends(y, b, {z \in But(x, E \cup F) : ~z.flagc})
  <2>1. y \in Ready
    BY DEF But
  <2>2. Sends(y, b, {z \in But(y, F) : ~z.flagc})
    BY <2>1, Switches
  <2>3. \A z \in But(y, F) : z \in But(x, E \cup F)
    BY ButBut
  <2> HIDE DEF b, E, F
  <2> QED
    BY <2>2, <2>3, SendsTo
<1>5. ASSUME NEW y \in But(x, E \cup F), ~y.flagc
      PROVE  Sends(y, c, {z \in But(x, (E \cup F) \cup G) : ~z.flagc})
  <2>1. y \in Ready
    BY DEF But
  <2>2. Sends(y, c, {z \in But(y, G) : z.rbstatus})
    BY <2>1, Switches
  <2>3. ASSUME NEW z \in But(y, G) PROVE z \in But(x, (E \cup F) \cup G) /\ ~z.flagc
    <3>1. Same(y, z, {"rbstatus"})
      BY DEF But
    <3>2. ~z.flagc
      BY <1>5, <3>1 DEF Same
    <3> HIDE DEF E, F, G
    <3> QED
      BY <3>2, ButBut
  <2> HIDE DEF c, E, F, G
  <2> QED
    BY <2>2, <2>3, SendsTo
<1>6. (E \cup F) \cup G = {"brightness", "flagc", "rbstatus"}
  OBVIOUS
<1> HIDE DEF b, c, E, F, G
<1> DEFINE P1 == But(x, E)
           P2 == {z \in But(x, E \cup F) : ~z.flagc}
           P3 == {z \in But(x, (E \cup F) \cup G) : ~z.flagc}
<1>7. /\ Sends(x, a, P1)
      /\ \A y \in FwStates : y \in P1 => Sends(y, b, P2)
      /\ \A y \in FwStates : y \in P2 => Sends(y, c, P3)
  BY <1>3, <1>4, <1>5
<1> HIDE DEF P1, P2, P3
<1>8. Sends(x, a \o b, P2)
  BY <1>1, <1>7, SendsThen
<1>9. Sends(x, (a \o b) \o c, P3)
  BY <1>1, <1>7, <1>8, SendsThen
<1>10. (a \o b) \o c \in Seq(Int)
  BY <1>9 DEF Sends
<1> QED
  BY <1>2, <1>6, <1>9, <1>10 DEF P3

(* The commands that end a rainbow. *)
LEMMA RainbowEnds ==
  ASSUME Legible, NEW x \in Ready, NEW n \in Int, n % 256 # 0
  PROVE  /\ <<Cmd.rainbowOff, Cmd.bright, n>> \in Seq(Int)
         /\ Sends(x, <<Cmd.rainbowOff, Cmd.bright, n>>,
                  {y \in But(x, {"rbstatus", "brightness"}) :
                     ~y.rbstatus /\ y.brightness = n % 256})
<1> DEFINE T == Int
           a == <<Cmd.rainbowOff>>
           b == <<Cmd.bright, n>>
           E == {"rbstatus"}
           F == {"brightness"}
<1>1. a \in Seq(Int) /\ b \in Seq(Int)
  BY CodeInts
<1>2. a \o b = <<Cmd.rainbowOff, Cmd.bright, n>>
  <2>1. Cmd.bright \in T /\ n \in T /\ Cmd.rainbowOff \in T
    BY CodeInts
  <2> HIDE DEF T
  <2>2. <<Cmd.rainbowOff>> \in Seq(T) /\ <<Cmd.bright>> \in Seq(T) /\ <<n>> \in Seq(T)
    BY <2>1
  <2>3. <<Cmd.bright>> \o <<n>> = b /\ <<Cmd.rainbowOff>> \o <<Cmd.bright>> = <<Cmd.rainbowOff, Cmd.bright>>
    BY <2>1, ConcatTwo
  <2>4. <<Cmd.rainbowOff, Cmd.bright>> \o <<n>> = <<Cmd.rainbowOff, Cmd.bright, n>>
    BY <2>1, ConcatThree
  <2>5. (<<Cmd.rainbowOff>> \o <<Cmd.bright>>) \o <<n>> = <<Cmd.rainbowOff>> \o (<<Cmd.bright>> \o <<n>>)
    <3> DEFINE u == <<Cmd.rainbowOff>>
               v == <<Cmd.bright>>
               w == <<n>>
    <3>1. u \in Seq(Int) /\ v \in Seq(Int) /\ w \in Seq(Int)
      BY <2>2 DEF T
    <3> HIDE DEF u, v, w
    <3>2. (u \o v) \o w = u \o (v \o w)
      BY <3>1, Regroup
    <3> QED
      BY <3>2 DEF u, v, w
  <2> QED
    BY <2>3, <2>4, <2>5
<1>3. Sends(x, a, {y \in But(x, E) : ~y.rbstatus})
  BY Switches
<1>4. ASSUME NEW y \in But(x, E), ~y.rbstatus
      PROVE  Sends(y, b, {z \in But(x, E \cup F) : ~z.rbstatus /\ z.brightness = n % 256})
  <2>1. y \in Ready
    BY DEF But
  <2>2. Sends(y, b, {z \in But(y, F) : z.brightness = n % 256})
    BY <2>1, NumberCommands
  <2>3. ASSUME NEW z \in But(y, F) PROVE z \in But(x, E \cup F) /\ ~z.rbstatus
    <3>1. Same(y, z, {"brightness"})
      BY DEF But
    <3>2. ~z.rbstatus
      BY <1>4, <3>1 DEF Same
    <3> HIDE DEF E, F
    <3> QED
      BY <3>2, ButBut
  <2> HIDE DEF b, E, F
  <2> QED
    BY <2>2, <2>3, SendsTo
<1>5. E \cup F = {"rbstatus", "brightness"}
  OBVIOUS
<1> HIDE DEF a, b, E, F
<1> DEFINE P1 == {y \in But(x, E) : ~y.rbstatus}
           P2 == {z \in But(x, E \cup F) : ~z.rbstatus /\ z.brightness = n % 256}
<1>6. Sends(x, a, P1) /\ \A y \in FwStates : y \in P1 => Sends(y, b, P2)
  BY <1>3, <1>4
<1> HIDE DEF P1, P2
<1>7. Sends(x, a \o b, P2)
  BY <1>1, <1>6, SendsThen
<1>8. a \o b \in Seq(Int)
  BY <1>7 DEF Sends
<1> QED
  BY <1>2, <1>5, <1>7, <1>8 DEF P2

(* What the end of a rainbow leaves. *)
Dark(x, n, F) ==
  {y \in But(x, {"rbstatus", "brightness"} \cup F) : ~y.rbstatus /\ y.brightness = n % 256}

(* The end of a rainbow, and the circle. *)
LEMMA DarkCircle ==
  ASSUME Legible, NEW x \in Ready, NEW n \in Int, n % 256 # 0
  PROVE  /\ <<Cmd.rainbowOff, Cmd.bright, n, Cmd.circleOn>> \in Seq(Int)
         /\ Sends(x, <<Cmd.rainbowOff, Cmd.bright, n, Cmd.circleOn>>,
                  {y \in Dark(x, n, {"flagc"}) : y.flagc})
<1> DEFINE T == Int
           a == <<Cmd.rainbowOff, Cmd.bright, n>>
           b == <<Cmd.circleOn>>
           E == {"rbstatus", "brightness"}
           F == {"flagc"}
<1>1. a \o b = <<Cmd.rainbowOff, Cmd.bright, n, Cmd.circleOn>>
  <2>1. Cmd.rainbowOff \in T /\ Cmd.bright \in T /\ n \in T /\ Cmd.circleOn \in T
    BY CodeInts
  <2> HIDE DEF T
  <2> QED
    BY <2>1, ConcatFour
<1>2. b \in Seq(Int)
  BY CodeInts
<1> DEFINE P1 == {y \in But(x, E) : ~y.rbstatus /\ y.brightness = n % 256}
           P2 == {y \in Dark(x, n, F) : y.flagc}
<1>3. Sends(x, a, P1)
  BY RainbowEnds
<1>4. ASSUME NEW y \in P1 PROVE Sends(y, b, P2)
  <2>1. y \in Ready
    BY DEF But
  <2>2. Sends(y, b, {z \in But(y, F) : z.flagc})
    BY <2>1, Switches
  <2>3. ASSUME NEW z \in But(y, F), z.flagc PROVE z \in P2
    <3>1. Same(y, z, {"flagc"})
      BY DEF But
    <3>2. ~z.rbstatus /\ z.brightness = n % 256
      BY <3>1 DEF Same
    <3>3. y \in But(x, E)
      OBVIOUS
    <3>4. z \in But(x, E \cup F)
      <4> HIDE DEF E, F
      <4> QED
        BY <3>3, ButBut
    <3> QED
      BY <2>3, <3>2, <3>4 DEF Dark
  <2> HIDE DEF P2, b, F
  <2> QED
    BY <2>2, <2>3, SendsTo
<1> HIDE DEF a, b, P1, P2
<1>5. Sends(x, a \o b, P2)
  BY <1>2, <1>3, <1>4, SendsThen
<1>6. a \o b \in Seq(Int)
  BY <1>5 DEF Sends
<1> QED
  BY <1>1, <1>5, <1>6 DEF P2

(* The end of a contained rainbow. *)
LEMMA DarkClear ==
  ASSUME Legible, NEW x \in Ready, NEW n \in Int, n % 256 # 0
  PROVE  /\ <<Cmd.rainbowOff, Cmd.bright, n, Cmd.clear>> \in Seq(Int)
         /\ Sends(x, <<Cmd.rainbowOff, Cmd.bright, n, Cmd.clear>>,
                  {y \in Dark(x, n, {"flag"}) : y.flag = NoKeys})
<1> DEFINE T == Int
           a == <<Cmd.rainbowOff, Cmd.bright, n>>
           b == <<Cmd.clear>>
           E == {"rbstatus", "brightness"}
           F == {"flag"}
<1>1. a \o b = <<Cmd.rainbowOff, Cmd.bright, n, Cmd.clear>>
  <2>1. Cmd.rainbowOff \in T /\ Cmd.bright \in T /\ n \in T /\ Cmd.clear \in T
    BY CodeInts
  <2> HIDE DEF T
  <2> QED
    BY <2>1, ConcatFour
<1>2. b \in Seq(Int)
  BY CodeInts
<1> DEFINE P1 == {y \in But(x, E) : ~y.rbstatus /\ y.brightness = n % 256}
           P2 == {y \in Dark(x, n, F) : y.flag = NoKeys}
<1>3. Sends(x, a, P1)
  BY RainbowEnds
<1>4. ASSUME NEW y \in P1 PROVE Sends(y, b, P2)
  <2>1. y \in Ready
    BY DEF But
  <2>2. Sends(y, b, {z \in But(y, F) : z.flag = NoKeys})
    BY <2>1, Switches
  <2>3. ASSUME NEW z \in But(y, F), z.flag = NoKeys PROVE z \in P2
    <3>1. Same(y, z, {"flag"})
      BY DEF But
    <3>2. ~z.rbstatus /\ z.brightness = n % 256
      BY <3>1 DEF Same
    <3>3. y \in But(x, E)
      OBVIOUS
    <3>4. z \in But(x, E \cup F)
      <4> HIDE DEF E, F
      <4> QED
        BY <3>3, ButBut
    <3> QED
      BY <2>3, <3>2, <3>4 DEF Dark
  <2> HIDE DEF P2, b, F
  <2> QED
    BY <2>2, <2>3, SendsTo
<1> HIDE DEF a, b, P1, P2
<1>5. Sends(x, a \o b, P2)
  BY <1>2, <1>3, <1>4, SendsThen
<1>6. a \o b \in Seq(Int)
  BY <1>5 DEF Sends
<1> QED
  BY <1>1, <1>5, <1>6 DEF P2

(* ... with the circle. *)
LEMMA DarkBoth ==
  ASSUME Legible, NEW x \in Ready, NEW n \in Int, n % 256 # 0
  PROVE  /\ <<Cmd.rainbowOff, Cmd.bright, n, Cmd.clear>> \o <<Cmd.circleOn>> \in Seq(Int)
         /\ Sends(x, <<Cmd.rainbowOff, Cmd.bright, n, Cmd.clear>> \o <<Cmd.circleOn>>,
                  {y \in Dark(x, n, {"flag", "flagc"}) : y.flag = NoKeys /\ y.flagc})
<1> DEFINE a == <<Cmd.rainbowOff, Cmd.bright, n, Cmd.clear>>
           b == <<Cmd.circleOn>>
           E == {"rbstatus", "brightness"} \cup {"flag"}
           F == {"flagc"}
<1>2. b \in Seq(Int)
  BY CodeInts
<1> DEFINE P1 == {y \in Dark(x, n, {"flag"}) : y.flag = NoKeys}
           P2 == {y \in Dark(x, n, {"flag", "flagc"}) : y.flag = NoKeys /\ y.flagc}
<1>3. Sends(x, a, P1)
  BY DarkClear
<1>4. ASSUME NEW y \in P1 PROVE Sends(y, b, P2)
  <2>1. y \in Ready /\ y \in But(x, E) /\ ~y.rbstatus /\ y.brightness = n % 256 /\ y.flag = NoKeys
    BY DEF But, Dark
  <2>2. Sends(y, b, {z \in But(y, F) : z.flagc})
    BY <2>1, Switches
  <2>3. ASSUME NEW z \in But(y, F), z.flagc PROVE z \in P2
    <3>1. Same(y, z, {"flagc"})
      BY DEF But
    <3>2. ~z.rbstatus /\ z.brightness = n % 256 /\ z.flag = NoKeys
      BY <2>1, <3>1 DEF Same
    <3>4. z \in But(x, E \cup F)
      <4> HIDE DEF E, F
      <4> QED
        BY <2>1, ButBut
    <3>5. E \cup F = {"rbstatus", "brightness"} \cup {"flag", "flagc"}
      OBVIOUS
    <3> HIDE DEF E, F
    <3> QED
      BY <2>3, <3>2, <3>4, <3>5 DEF Dark
  <2> HIDE DEF P2, b, F
  <2> QED
    BY <2>2, <2>3, SendsTo
<1> HIDE DEF a, b, P1, P2
<1>5. Sends(x, a \o b, P2)
  BY <1>2, <1>3, <1>4, SendsThen
<1>6. a \o b \in Seq(Int)
  BY <1>5 DEF Sends
<1> QED
  BY <1>5, <1>6 DEF P2, a, b

(* A handler that sends s and keeps the settings. *)
LEMMA KeepSync ==
  ASSUME Legible, SyncInv, UNCHANGED vars, NEW s \in Seq(Int), Host!Push(s), running,
         UNCHANGED <<running, using_set, palette, cfg, real, plus, file>>,
         fault' = fault, upset => upset', held' \in [Keys -> BOOLEAN],
         \A y \in Ready : Agrees(y) /\ BrightIs(y) => Sends(y, s, Synced')
  PROVE  SyncInv'
<1>1. HostOK /\ (fault' # "now" => fault # "now")
  BY DEF SyncInv
<1>2. TypeOK' /\ line' \in Seq(Byte) /\ LineLeads' /\ queued' = <<>> /\ Waiting'
  BY <1>1, PushStep
<1>3. HostOK'
  BY <1>1, <1>2 DEF HostOK
<1> QED
  BY <1>2, <1>3 DEF SyncInv

(* RainbowHeld: it starts, or goes on. *)
LEMMA HeldSync ==
  ASSUME Legible, SyncInv, UNCHANGED vars, fault' = fault, Note("other", 0), Host!RainbowHeld
  PROVE  SyncInv'
<1> DEFINE s == <<Cmd.rainbowOn>>
           u == <<Cmd.bright, 20, Cmd.circleOff, Cmd.rainbowOn>>
<1>1. /\ HostOK /\ running /\ on_rainbow' = TRUE
      /\ IF on_rainbow THEN Host!Push(s) ELSE Host!Push(u)
      /\ UNCHANGED <<running, using_set, palette, cfg, real, plus, contain_rainbow, file>>
  BY CodeInts DEF SyncInv, Host!RainbowHeld, Host!Ready, Host!setVars, Host!bgVars
<1>2. queued' = <<>>
  BY <1>1 DEF Host!Push
<1>3. drift' = drift /\ held' = held /\ held' \in [Keys -> BOOLEAN] /\ (upset => upset')
  BY <1>1, NoteIs
<1>4. ASSUME NEW y \in Ready, Agrees(y),
             NEW z \in But(y, {"rbstatus", "brightness", "flagc"}), on_rainbow \/ ~z.flagc,
             on_rainbow => z.flagc = y.flagc
      PROVE  z \in Synced'
  <2>1. InStep(y)
    BY <1>1, <1>4 DEF Agrees
  <2>2. z \in Ready /\ z \in FwStates /\ Same(y, z, {"rbstatus", "brightness", "flagc"})
    BY DEF But, Ready
  <2>3. InStep(z)'
    BY <1>1, <1>3, <1>4, <2>1, <2>2 DEF InStep, Same
  <2>4. BrightIs(z)'
    BY <1>1 DEF BrightIs
  <2> QED
    BY <1>1, <1>3, <1>4, <2>2, <2>3, <2>4 DEF Synced, Agrees, Same, Ready
<1>5. CASE on_rainbow
  <2>1. ASSUME NEW y \in Ready, Agrees(y), BrightIs(y) PROVE Sends(y, s, Synced')
    <3>1. Sends(y, s, {z \in But(y, {"rbstatus"}) : z.rbstatus})
      BY Switches
    <3>2. ASSUME NEW z \in But(y, {"rbstatus"}) PROVE z \in Synced'
      <4>1. z \in But(y, {"rbstatus", "brightness", "flagc"}) /\ z.flagc = y.flagc
        BY DEF But, Same
      <4> QED
        BY <1>4, <1>5, <2>1, <4>1
    <3> QED
      BY <3>1, <3>2, SendsTo
  <2>2. s \in Seq(Int)
    BY CodeInts
  <2>3. Host!Push(s)
    BY <1>1, <1>5
  <2> HIDE DEF s
  <2> QED
    BY <1>1, <1>3, <2>1, <2>2, <2>3, KeepSync
<1>6. CASE ~on_rainbow
  <2>1. ASSUME NEW y \in Ready, Agrees(y), BrightIs(y) PROVE Sends(y, u, Synced') /\ u \in Seq(Int)
    <3>1. /\ Sends(y, u, {z \in But(y, {"brightness", "flagc", "rbstatus"}) : ~z.flagc})
          /\ u \in Seq(Int)
      BY RainbowStarts
    <3>2. ASSUME NEW z \in But(y, {"brightness", "flagc", "rbstatus"}), ~z.flagc
          PROVE  z \in Synced'
      <4>1. {"brightness", "flagc", "rbstatus"} = {"rbstatus", "brightness", "flagc"}
        OBVIOUS
      <4> QED
        BY <1>4, <1>6, <2>1, <3>2, <4>1
    <3> QED
      BY <3>1, <3>2, SendsTo
  <2>2. u \in Seq(Int)
    <3>1. Cmd.bright \in Int /\ 20 \in Int /\ Cmd.circleOff \in Int /\ Cmd.rainbowOn \in Int
      BY CodeInts
    <3> QED
      BY <3>1
  <2>3. Host!Push(u)
    BY <1>1, <1>6
  <2> HIDE DEF u
  <2> QED
    BY <1>1, <1>3, <2>1, <2>2, <2>3, KeepSync
<1> QED
  BY <1>5, <1>6

(* The brightness comes back. *)
LEMMA BrightBack ==
  ASSUME HostOK, NEW n, n = cfg.brightness % 256
  PROVE  n = cfg.brightness \/ cfg.brightness > 255
<1>1. cfg.brightness \in Int /\ cfg.brightness > 0
  BY CarriedIs DEF HostOK
<1>2. \A m \in 1..255 : m % 256 = m
  OBVIOUS
<1> QED
  BY <1>1, <1>2

(* RainbowReleased: it ends. *)
LEMMA ReleasedSync ==
  ASSUME Legible, SyncInv, UNCHANGED vars, fault' = fault, Note("dark", 0), Host!RainbowReleased
  PROVE  SyncInv'
<1> DEFINE n == cfg.brightness
           s == <<Cmd.rainbowOff, Cmd.bright, n, Cmd.circleOn>>
           u == <<Cmd.rainbowOff>>
<1>1. /\ HostOK /\ running /\ on_rainbow' = FALSE /\ on_rainbow
      /\ IF cfg.circle THEN Host!Push(s)
         ELSE /\ line' = line \o Host!Transmit(queued \o u)
              /\ queued' = <<Cmd.bright, n>>
      /\ UNCHANGED <<running, using_set, palette, cfg, real, plus, contain_rainbow, file>>
  BY CodeInts DEF SyncInv, Host!RainbowReleased, Host!Ready, Host!setVars, Host!bgVars
<1>2. n \in Int /\ n % 256 # 0 /\ cfg.circle \in BOOLEAN
  BY <1>1, CarriedIs DEF HostOK
<1>3. drift' = drift \ {"rainbow"} /\ held' = held /\ held' \in [Keys -> BOOLEAN]
      /\ (upset => upset')
  BY <1>1, NoteIs
<1>4. CASE cfg.circle
  <2>1. ASSUME NEW y \in Ready, Agrees(y), BrightIs(y) PROVE Sends(y, s, Synced')
    <3>1. InStep(y)
      BY <1>1, <2>1 DEF Agrees
    <3>2. Sends(y, s, {z \in Dark(y, n, {"flagc"}) : z.flagc})
      BY <1>2, DarkCircle
    <3>3. ASSUME NEW z \in Dark(y, n, {"flagc"}), z.flagc PROVE z \in Synced'
      <4>1. z \in Ready /\ z \in FwStates /\ Same(y, z, {"rbstatus", "brightness"} \cup {"flagc"})
            /\ ~z.rbstatus /\ z.brightness = n % 256
        BY DEF Dark, But, Ready
      <4>2. InStep(z)'
        BY <1>1, <1>3, <1>4, <3>1, <3>3, <4>1 DEF InStep, Same
      <4>3. BrightIs(z)'
        BY <1>1, <4>1, BrightBack DEF BrightIs
      <4> QED
        BY <1>1, <1>3, <2>1, <4>1, <4>2, <4>3 DEF Synced, Agrees, Same, Ready
    <3> QED
      BY <3>2, <3>3, SendsTo
  <2>2. s \in Seq(Int)
    <3>1. Cmd.rainbowOff \in Int /\ Cmd.bright \in Int /\ Cmd.circleOn \in Int
      BY CodeInts
    <3> QED
      BY <1>2, <3>1
  <2>3. Host!Push(s)
    BY <1>1, <1>4
  <2> HIDE DEF s
  <2> QED
    BY <1>1, <1>3, <2>1, <2>2, <2>3, KeepSync
<1>5. CASE ~cfg.circle
  <2>1. ASSUME NEW y \in Ready, Agrees(y), BrightIs(y) PROVE Sends(y, u, Synced')
    <3>1. InStep(y)
      BY <1>1, <2>1 DEF Agrees
    <3>2. Sends(y, u, {z \in But(y, {"rbstatus"}) : ~z.rbstatus})
      BY Switches
    <3>3. ASSUME NEW z \in But(y, {"rbstatus"}), ~z.rbstatus PROVE z \in Synced'
      <4>1. z \in Ready /\ z \in FwStates /\ Same(y, z, {"rbstatus"})
        BY DEF But, Ready
      <4>2. InStep(z)'
        BY <1>1, <1>3, <1>5, <3>1, <4>1 DEF InStep, Same
      <4>3. queued' # <<>>
        BY <1>1, <1>5, SMTT(40)
      <4> QED
        BY <1>1, <1>3, <2>1, <3>3, <4>1, <4>2, <4>3 DEF Synced, Agrees, Same, Ready
    <3> QED
      BY <3>2, <3>3, SendsTo
  <2>2. u \in Seq(Int)
    BY CodeInts
  <2>3. line' = line \o Host!Transmit(queued \o u) /\ queued' = <<Cmd.bright, n>>
    BY <1>1, <1>5
  <2>4. Waiting'
    BY <1>1, <1>2, <2>3 DEF Waiting
  <2> HIDE DEF u
  <2>5. TypeOK' /\ line' \in Seq(Byte) /\ LineLeads'
    BY <1>1, <2>1, <2>2, <2>3, LineStep
  <2>6. HostOK'
    BY <1>1, <1>3, <2>4 DEF HostOK
  <2> QED
    BY <2>5, <2>6 DEF SyncInv
<1> QED
  BY <1>4, <1>5

(* ContainRainbow: it stays, or ends with the bar cleared. *)
LEMMA ContainSync ==
  ASSUME Legible, SyncInv, UNCHANGED vars, fault' = fault, Note("clear", 0), Host!ContainRainbow
  PROVE  SyncInv'
<1> DEFINE n == cfg.brightness
           s == <<Cmd.bright, 20, Cmd.circleOff, Cmd.rainbowOn>>
           u == <<Cmd.rainbowOff, Cmd.bright, n, Cmd.clear>>
           w == <<Cmd.circleOn>>
<1>1. /\ HostOK /\ running /\ on_rainbow /\ on_rainbow' = on_rainbow
      /\ IF ~contain_rainbow THEN Host!Push(s)
         ELSE Host!Push(u \o (IF cfg.circle THEN w ELSE <<>>))
      /\ UNCHANGED <<running, using_set, palette, cfg, real, plus, on_rainbow, file>>
  BY CodeInts DEF SyncInv, Host!ContainRainbow, Host!Ready, Host!setVars, Host!bgVars
<1>2. n \in Int /\ n % 256 # 0 /\ cfg.circle \in BOOLEAN
  BY <1>1, CarriedIs DEF HostOK
<1>3. /\ drift' = drift /\ held' = held /\ held' \in [Keys -> BOOLEAN] /\ (upset => upset')
      /\ ~upset' => \A k \in Keys : held[k] = FALSE
  BY <1>1, NoteIs
<1>4. /\ s \in Seq(Int) /\ u \in Seq(Int) /\ w \in Seq(Int)
  <2>1. Cmd.rainbowOff \in Int /\ Cmd.bright \in Int /\ Cmd.circleOn \in Int
        /\ Cmd.circleOff \in Int /\ Cmd.rainbowOn \in Int /\ Cmd.clear \in Int /\ 20 \in Int
    BY CodeInts
  <2> QED
    BY <1>2, <2>1
<1>5. u \o <<>> = u
  <2> HIDE DEF u
  <2> QED
    BY <1>4, ConcatEmptySeq
<1>6. ASSUME NEW y \in Ready, Agrees(y),
             NEW z \in But(y, {"rbstatus", "brightness", "flagc", "flag"}),
             z.flag = y.flag \/ z.flag = NoKeys,
             \/ z.flagc = y.flagc
             \/ /\ contain_rainbow => cfg.circle /\ z.flagc
                /\ ~contain_rainbow => ~z.flagc
      PROVE  z \in Synced'
  <2>1. InStep(y)
    BY <1>1, <1>6 DEF Agrees
  <2>2. z \in Ready /\ z \in FwStates /\ Same(y, z, {"rbstatus", "brightness", "flagc", "flag"})
    BY DEF But, Ready
  <2>3. InStep(z)'
    BY <1>1, <1>3, <1>6, <2>1, <2>2 DEF InStep, Same
  <2>4. BrightIs(z)'
    BY <1>1 DEF BrightIs
  <2>5. ~upset' => \A k \in Played : z.flag[k] = held'[k]
    <3>1. CASE z.flag = y.flag
      BY <1>3, <1>6, <3>1 DEF Agrees
    <3>2. CASE z.flag = NoKeys
      BY <1>3, <3>2, PlayedIs DEF NoKeys
    <3> QED
      BY <1>6, <3>1, <3>2
  <2> QED
    BY <1>1, <1>3, <2>2, <2>3, <2>4, <2>5 DEF Synced, Agrees, Same, Ready
<1>7. CASE ~contain_rainbow
  <2>1. ASSUME NEW y \in Ready, Agrees(y), BrightIs(y) PROVE Sends(y, s, Synced')
    <3>1. Sends(y, s, {z \in But(y, {"brightness", "flagc", "rbstatus"}) : ~z.flagc})
      BY RainbowStarts
    <3>2. ASSUME NEW z \in But(y, {"brightness", "flagc", "rbstatus"}), ~z.flagc
          PROVE  z \in Synced'
      <4>1. z \in But(y, {"rbstatus", "brightness", "flagc", "flag"}) /\ z.flag = y.flag
        BY DEF But, Same
      <4> QED
        BY <1>6, <1>7, <2>1, <3>2, <4>1
    <3> QED
      BY <3>1, <3>2, SendsTo
  <2>2. Host!Push(s)
    BY <1>1, <1>7
  <2> HIDE DEF s
  <2> QED
    BY <1>1, <1>3, <1>4, <2>1, <2>2, KeepSync
<1>8. CASE contain_rainbow /\ cfg.circle
  <2>1. ASSUME NEW y \in Ready, Agrees(y), BrightIs(y) PROVE Sends(y, u \o w, Synced')
    <3>1. Sends(y, u \o w, {z \in Dark(y, n, {"flag", "flagc"}) : z.flag = NoKeys /\ z.flagc})
      BY <1>2, DarkBoth
    <3>2. ASSUME NEW z \in Dark(y, n, {"flag", "flagc"}), z.flag = NoKeys, z.flagc
          PROVE  z \in Synced'
      <4>1. z \in But(y, {"rbstatus", "brightness", "flagc", "flag"})
        BY DEF But, Same, Dark
      <4> QED
        BY <1>6, <1>8, <2>1, <3>2, <4>1
    <3> QED
      BY <3>1, <3>2, SendsTo
  <2>2. Host!Push(u \o w)
    BY <1>1, <1>8
  <2> HIDE DEF u, w
  <2>3. u \o w \in Seq(Int)
    BY <1>4, ConcatProperties
  <2> QED
    BY <1>1, <1>3, <2>1, <2>2, <2>3, KeepSync
<1>9. CASE contain_rainbow /\ ~cfg.circle
  <2>1. ASSUME NEW y \in Ready, Agrees(y), BrightIs(y) PROVE Sends(y, u, Synced')
    <3>1. Sends(y, u, {z \in Dark(y, n, {"flag"}) : z.flag = NoKeys})
      BY <1>2, DarkClear
    <3>2. ASSUME NEW z \in Dark(y, n, {"flag"}), z.flag = NoKeys
          PROVE  z \in Synced'
      <4>1. z \in But(y, {"rbstatus", "brightness", "flagc", "flag"}) /\ z.flagc = y.flagc
        BY DEF But, Same, Dark
      <4> QED
        BY <1>6, <1>9, <2>1, <3>2, <4>1
    <3> QED
      BY <3>1, <3>2, SendsTo
  <2>2. Host!Push(u)
    BY <1>1, <1>5, <1>9
  <2> HIDE DEF u
  <2> QED
    BY <1>1, <1>3, <1>4, <2>1, <2>2, KeepSync
<1> QED
  BY <1>2, <1>7, <1>8, <1>9

(* The program's variables at the end. *)
LEMMA EndIs ==
  ASSUME HostOK, Host!End, queued' = <<>>, fault' = fault, Note("exit", 0)
  PROVE  HostOK' /\ ~running'
<1>1. /\ running' = FALSE /\ on_rainbow' = FALSE /\ contain_rainbow' = FALSE
      /\ real' = [ch \in Channels |-> 0] /\ plus' = [ch \in Channels |-> 0]
      /\ UNCHANGED <<using_set, palette, cfg, file>>
  BY DEF Host!End, Host!Channels, Channels
<1>2. real' \in [Channels -> Int] /\ plus' \in [Channels -> Int]
  BY <1>1
<1>3. held' \in [Keys -> BOOLEAN] /\ (upset => upset')
  BY NoteIs
<1>4. Waiting'
  BY DEF Waiting
<1> QED
  BY <1>1, <1>2, <1>3, <1>4 DEF HostOK

(* Exit: the firmware is reset. *)
LEMMA ExitSync ==
  ASSUME Legible, SyncInv, UNCHANGED vars, fault' = fault, Note("exit", 0), Host!Exit
  PROVE  SyncInv'
<1> DEFINE s == <<Cmd.reset>>
<1>1. HostOK /\ Host!Push(s) /\ Host!End /\ s \in Seq(Int) /\ running /\ queued' = <<>>
      /\ (fault' # "now" => fault # "now")
  BY CodeInts DEF SyncInv, Host!Exit, Host!Ready, Host!Push
<1>2. HostOK' /\ ~running'
  BY <1>1, EndIs
<1>3. /\ drift' = (IF on_rainbow \/ contain_rainbow THEN drift \cup {"rainbow"} ELSE drift)
      /\ held' = held /\ (~upset' => \A k \in Keys : held[k] = FALSE)
  BY <1>1, NoteIs
<1>4. ASSUME NEW y \in Ready, Agrees(y), BrightIs(y) PROVE Sends(y, s, Synced')
  <2>1. Sends(y, s, {z \in FwStates : /\ z.mode = "setup" /\ z.pend = <<>> /\ z.flag = NoKeys
                                      /\ z.rbstatus = y.rbstatus})
    BY ResetCommand
  <2>2. ASSUME NEW z \in FwStates, z.pend = <<>>, z.flag = NoKeys, z.rbstatus = y.rbstatus
        PROVE  z \in Synced'
    <3>1. ~upset' => \A k \in Played : z.flag[k] = held'[k]
      BY <1>3, <2>2, PlayedIs DEF NoKeys
    <3>2. y.rbstatus => on_rainbow \/ contain_rainbow \/ "rainbow" \in drift \/ fault # "none"
      BY <1>4 DEF Agrees
    <3>3. y.rbstatus => "rainbow" \in drift' \/ fault # "none"
      BY <1>3, <3>2
    <3> QED
      BY <1>2, <2>2, <3>1, <3>3 DEF Synced, Agrees
  <2> HIDE DEF s
  <2> QED
    BY <2>1, <2>2, SendsTo
<1> HIDE DEF s
<1>5. TypeOK' /\ line' \in Seq(Byte) /\ LineLeads'
  BY <1>1, <1>4, PushStep
<1> QED
  BY <1>2, <1>5 DEF SyncInv

(* ShutDown: it is not. *)
LEMMA ShutDownSync ==
  ASSUME Legible, SyncInv, UNCHANGED vars, fault' = fault, Note("exit", 0), Host!ShutDown
  PROVE  SyncInv'
<1>1. HostOK /\ Host!End /\ queued' = <<>> /\ line' = line
  BY DEF SyncInv, Host!ShutDown
<1>2. HostOK' /\ ~running'
  BY <1>1, EndIs
<1>3. /\ drift' = (IF on_rainbow \/ contain_rainbow THEN drift \cup {"rainbow"} ELSE drift)
      /\ held' = held /\ (upset => upset')
  BY <1>1, NoteIs
<1>4. ASSUME NEW x \in FwStates, Agrees(x) PROVE Agrees(x)'
  <2>1. x.rbstatus => "rainbow" \in drift' \/ fault # "none"
    BY <1>3, <1>4 DEF Agrees
  <2> QED
    BY <1>2, <1>3, <1>4, <2>1 DEF Agrees
<1>5. TypeOK' /\ line' \in Seq(Byte) /\ LineLeads'
  BY <1>1, <1>4, QuietStep
<1> QED
  BY <1>2, <1>5 DEF SyncInv

-----------------------------------------------------------------------------
(* start() brings it about, wherever the firmware is. *)

(* What start() does with the host's variables. *)
Started(c, p) ==
  /\ running' /\ cfg' = Host!WithBg(c) /\ queued' = <<>>
  /\ c \in Carried /\ p \in Host!Sets
  /\ palette' = p \/ "color" \in drift'
  /\ real' \in [Channels -> Int] /\ plus' \in [Channels -> Int]
  /\ cfg'.bg => \A ch \in Channels : real'[ch] % 256 # 0 /\ plus'[ch] % 256 # 0

(* After start(), the firmware follows the host. *)
LEMMA StartReaches ==
  ASSUME Legible, NEW c, NEW p, Started(c, p), NEW F, NEW B, NEW x,
         Sends(x, Host!WakeUp, {y \in Ready : y.flag \in F /\ y.rbstatus \in B}),
         \A f \in F : ~upset' => \A k \in Played : f[k] = held'[k],
         TRUE \in B => on_rainbow' \/ contain_rainbow' \/ "rainbow" \in drift' \/ fault' # "none"
  PROVE  Sends(x, Host!StartBytes(c, p, real', plus'), Synced')
<1> DEFINE r == real'
           q == plus'
           P == {y \in Follows(c, Palettes[p][c.color], r, q) : y.flag \in F /\ y.rbstatus \in B}
           s == Host!StartBytes(c, p, r, q)
<1>1. c \in Carried /\ p \in Host!Sets /\ r \in [Channels -> Int] /\ q \in [Channels -> Int]
  BY DEF Started
<1>2. LET w == Host!WithBg(c)
      IN  /\ cfg' = w
          /\ w.circle = c.circle /\ w.ends = c.ends
          /\ w.extend = c.extend /\ w.num_extend = c.num_extend
          /\ w.remain = c.remain /\ w.num_remain = c.num_remain
          /\ w.brightness = c.brightness /\ w.color = c.color
          /\ w.bg = (Host!HasBg(c) /\ c.bg) /\ w.bg \in BOOLEAN
  BY <1>1, CarriedWithBg DEF Started
<1>3. Host!HasBg(c) /\ c.bg => \A ch \in Channels : r[ch] % 256 # 0 /\ q[ch] % 256 # 0
  BY <1>2 DEF Started
<1>4. /\ c.circle \in BOOLEAN /\ c.brightness \in Int /\ c.brightness > 0
  BY <1>1, CarriedIs
<1>5. c.brightness % 256 = c.brightness \/ c.brightness > 255
  <2>1. \A m \in 1..255 : m % 256 = m
    OBVIOUS
  <2> QED
    BY <1>4, <2>1
<1>6. real' = r /\ plus' = q
  OBVIOUS
<1> HIDE DEF r, q
<1>7. Sends(x, s, P)
  BY <1>1, <1>3, StartCommands
<1>8. ASSUME NEW z \in FwStates, z \in P PROVE z \in Synced'
  <2>1. /\ z \in Ready /\ z.pend = <<>>
        /\ z.flagc = c.circle /\ z.flagz = c.ends
        /\ z.rm_status = c.remain /\ (c.remain => z.rm_time = c.num_remain)
        /\ z.extend = c.extend /\ (c.extend => z.numofextend = c.num_extend)
        /\ z.brightness = c.brightness % 256
        /\ z.on_background = (Host!HasBg(c) /\ c.bg)
        /\ (Host!HasBg(c) /\ c.bg => z.bgc = LowByte(r) /\ z.rgb = LowByte(q))
        /\ (~(Host!HasBg(c) /\ c.bg) => z.rgb = Palettes[p][c.color])
        /\ z.flag \in F /\ z.rbstatus \in B
    BY <1>8 DEF Follows, Ready
  <2>2. InStep(z)'
    <3>1. /\ cfg'.circle = c.circle /\ cfg'.ends = c.ends
          /\ cfg'.extend = c.extend /\ cfg'.num_extend = c.num_extend
          /\ cfg'.remain = c.remain /\ cfg'.num_remain = c.num_remain
          /\ cfg'.color = c.color
          /\ cfg'.bg = (Host!HasBg(c) /\ c.bg) /\ cfg'.bg \in BOOLEAN
      BY <1>2
    <3>2. palette' = p \/ "color" \in drift'
      BY DEF Started
    <3>3. z.on_background = cfg'.bg
      BY <2>1, <3>1
    <3>4. cfg'.bg => z.bgc = LowByte(real)' /\ z.rgb = LowByte(plus)'
      BY <1>6, <2>1, <3>1, ZenonT(60) DEF LowByte
    <3>5. ~cfg'.bg => z.rgb = Palettes[palette'][cfg'.color] \/ "color" \in drift'
      BY <2>1, <3>1, <3>2
    <3>6. (cfg'.circle => z.flagc) /\ (~cfg'.circle => ~z.flagc)
      BY <2>1, <3>1
    <3>7. /\ z.flagz = cfg'.ends
          /\ z.rm_status = cfg'.remain /\ (cfg'.remain => z.rm_time = cfg'.num_remain)
          /\ z.extend = cfg'.extend /\ (cfg'.extend => z.numofextend = cfg'.num_extend)
      BY <2>1, <3>1
    <3> QED
      BY <2>1, <3>3, <3>4, <3>5, <3>6, <3>7 DEF InStep
  <2>3. BrightIs(z)'
    BY <1>2, <1>5, <2>1 DEF BrightIs
  <2>4. ~upset' => \A k \in Played : z.flag[k] = held'[k]
    BY <2>1
  <2>5. z.rbstatus => on_rainbow' \/ contain_rainbow' \/ "rainbow" \in drift' \/ fault' # "none"
    BY <2>1
  <2> QED
    BY <1>8, <2>1, <2>2, <2>3, <2>4, <2>5 DEF Synced, Agrees
<1> HIDE DEF P, s
<1> DEFINE Q == Synced'
<1>9. \A z \in FwStates : z \in P => z \in Q
  BY <1>8
<1> HIDE DEF Q
<1>10. Sends(x, s, Q)
  BY <1>7, <1>9, SendsTo
<1> QED
  BY <1>6, <1>10 DEF s, Q

(* What start() sends is numbers. *)
LEMMA StartIsNumbers ==
  ASSUME Legible, SyncInv, NEW c, NEW p, Started(c, p)
  PROVE  Host!StartBytes(c, p, real', plus') \in Seq(Int)
<1> DEFINE f == Firmware
           x == [mode |-> "loop", pend |-> <<>>, flag |-> f.flag, flagc |-> f.flagc,
                 flagz |-> f.flagz, rgb |-> f.rgb, bgc |-> f.bgc,
                 brightness |-> f.brightness, rbstatus |-> f.rbstatus,
                 extend |-> f.extend, numofextend |-> f.numofextend,
                 rm_status |-> f.rm_status, rm_time |-> f.rm_time,
                 on_background |-> f.on_background]
<1>1. f \in FwTypes
  BY FirmwareTyped DEF SyncInv, FwStates
<1> HIDE DEF f
<1>2. x \in FwTypes /\ x.mode = "loop" /\ x.pend = <<>>
  BY <1>1 DEF FwTypes
<1> HIDE DEF x
<1>3. x \in FwStates
  BY <1>2 DEF FwStates
<1> DEFINE F == {x.flag}
           B == {x.rbstatus}
<1>4. Sends(x, Host!WakeUp, {y \in Ready : y.flag = x.flag /\ y.rbstatus = x.rbstatus})
  BY <1>2, <1>3, WakeUp
<1>5. Sends(x, Host!WakeUp, {y \in Ready : y.flag \in F /\ y.rbstatus \in B})
  BY <1>4, SendsTo
<1> HIDE DEF F, B
<1> DEFINE r == real'
           q == plus'
<1>6. c \in Carried /\ p \in Host!Sets /\ r \in [Channels -> Int] /\ q \in [Channels -> Int]
  BY DEF Started
<1>7. Host!HasBg(c) /\ c.bg => \A ch \in Channels : r[ch] % 256 # 0 /\ q[ch] % 256 # 0
  BY <1>6, CarriedWithBg DEF Started
<1> HIDE DEF r, q
<1>8. Sends(x, Host!StartBytes(c, p, r, q),
            {y \in Follows(c, Palettes[p][c.color], r, q) : y.flag \in F /\ y.rbstatus \in B})
  BY <1>5, <1>6, <1>7, StartCommands
<1>9. Host!StartBytes(c, p, r, q) \in Seq(Int)
  BY <1>8 DEF Sends
<1> QED
  BY <1>9 DEF r, q

(* The host's variables after start(). *)
LEMMA StartIs ==
  ASSUME Legible, HostOK, NEW before, NEW c \in Carried, NEW p \in Host!Sets,
         Host!Start(before, c, p), running', palette' = p \/ "color" \in drift'
  PROVE  Started(c, p)
<1>1. cfg' = Host!WithBg(c) /\ Host!GetBgColor(c, p) /\ queued' = <<>>
  BY DEF Host!Start, Host!Push
<1>2. /\ real' \in [Channels -> Int] /\ plus' \in [Channels -> Int]
      /\ Host!HasBg(c) => \A ch \in Channels : real'[ch] % 256 # 0 /\ plus'[ch] % 256 # 0
  BY <1>1, BackgroundIs
<1>3. cfg'.bg => Host!HasBg(c)
  BY <1>1, CarriedWithBg
<1> QED
  BY <1>1, <1>2, <1>3 DEF Started

(* The host keeps what it needs. *)
LEMMA StartHostOK ==
  ASSUME HostOK, NEW c, NEW p, Started(c, p), using_set' \in Host!Sets, palette' = using_set',
         file' = file, held' \in [Keys -> BOOLEAN], fault' # "none" => upset'
  PROVE  HostOK'
<1>1. cfg' \in Carried
  BY CarriedWithBg DEF Started
<1>2. Waiting'
  BY DEF Started, Waiting
<1> QED
  BY <1>1, <1>2 DEF HostOK, Started

(* Main: the program starts, and the firmware is in setup or reset. *)
LEMMA MainSync ==
  ASSUME Legible, SyncInv, UNCHANGED vars, NEW p \in Host!Sets, Host!Main(p),
         Note("start", 0), Resync(mode = "setup")
  PROVE  SyncInv'
<1> DEFINE c == file[p]
           e == <<>>
<1>1. /\ HostOK /\ ~running /\ line = <<>> /\ queued = <<>> /\ running'
      /\ using_set' = p /\ palette' = p /\ Host!Start(e, c, p)
      /\ on_rainbow' = on_rainbow /\ contain_rainbow' = contain_rainbow /\ file' = file
      /\ c \in Carried
  BY DEF SyncInv, Host!Main, Host!rbVars, HostOK
<1>2. /\ drift' = drift \cap {"rainbow"} /\ held' = held /\ held' \in [Keys -> BOOLEAN]
      /\ (upset => upset') /\ (~upset' => \A k \in Keys : held[k] = FALSE)
  BY <1>1, NoteIs
<1>3. /\ fault' = (IF fault = "now" /\ mode = "setup" THEN "past" ELSE fault)
      /\ fault' # "none" => upset'
  <2>1. fault' = (IF fault = "now" /\ mode = "setup" THEN "past" ELSE fault)
    BY DEF Resync
  <2>2. fault # "none" => upset
    BY <1>1 DEF HostOK
  <2>3. fault' # "none" => fault # "none"
    BY <2>1
  <2> QED
    BY <1>2, <2>1, <2>2, <2>3
<1> HIDE DEF c
<1>4. Started(c, p)
  BY <1>1, StartIs
<1> DEFINE s == Host!StartBytes(c, p, real', plus')
<1>5. s \in Seq(Int)
  BY <1>4, StartIsNumbers
<1>6. Host!Push(e \o s)
  BY <1>1 DEF Host!Start
<1>7. e \o s = s
  <2> HIDE DEF s
  <2> QED
    BY <1>5, ConcatEmptySeq
<1>8. line' = line \o Host!Transmit(queued \o s)
  BY <1>6, <1>7 DEF Host!Push
<1>9. /\ TypeOK' /\ line' \in Seq(Byte) /\ Firmware' = Firmware
      /\ Host!Transmit(queued \o s) \in Seq(Byte)
  <2> HIDE DEF s
  <2> QED
    BY <1>5, <1>8, LineType
<1>10. ASSUME fault' # "now" PROVE Leads(Firmware', line', Synced')
  <2> DEFINE x == Firmware
             F == {x.flag}
             B == {x.rbstatus}
  <2>1. x \in FwStates
    BY FirmwareTyped DEF SyncInv
  <2>2. /\ x.pend = <<>>
        /\ ~upset' => \A k \in Played : x.flag[k] = held'[k]
        /\ x.rbstatus => on_rainbow' \/ contain_rainbow' \/ "rainbow" \in drift'
                         \/ fault' # "none"
    <3>1. CASE fault # "now"
      <4>1. Leads(x, <<>>, Synced)
        BY <1>1, <3>1 DEF SyncInv, LineLeads
      <4> HIDE DEF x
      <4>2. x \in Synced
        BY <2>1, <4>1, LeadsNowhere
      <4>3. /\ x.pend = <<>>
            /\ ~upset => \A k \in Played : x.flag[k] = held[k]
            /\ x.rbstatus => on_rainbow \/ contain_rainbow \/ "rainbow" \in drift
                             \/ fault # "none"
        BY <4>2 DEF Synced, Agrees
      <4>4. fault' = fault
        BY <1>3, <3>1
      <4>5. "rainbow" \in drift => "rainbow" \in drift'
        BY <1>2
      <4>6. ~upset' => \A k \in Played : x.flag[k] = held'[k]
        BY <1>2, <4>3
      <4>7. x.rbstatus => on_rainbow' \/ contain_rainbow' \/ "rainbow" \in drift'
                         \/ fault' # "none"
        BY <1>1, <4>3, <4>4, <4>5
      <4> QED
        BY <4>3, <4>6, <4>7
    <3>2. CASE fault = "now" /\ mode = "setup"
      <4>1. x.mode = "setup"
        BY <3>2 DEF Firmware
      <4>2. x.pend = <<>>
        BY <2>1, <4>1 DEF FwStates
      <4>3. upset' /\ fault' = "past"
        BY <1>3, <3>2
      <4> QED
        BY <4>2, <4>3
    <3> QED
      BY <1>3, <1>10, <3>1, <3>2
  <2> HIDE DEF x
  <2>3. Sends(x, Host!WakeUp, {y \in Ready : y.flag = x.flag /\ y.rbstatus = x.rbstatus})
    BY <2>1, <2>2, WakeUp
  <2>4. Sends(x, Host!WakeUp, {y \in Ready : y.flag \in F /\ y.rbstatus \in B})
    BY <2>3, SendsTo
  <2>5. /\ \A f \in F : ~upset' => \A k \in Played : f[k] = held'[k]
        /\ TRUE \in B => on_rainbow' \/ contain_rainbow' \/ "rainbow" \in drift'
                         \/ fault' # "none"
    BY <2>2
  <2> HIDE DEF F, B
  <2>6. Sends(x, s, Synced')
    BY <1>4, <2>4, <2>5, StartReaches
  <2>7. Leads(x, Host!Transmit(s), Synced')
    BY <2>6 DEF Sends
  <2>8. line' = Host!Transmit(s)
    <3> HIDE DEF s
    <3>1. queued \o s = s
      BY <1>1, <1>5, ConcatEmptySeq
    <3>2. Host!Transmit(s) \in Seq(Byte)
      BY <1>9, <3>1
    <3> DEFINE t == Host!Transmit(s)
    <3> HIDE DEF t
    <3>3. <<>> \o t = t
      BY <3>2, ConcatEmptySeq DEF t
    <3> QED
      BY <1>1, <1>8, <3>1, <3>3 DEF t
  <2> QED
    BY <1>9, <2>7, <2>8 DEF x
<1>11. LineLeads'
  BY <1>10 DEF LineLeads
<1>12. HostOK'
  BY <1>1, <1>2, <1>3, <1>4, StartHostOK
<1> QED
  BY <1>9, <1>11, <1>12 DEF SyncInv

(* Once reset and started again, the firmware follows, whatever it was at. *)
LEMMA AgainSync ==
  ASSUME Legible, SyncInv, UNCHANGED vars, running, running',
         NEW c \in Carried, NEW p \in Host!Sets, Host!Start(<<Cmd.reset>>, c, p),
         using_set' \in Host!Sets, palette' = using_set', palette' = p \/ "color" \in drift',
         file' = file, on_rainbow' = on_rainbow, contain_rainbow' = contain_rainbow,
         "rainbow" \in drift => "rainbow" \in drift',
         held' = held, upset => upset', ~upset' => \A k \in Keys : held[k] = FALSE,
         fault' = IF fault = "now" THEN "past" ELSE fault
  PROVE  SyncInv'
<1> DEFINE a == <<Cmd.reset>>
           s == Host!StartBytes(c, p, real', plus')
           Q == Synced'
<1>1. /\ HostOK /\ a \in Seq(Int) /\ held' \in [Keys -> BOOLEAN]
      /\ fault' = (IF fault = "now" THEN "past" ELSE fault)
      /\ fault' # "now" /\ (fault' # "none" => upset')
  BY CodeInts DEF SyncInv, HostOK
<1>2. Started(c, p)
  BY <1>1, StartIs
<1>3. s \in Seq(Int)
  BY <1>2, StartIsNumbers
<1>4. Host!Push(a \o s)
  BY DEF Host!Start
<1>5. ASSUME NEW F, NEW B, NEW x, Sends(x, Host!WakeUp, {y \in Ready : y.flag \in F /\ y.rbstatus \in B}),
             \A f \in F : ~upset' => \A k \in Played : f[k] = held'[k],
             TRUE \in B => on_rainbow' \/ contain_rainbow' \/ "rainbow" \in drift'
                           \/ fault' # "none"
      PROVE  Sends(x, s, Q)
  BY <1>2, <1>5, StartReaches
<1> HIDE DEF s
<1>6. a \o s \in Seq(Int)
  BY <1>1, <1>3, ConcatProperties
<1>7. line' = line \o Host!Transmit(queued \o (a \o s))
  BY <1>4 DEF Host!Push
<1>8. /\ TypeOK' /\ line' \in Seq(Byte) /\ Firmware' = Firmware /\ line \in Seq(Byte)
      /\ queued \in Seq(Int) /\ Host!Transmit(queued) \in Seq(Byte)
      /\ Host!Transmit(queued \o (a \o s)) \in Seq(Byte)
  BY <1>6, <1>7, LineType DEF SyncInv
<1>9. HostOK'
  BY <1>1, <1>2, StartHostOK
<1>10. CASE fault # "now"
  <2>1. ASSUME NEW y \in Ready, Agrees(y), BrightIs(y) PROVE Sends(y, a \o s, Q)
    <3> DEFINE W == {z \in FwStates : /\ z.mode = "setup" /\ z.pend = <<>> /\ z.flag = NoKeys
                                      /\ z.rbstatus = y.rbstatus}
    <3>1. Sends(y, a, W)
      BY ResetCommand
    <3>2. ASSUME NEW z \in FwStates, z \in W PROVE Sends(z, s, Q)
      <4> DEFINE F == {NoKeys}
                 B == {y.rbstatus}
      <4>1. Sends(z, Host!WakeUp, {v \in Ready : v.flag = z.flag /\ v.rbstatus = z.rbstatus})
        BY <3>2, WakeUp
      <4>2. Sends(z, Host!WakeUp, {v \in Ready : v.flag \in F /\ v.rbstatus \in B})
        <5>1. \A v \in Ready : v.flag = z.flag /\ v.rbstatus = z.rbstatus
                               => v.flag \in F /\ v.rbstatus \in B
          BY <3>2
        <5> HIDE DEF F, B
        <5> QED
          BY <4>1, <5>1, SendsTo
      <4>3. \A f \in F : ~upset' => \A k \in Played : f[k] = held'[k]
        BY PlayedIs DEF NoKeys
      <4>4. TRUE \in B => on_rainbow' \/ contain_rainbow' \/ "rainbow" \in drift'
                          \/ fault' # "none"
        BY <1>1, <1>10, <2>1 DEF Agrees
      <4> HIDE DEF F, B, Q
      <4> QED
        BY <1>5, <4>2, <4>3, <4>4
    <3> HIDE DEF W, Q, a
    <3> QED
      BY <1>3, <3>1, <3>2, SendsThen
  <2>2. \A y \in Ready : Agrees(y) /\ BrightIs(y) => Sends(y, a \o s, Synced')
    BY <2>1
  <2> HIDE DEF Q, a
  <2>3. LineLeads'
    BY <1>6, <1>7, <1>10, <2>2, LineStep
  <2> QED
    BY <1>8, <1>9, <2>3 DEF SyncInv
<1>11. CASE fault = "now"
  <2> DEFINE W == {z \in FwStates : Sends(z, Host!WakeUp, Ready)}
  <2>1. ASSUME NEW x \in FwStates PROVE Sends(x, queued \o (a \o s), Q)
    <3>1. Sends(x, queued, FwStates)
      BY <1>8, LeadsSomewhere DEF Sends
    <3>2. ASSUME NEW y \in FwStates PROVE Sends(y, a \o s, Q)
      <4>1. Sends(y, a, W)
        BY WakeAnywhere
      <4>2. ASSUME NEW z \in FwStates, z \in W PROVE Sends(z, s, Q)
        <5> DEFINE F == [Keys -> BOOLEAN]
                   B == BOOLEAN
        <5>1. Sends(z, Host!WakeUp, Ready)
          BY <4>2
        <5>2. \A v \in Ready : v.flag \in F /\ v.rbstatus \in B
          BY DEF Ready, FwStates, FwTypes
        <5>3. upset' /\ fault' # "none"
          BY <1>1, <1>11
        <5> HIDE DEF F, B, Q
        <5>4. Sends(z, Host!WakeUp, {v \in Ready : v.flag \in F /\ v.rbstatus \in B})
          BY <5>1, <5>2, SendsTo
        <5> QED
          BY <1>5, <5>3, <5>4
      <4> HIDE DEF W, Q, a
      <4> QED
        BY <1>3, <4>1, <4>2, SendsThen
    <3> HIDE DEF Q, a
    <3> QED
      BY <1>6, <3>1, <3>2, SendsThen
  <2>2. Firmware \in FwStates
    BY FirmwareTyped DEF SyncInv
  <2> DEFINE x == Firmware
             u == Host!Transmit(queued \o (a \o s))
             S == FwStates
  <2>3. Leads(x, line, S)
    BY <1>8, LeadsSomewhere
  <2>4. \A y \in FwStates : y \in S => Leads(y, u, Q)
    BY <2>1 DEF Sends
  <2> HIDE DEF Q, x, u, S
  <2>5. Leads(x, line \o u, Q)
    BY <1>8, <2>3, <2>4, LeadsThen DEF u
  <2>6. Leads(Firmware', line', Synced')
    BY <1>7, <1>8, <2>5 DEF x, u, Q
  <2>7. LineLeads'
    BY <2>6 DEF LineLeads
  <2> QED
    BY <1>8, <1>9, <2>7 DEF SyncInv
<1> QED
  BY <1>10, <1>11

(* LoadPreset. *)
LEMMA LoadSync ==
  ASSUME Legible, SyncInv, UNCHANGED vars, NEW p \in Host!Sets, Host!LoadPreset(p),
         Note("start", 0), Resync(TRUE)
  PROVE  SyncInv'
<1> DEFINE c == file[p]
<1>1. /\ HostOK /\ running /\ running' /\ using_set' = p /\ palette' = p
      /\ Host!Start(<<Cmd.reset>>, c, p) /\ file' = file
      /\ on_rainbow' = on_rainbow /\ contain_rainbow' = contain_rainbow
      /\ c \in Carried
  BY CodeInts DEF SyncInv, Host!LoadPreset, Host!Ready, Host!rbVars, HostOK
<1>2. /\ drift' = drift \cap {"rainbow"} /\ held' = held
      /\ (upset => upset') /\ (~upset' => \A k \in Keys : held[k] = FALSE)
      /\ "rainbow" \in drift => "rainbow" \in drift'
  BY <1>1, NoteIs
<1>3. fault' = (IF fault = "now" THEN "past" ELSE fault)
  BY DEF Resync
<1> HIDE DEF c
<1> QED
  BY <1>1, <1>2, <1>3, AgainSync

(* SelectPreset. *)
LEMMA SelectSync ==
  ASSUME Legible, SyncInv, UNCHANGED vars, NEW p \in Host!Sets, Host!SelectPreset(p),
         Note(IF p = using_set THEN "again" ELSE "select", 0), Resync(TRUE)
  PROVE  SyncInv'
<1>1. /\ HostOK /\ running /\ running' /\ using_set' = p /\ palette' = p
      /\ Host!Start(<<Cmd.reset>>, cfg, palette) /\ file' = file
      /\ on_rainbow' = on_rainbow /\ contain_rainbow' = contain_rainbow
      /\ cfg \in Carried /\ palette \in Host!Sets /\ palette = using_set
  BY CodeInts DEF SyncInv, Host!SelectPreset, Host!Ready, Host!rbVars, HostOK
<1>2. /\ held' = held /\ (upset => upset') /\ (~upset' => \A k \in Keys : held[k] = FALSE)
      /\ "rainbow" \in drift => "rainbow" \in drift'
      /\ palette' = palette \/ "color" \in drift'
  <2>1. CASE p = using_set
    <3>1. Note("again", 0)
      BY <2>1
    <3> QED
      BY <1>1, <2>1, <3>1, NoteIs
  <2>2. CASE p # using_set
    <3>1. Note("select", 0)
      BY <2>2
    <3> QED
      BY <1>1, <2>2, <3>1, NoteIs
  <2> QED
    BY <2>1, <2>2
<1>3. fault' = (IF fault = "now" THEN "past" ELSE fault)
  BY DEF Resync
<1> QED
  BY <1>1, <1>2, <1>3, AgainSync

-----------------------------------------------------------------------------
(* The whole. *)

(* A step of the host. *)
LEMMA HostSync ==
  ASSUME Legible, SyncInv, HostStep
  PROVE  SyncInv'
<1>1. UNCHANGED vars
  BY DEF HostStep
<1>2. CASE Restart
  <2>1. PICK p \in Host!Sets :
          \/ Host!Main(p)         /\ Note("start", 0)  /\ Resync(mode = "setup")
          \/ Host!LoadPreset(p)   /\ Note("start", 0)  /\ Resync(TRUE)
          \/ /\ Host!SelectPreset(p)
             /\ Note(IF p = using_set THEN "again" ELSE "select", 0)
             /\ Resync(TRUE)
    BY <1>2 DEF Restart
  <2>2. CASE Host!Main(p) /\ Note("start", 0) /\ Resync(mode = "setup")
    BY <1>1, <2>2, MainSync
  <2>3. CASE Host!LoadPreset(p) /\ Note("start", 0) /\ Resync(TRUE)
    BY <1>1, <2>3, LoadSync
  <2>4. CASE /\ Host!SelectPreset(p)
             /\ Note(IF p = using_set THEN "again" ELSE "select", 0) /\ Resync(TRUE)
    BY <1>1, <2>4, SelectSync
  <2> QED
    BY <2>1, <2>2, <2>3, <2>4
<1>3. ASSUME (Play \/ Drifting \/ Switch \/ Type) /\ UNCHANGED fault PROVE SyncInv'
  <2>1. fault' = fault
    BY <1>3
  <2>2. CASE Play
    BY <1>1, <2>1, <2>2, MidiSync DEF Play
  <2>3. CASE Drifting
    <3>1. ASSUME NEW i \in Host!Colors, Host!PickColor(i) /\ Note("color", 0) PROVE SyncInv'
      <4>1. CASE cfg.bg
        BY <1>1, <2>1, <3>1, <4>1, PickColorOn
      <4>2. CASE ~cfg.bg
        BY <1>1, <2>1, <3>1, <4>2, PickColorOff
      <4> QED
        BY <4>1, <4>2
    <3>2. ASSUME NEW i \in Host!Colors, Host!PickBackground(i) /\ Note("bgcolor", 0)
          PROVE  SyncInv'
      BY <1>1, <2>1, <3>2, PickBackgroundSync
    <3>3. CASE Host!SwitchBackgroundOff /\ Note("back", 0)
      BY <1>1, <2>1, <3>3, BackgroundOffSync
    <3>4. CASE Host!SwitchBackgroundOn /\ Note("backOn", 0)
      BY <1>1, <2>1, <3>4, BackgroundOnSync
    <3>5. CASE Host!Effect1 /\ Note("effect", 0)
      BY <1>1, <2>1, <3>5, EffectSync
    <3>6. CASE Host!ClearBar /\ Note("clear", 0)
      BY <1>1, <2>1, <3>6, ClearSync
    <3>7. CASE Host!ContainRainbow /\ Note("clear", 0)
      BY <1>1, <2>1, <3>7, ContainSync
    <3>8. CASE Host!RainbowReleased /\ Note("dark", 0)
      BY <1>1, <2>1, <3>8, ReleasedSync
    <3>9. CASE Host!Exit /\ Note("exit", 0)
      BY <1>1, <2>1, <3>9, ExitSync
    <3>10. CASE Host!ShutDown /\ Note("exit", 0)
      BY <1>1, <2>1, <3>10, ShutDownSync
    <3> QED
      BY <2>3, <3>1, <3>2, <3>3, <3>4, <3>5, <3>6, <3>7, <3>8, <3>9, <3>10 DEF Drifting
  <2>4. CASE Switch
    <3>1. Note("other", 0)
      BY <2>4 DEF Switch
    <3>2. CASE Host!SwitchCircle
      BY <1>1, <2>1, <3>1, <3>2, CircleSync
    <3>3. CASE Host!SwitchEnds
      BY <1>1, <2>1, <3>1, <3>3, EndsSync
    <3>4. CASE Host!SwitchExtend
      BY <1>1, <2>1, <3>1, <3>4, ExtendSync
    <3>5. CASE Host!SwitchRemain
      BY <1>1, <2>1, <3>1, <3>5, RemainSync
    <3>6. CASE Host!RainbowHeld
      BY <1>1, <2>1, <3>1, <3>6, HeldSync
    <3>7. CASE Host!ContainFrame
      BY <1>1, <2>1, <3>1, <3>7, FrameSync
    <3>8. CASE Host!Tick
      BY <1>1, <2>1, <3>1, <3>8, TickSync
    <3> QED
      BY <2>4, <3>2, <3>3, <3>4, <3>5, <3>6, <3>7, <3>8 DEF Switch
  <2>5. CASE Type
    <3>1. Note("other", 0)
      BY <2>5 DEF Type
    <3>2. ASSUME NEW i \in Host!Colors, Host!SetBackgroundColor(i) PROVE SyncInv'
      BY <1>1, <2>1, <3>1, <3>2, BackgroundColorSync
    <3>3. ASSUME NEW n \in Brights, Host!SetBrightness(n) PROVE SyncInv'
      BY <1>1, <2>1, <3>1, <3>3, SetBrightnessSync
    <3>4. ASSUME NEW n \in Spreads, Host!SetExtend(n) PROVE SyncInv'
      BY <1>1, <2>1, <3>1, <3>4, SetExtendSync
    <3>5. ASSUME NEW n \in Times, Host!SetRemain(n) PROVE SyncInv'
      BY <1>1, <2>1, <3>1, <3>5, SetRemainSync
    <3>6. ASSUME NEW n \in BackBrights, Host!SetBackgroundBrightness(n) PROVE SyncInv'
      BY <1>1, <2>1, <3>1, <3>6, BackgroundBrightnessSync
    <3> QED
      BY <2>5, <3>2, <3>3, <3>4, <3>5, <3>6 DEF Type
  <2> QED
    BY <1>3, <2>2, <2>3, <2>4, <2>5
<1> QED
  BY <1>2, <1>3 DEF HostStep

(* The host has not moved: what it asks of the firmware has not, either. *)
LEMMA SameHost ==
  ASSUME UNCHANGED <<settings, sent, ghosts>>
  PROVE  (HostOK => HostOK') /\ Synced' = Synced
BY DEF settings, sent, ghosts, HostOK, Waiting, Synced, Agrees, InStep, BrightIs, LowByte

(* The firmware reads a byte. *)
LEMMA DeliverSync ==
  ASSUME SyncInv, Deliver
  PROVE  SyncInv'
<1>1. /\ line \in Seq(Byte) /\ line # <<>> /\ TypeOK /\ HostOK /\ Receive(Head(line))
      /\ line' = Tail(line) /\ UNCHANGED <<settings, sent, ghosts>>
  BY DEF SyncInv, Deliver
<1>2. Head(line) \in Byte /\ Tail(line) \in Seq(Byte)
  BY <1>1
<1>3. TypeOK'
  BY <1>1, <1>2, TypeStep
<1>4. Firmware \in FwStates /\ Firmware' = Step(Firmware, Head(line))
  BY <1>1, <1>2, FirmwareTyped, ReceiveIs
<1>5. HostOK' /\ Synced' = Synced /\ fault' = fault
  <2>1. HostOK' /\ Synced' = Synced
    BY <1>1, SameHost
  <2> QED
    BY <1>1, <2>1 DEF ghosts
<1>6. ASSUME fault # "now" PROVE Leads(Firmware', line', Synced')
  <2> DEFINE P == Synced
  <2>1. Leads(Firmware, line, P)
    BY <1>6 DEF SyncInv, LineLeads
  <2> HIDE DEF P
  <2>2. Leads(Step(Firmware, Head(line)), Tail(line), P)
    BY <1>1, <1>4, <2>1, LeadsOn
  <2> QED
    BY <1>1, <1>4, <1>5, <2>2 DEF P
<1>7. LineLeads'
  BY <1>5, <1>6 DEF LineLeads
<1> QED
  BY <1>1, <1>2, <1>3, <1>5, <1>7 DEF SyncInv

(* A fault: nothing is expected until the next start(). *)
LEMMA FaultSync ==
  ASSUME SyncInv, Lose \/ PowerCycle
  PROVE  SyncInv'
<1>1. /\ HostOK /\ UNCHANGED <<settings, sent, drift, held>> /\ fault' = "now" /\ upset' = TRUE
      /\ TypeOK /\ line \in Seq(Byte)
  BY DEF SyncInv, Lose, PowerCycle, Fault
<1>2. HostOK'
  BY <1>1 DEF HostOK, Waiting, settings, sent
<1>3. LineLeads'
  BY <1>1 DEF LineLeads
<1>4. CASE Lose
  <2>1. UNCHANGED vars /\ line' \in Seq(Byte)
    BY <1>1, <1>4 DEF Lose
  <2>2. TypeOK'
    BY <1>1, <2>1, Kept DEF vars, parser, ParserType, TypeOK
  <2> QED
    BY <1>2, <1>3, <2>1, <2>2 DEF SyncInv
<1>5. CASE PowerCycle
  <2>1. Black \in Color /\ BootBrightness \in Byte
    BY BlackType, LightBarAssumption
  <2>2. TypeOK'
    <3>1. RingLen \in Nat /\ 0 \in Byte /\ 0 \in Char /\ 0 \in 0..RingLen
      BY LightBarAssumption DEF Byte, Char
    <3>2. RingType'
      BY <1>5, <3>1 DEF PowerCycle, RingType
    <3>3. SpreadType'
      BY <1>5, <3>1 DEF PowerCycle, SpreadType
    <3>4. ParserType'
      BY <1>5 DEF PowerCycle, ParserType
    <3>5. ColorsType' /\ RemainType' /\ SwitchType'
      BY <1>5, <2>1, <3>1 DEF PowerCycle, ColorsType, RemainType, SwitchType
    <3>6. leds' \in [Leds -> Color]
      BY <1>5, <2>1 DEF PowerCycle
    <3> QED
      BY <3>2, <3>3, <3>4, <3>5, <3>6 DEF TypeOK
  <2>3. line' = <<>>
    BY <1>5 DEF PowerCycle
  <2> QED
    BY <1>2, <1>3, <2>2, <2>3 DEF SyncInv
<1> QED
  BY <1>4, <1>5

(* The invariant holds at first. *)
LEMMA SyncAtFirst ==
  ASSUME Legible, PianoInit
  PROVE  SyncInv
<1>1. TypeOK
  BY InitType DEF PianoInit
<1>2. /\ running = FALSE /\ using_set = 1 /\ palette = 1 /\ file = Presets /\ cfg = Presets[1]
      /\ real = [ch \in Channels |-> 0] /\ plus = [ch \in Channels |-> 0]
      /\ queued = <<>> /\ line = <<>> /\ on_rainbow = FALSE /\ contain_rainbow = FALSE
      /\ fault = "none" /\ held = [k \in Keys |-> FALSE] /\ upset = FALSE
  BY DEF PianoInit, Host!HostInit, Host!Channels, Channels
<1>3. 1 \in Host!Sets /\ Presets \in [Host!Sets -> Carried]
  <2>1. 1 \in Host!Sets /\ Presets \in [Host!Sets -> Host!Settings]
    BY EffectPianoAssumption DEF Host!EffectHostAssumption, Host!Sets
  <2>2. \A p \in Host!Sets : Presets[p] \in Carried
    BY ZenonT(60) DEF Legible
  <2> QED
    BY <2>1, <2>2
<1>4. HostOK
  <2>1. real \in [Channels -> Int] /\ plus \in [Channels -> Int] /\ held \in [Keys -> BOOLEAN]
    BY <1>2
  <2> QED
    BY <1>2, <1>3, <2>1 DEF HostOK, Waiting
<1>5. Firmware \in Synced
  <2>1. Firmware \in FwStates
    BY <1>1, FirmwareTyped
  <2>2. /\ Firmware.pend = <<>> /\ Firmware.flag = [k \in Keys |-> FALSE]
        /\ Firmware.rbstatus = FALSE
    BY DEF PianoInit, Init, Firmware
  <2>3. Agrees(Firmware)
    <3> DEFINE x == Firmware
    <3> HIDE DEF x
    <3>1. x.pend = <<>> /\ x.flag = [k \in Keys |-> FALSE] /\ x.rbstatus = FALSE
      BY <2>2 DEF x
    <3>2. Agrees(x)
      BY <1>2, <3>1, PlayedIs DEF Agrees
    <3> QED
      BY <3>2 DEF x
  <2> QED
    BY <2>1, <2>3 DEF Synced
<1>6. Leads(Firmware, line, Synced)
  <2> DEFINE x == Firmware
             P == Synced
  <2>1. x \in FwStates /\ x \in P
    BY <1>1, <1>5, FirmwareTyped
  <2> HIDE DEF x, P
  <2>2. Leads(x, <<>>, P)
    BY <2>1, LeadsNowhere
  <2> QED
    BY <1>2, <2>2 DEF x, P
<1> QED
  BY <1>1, <1>2, <1>4, <1>6 DEF SyncInv, LineLeads

(* Everything that can happen keeps it. *)
LEMMA SyncStep ==
  ASSUME Legible, SyncInv, [PianoNext]_pianoVars
  PROVE  SyncInv'
<1>1. CASE HostStep
  BY <1>1, HostSync
<1>2. CASE Deliver
  BY <1>2, DeliverSync
<1>3. CASE Lose \/ PowerCycle
  BY <1>3, FaultSync
<1>4. CASE UNCHANGED pianoVars
  <2>1. UNCHANGED vars /\ line' = line /\ UNCHANGED <<settings, sent, ghosts>>
    BY <1>4 DEF pianoVars
  <2>2. HostOK' /\ Synced' = Synced /\ fault' = fault
    <3>1. HostOK' /\ Synced' = Synced
      BY <2>1, SameHost DEF SyncInv
    <3> QED
      BY <2>1, <3>1 DEF ghosts
  <2>3. Firmware' = Firmware
    BY <2>1 DEF Firmware, vars, parser, ring, colors, spread, remain
  <2>4. TypeOK'
    BY <2>1, Kept DEF SyncInv, vars, parser, ParserType, TypeOK
  <2>5. LineLeads'
    <3> DEFINE P == Synced
               Q == Synced'
               x == Firmware
               y == Firmware'
    <3>1. fault # "now" => Leads(x, line, P)
      BY DEF SyncInv, LineLeads
    <3>2. P = Q /\ x = y
      BY <2>2, <2>3
    <3> HIDE DEF P, Q, x, y
    <3>3. fault' # "now" => Leads(y, line', Q)
      BY <2>1, <2>2, <3>1, <3>2
    <3> QED
      BY <3>3 DEF LineLeads, Q, y
  <2> QED
    BY <2>1, <2>2, <2>4, <2>5 DEF SyncInv
<1> QED
  BY <1>1, <1>2, <1>3, <1>4 DEF PianoNext

(* Once the line is empty, the firmware is where it leads. *)
LEMMA SyncedQuiet ==
  ASSUME SyncInv, line = <<>>, fault # "now"
  PROVE  Agrees(Firmware)
<1> DEFINE x == Firmware
           P == Synced
<1>1. x \in FwStates
  BY FirmwareTyped DEF SyncInv
<1>2. Leads(x, <<>>, P)
  BY DEF SyncInv, LineLeads
<1> HIDE DEF x, P
<1>3. x \in P
  BY <1>1, <1>2, LeadsNowhere
<1> QED
  BY <1>3 DEF P, Synced, x

(* It says enough of the settings, once nothing is on the line. *)
LEMMA SyncConfig ==
  ASSUME SyncInv
  PROVE  ConfigInSync
<1> SUFFICES ASSUME running, line = <<>>, queued = <<>>, fault # "now", ~on_rainbow, ~contain_rainbow
             PROVE  /\ mode = "loop" /\ pend = <<>>
                    /\ flagc = cfg.circle \/ "circle" \in drift
                    /\ rbstatus => "rainbow" \in drift \/ fault # "none"
                    /\ flagz = cfg.ends
                    /\ rm_status = cfg.remain /\ (cfg.remain => rm_time = cfg.num_remain)
                    /\ extend = cfg.extend /\ (cfg.extend => numofextend = cfg.num_extend)
                    /\ brightness = cfg.brightness \/ cfg.brightness > 255
                    /\ on_background = cfg.bg \/ "back" \in drift
                    /\ cfg.bg => bgc = LowByte(real) /\ rgb = LowByte(plus)
                    /\ ~cfg.bg => rgb = Palettes[palette][cfg.color] \/ "color" \in drift
  BY DEF ConfigInSync, Quiet
<1> DEFINE x == Firmware
<1>1. Agrees(x)
  BY SyncedQuiet
<1>2. /\ x.mode = mode /\ x.pend = pend /\ x.flagc = flagc /\ x.flagz = flagz
      /\ x.rbstatus = rbstatus /\ x.rm_status = rm_status /\ x.rm_time = rm_time
      /\ x.extend = extend /\ x.numofextend = numofextend /\ x.brightness = brightness
      /\ x.on_background = on_background /\ x.bgc = bgc /\ x.rgb = rgb
  BY DEF Firmware
<1>3. flagc \in BOOLEAN /\ cfg.circle \in BOOLEAN
  BY CarriedIs DEF SyncInv, TypeOK, RingType, HostOK
<1> HIDE DEF x
<1>4. InStep(x) /\ BrightIs(x) /\ (x.rbstatus => "rainbow" \in drift \/ fault # "none")
  BY <1>1 DEF Agrees
<1>5. x.mode = "loop" /\ x.pend = <<>>
  BY <1>4 DEF InStep, Ready
<1>6. flagc = cfg.circle \/ "circle" \in drift
  BY <1>2, <1>3, <1>4 DEF InStep
<1> QED
  BY <1>2, <1>4, <1>5, <1>6 DEF InStep, BrightIs

(* It says enough of the keys, once nothing is on the line. *)
LEMMA SyncFlags ==
  ASSUME SyncInv
  PROVE  FlagsFollowKeys
<1> SUFFICES ASSUME line = <<>>, ~upset, NEW k \in Played
             PROVE  flag[k] = held[k]
  BY DEF FlagsFollowKeys, Quiet
<1> DEFINE x == Firmware
<1>1. Agrees(x)
  <2>1. fault # "now"
    BY DEF SyncInv, HostOK
  <2> QED
    BY <2>1, SyncedQuiet
<1>2. x.flag = flag
  BY DEF Firmware
<1> HIDE DEF x
<1> QED
  BY <1>1, <1>2 DEF Agrees

(* Whenever the program runs and the line is empty, with no fault since    *)
(* the last start() and nothing waiting, the firmware works with the       *)
(* settings of the host, but for the ones in drift, which the code is      *)
(* known to leave behind.                                                  *)
THEOREM SettingsFollowed == Legible => (PianoSpec => []ConfigInSync)
<1> SUFFICES ASSUME Legible PROVE PianoSpec => []ConfigInSync
  OBVIOUS
<1>1. PianoInit => SyncInv
  BY SyncAtFirst
<1>2. SyncInv /\ [PianoNext]_pianoVars => SyncInv'
  BY SyncStep
<1>3. SyncInv => ConfigInSync
  BY SyncConfig
<1> QED
  BY <1>1, <1>2, <1>3, PTL DEF PianoSpec

(* Whenever the line is empty and nothing has upset it since, the          *)
(* firmware's keys are down exactly as they are on the piano.              *)
THEOREM KeysFollowed == Legible => (PianoSpec => []FlagsFollowKeys)
<1> SUFFICES ASSUME Legible PROVE PianoSpec => []FlagsFollowKeys
  OBVIOUS
<1>1. PianoInit => SyncInv
  BY SyncAtFirst
<1>2. SyncInv /\ [PianoNext]_pianoVars => SyncInv'
  BY SyncStep
<1>3. SyncInv => FlagsFollowKeys
  BY SyncFlags
<1> QED
  BY <1>1, <1>2, <1>3, PTL DEF PianoSpec
=============================================================================
