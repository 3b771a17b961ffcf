-------------------------- MODULE LightBarUseProofs --------------------------
(***************************************************************************)
(* Theorems about LightBarUse: under its contract, on a bar of any number  *)
(* of keys and any number of colour channels, with any parameters.         *)
(*                                                                         *)
(* What an LED should show is a sum over the keys that are down.  The      *)
(* first part is what is needed to know of such sums: the library defines  *)
(* them by a recursion over the subsets of a finite set, which takes an    *)
(* element that CHOOSE picks.                                              *)
(***************************************************************************)
EXTENDS LightBarUse, LightBarProofs, FiniteSetTheorems

(* The element FoldFunctionOnSet takes from a set next. *)
Pick(s) == CHOOSE x \in s : TRUE

(* The function FoldFunctionOnSet defines on the subsets of D. *)
Rest(g, f, s) == IF s = {} THEN 0 ELSE f[Pick(s)] + g[s \ {Pick(s)}]
IsSum(g, f, D) == g = [s \in SUBSET D |-> Rest(g, f, s)]

(* The library's sum is that function's value. *)
LEMMA SumDef ==
  ASSUME NEW f, NEW S
  PROVE  SumFunctionOnSet(f, S) = (CHOOSE g : IsSum(g, f, S))[S]
BY DEF SumFunctionOnSet, FoldFunctionOnSet, MapThenFoldSet, IsSum, Rest, Pick

(* Taking an element away makes a finite set smaller. *)
LEMMA Smaller ==
  ASSUME NEW D, IsFiniteSet(D), NEW s \in SUBSET D, s # {}
  PROVE  /\ Pick(s) \in s
         /\ \A x \in s : /\ s \ {x} \in SUBSET D
                         /\ Cardinality(s \ {x}) = Cardinality(s) - 1
         /\ Cardinality(s) \in Nat \ {0}
<1>1. IsFiniteSet(s)
  BY FS_Subset
<1>2. Pick(s) \in s
  BY DEF Pick
<1>3. \A x \in s : Cardinality(s \ {x}) = Cardinality(s) - 1
  BY <1>1, FS_RemoveElement
<1>4. Cardinality(s) \in Nat \ {0}
  BY <1>1, FS_CardinalityType, FS_EmptySet
<1> QED
  BY <1>2, <1>3, <1>4

(* There is such a function, on the subsets of every finite set. *)
LEMMA SumExists ==
  ASSUME NEW D, IsFiniteSet(D), NEW f, \A x \in D : f[x] \in Nat
  PROVE  \E g \in [SUBSET D -> Nat] : IsSum(g, f, D)
<1> DEFINE UpTo(g, n) == \A s \in SUBSET D : Cardinality(s) <= n => g[s] = Rest(g, f, s)
           Bad == {n \in Nat : ~\E g \in [SUBSET D -> Nat] : UpTo(g, n)}
<1>1. ASSUME NEW s \in SUBSET D PROVE IsFiniteSet(s) /\ Cardinality(s) \in Nat
  BY FS_Subset, FS_CardinalityType
<1>2. 0 \notin Bad
  <2> DEFINE g == [s \in SUBSET D |-> 0]
  <2>1. ASSUME NEW s \in SUBSET D, Cardinality(s) <= 0 PROVE g[s] = Rest(g, f, s)
    <3>1. s = {}
      BY <1>1, <2>1, FS_EmptySet
    <3> QED
      BY <3>1 DEF Rest
  <2>2. g \in [SUBSET D -> Nat]
    OBVIOUS
  <2> QED
    BY <2>1, <2>2
<1>3. ASSUME NEW n \in Nat, n \notin Bad PROVE n + 1 \notin Bad
  <2>1. PICK g \in [SUBSET D -> Nat] : UpTo(g, n)
    BY <1>3
  <2> DEFINE h == [s \in SUBSET D |-> IF Cardinality(s) <= n THEN g[s] ELSE Rest(g, f, s)]
  <2>2. ASSUME NEW s \in SUBSET D, s # {}
        PROVE  /\ s \ {Pick(s)} \in SUBSET D /\ f[Pick(s)] \in Nat
               /\ Cardinality(s \ {Pick(s)}) = Cardinality(s) - 1 
    BY <2>2, Smaller
  <2>3. ASSUME NEW s \in SUBSET D PROVE h[s] \in Nat
    BY <2>2 DEF Rest
  <2>4. ASSUME NEW s \in SUBSET D, Cardinality(s) <= n + 1 PROVE h[s] = Rest(h, f, s)
    <3>1. h[s] = Rest(g, f, s)
      BY <2>1
    <3>2. CASE s = {}
      BY <3>1, <3>2 DEF Rest
    <3>3. CASE s # {}
      <4>1. h[s \ {Pick(s)}] = g[s \ {Pick(s)}]
        BY <1>1, <2>2, <2>4, <3>3
      <4> HIDE DEF h
      <4> QED
        BY <3>1, <3>3, <4>1 DEF Rest
    <3> QED
      BY <3>2, <3>3
  <2>5. h \in [SUBSET D -> Nat]
    BY <2>3
  <2> HIDE DEF h
  <2>6. UpTo(h, n + 1)
    BY <2>4
  <2> QED
    BY <2>5, <2>6
<1>4. Bad = {}
  <2> HIDE DEF Bad
  <2> SUFFICES ASSUME Bad # {} PROVE FALSE
    OBVIOUS
  <2>1. PICK n \in Bad : \A k \in Bad : n <= k
    <3>1. Bad \in SUBSET Nat
      BY DEF Bad
    <3> QED
      BY <3>1, Least
  <2>2. n \in Nat
    BY DEF Bad
  <2>3. CASE n = 0
    BY <1>2, <2>1, <2>3
  <2>4. CASE n # 0
    <3>1. n - 1 \in Nat /\ ~(n <= n - 1)
      BY <2>2, <2>4
    <3>2. n - 1 \notin Bad
      BY <2>1, <3>1
    <3>3. (n - 1) + 1 \notin Bad
      BY <1>3, <3>1, <3>2
    <3>4. (n - 1) + 1 = n
      BY <2>2
    <3> QED
      BY <2>1, <3>3, <3>4
  <2> QED
    BY <2>3, <2>4
<1>5. PICK g \in [SUBSET D -> Nat] : UpTo(g, Cardinality(D))
  <2>1. Cardinality(D) \in Nat
    BY FS_CardinalityType
  <2> QED
    BY <1>4, <2>1
<1>6. \A s \in SUBSET D : g[s] = Rest(g, f, s)
  <2>1. ASSUME NEW s \in SUBSET D PROVE Cardinality(s) <= Cardinality(D)
    BY FS_Subset
  <2> QED
    BY <1>5, <2>1
<1> QED
  BY <1>6 DEF IsSum

(* It is the same function on the subsets of a smaller set. *)
LEMMA SumUnique ==
  ASSUME NEW D, IsFiniteSet(D), NEW f, NEW g, IsSum(g, f, D),
         NEW E \in SUBSET D, NEW h, IsSum(h, f, E)
  PROVE  \A s \in SUBSET E : g[s] = h[s]
<1> DEFINE Bad == {s \in SUBSET E : g[s] # h[s]}
           Sizes == {Cardinality(s) : s \in Bad}
<1> SUFFICES ASSUME Bad # {} PROVE FALSE
  OBVIOUS
<1>1. Sizes \in SUBSET Nat /\ Sizes # {}
  <2>1. ASSUME NEW s \in Bad PROVE Cardinality(s) \in Nat
    BY FS_Subset, FS_CardinalityType
  <2> QED
    BY <2>1
<1> HIDE DEF Sizes
<1>2. PICK n \in Sizes : \A k \in Sizes : n <= k
  BY <1>1, Least
<1>3. PICK s \in Bad : n = Cardinality(s)
  BY DEF Sizes
<1>4. s \in SUBSET E /\ s \in SUBSET D /\ g[s] = Rest(g, f, s) /\ h[s] = Rest(h, f, s)
  BY DEF IsSum
<1>5. s # {}
  BY <1>4 DEF Rest
<1> DEFINE t == s \ {Pick(s)}
<1>6. /\ t \in SUBSET E /\ Cardinality(t) = Cardinality(s) - 1
      /\ Cardinality(s) \in Nat \ {0}
  BY <1>4, <1>5, Smaller
<1>7. g[t] = h[t]
  <2> HIDE DEF t
  <2> SUFFICES ASSUME t \in Bad PROVE FALSE
    BY <1>6
  <2>1. Cardinality(s) <= Cardinality(t)
    BY <1>2, <1>3 DEF Sizes
  <2> QED
    BY <1>6, <2>1
<1> QED
  BY <1>3, <1>4, <1>5, <1>7 DEF Rest

(* Which element is taken first does not matter. *)
LEMMA SumAnyFirst ==
  ASSUME NEW D, IsFiniteSet(D), NEW f, \A x \in D : f[x] \in Nat,
         NEW g, IsSum(g, f, D), \A s \in SUBSET D : g[s] \in Nat,
         NEW u \in SUBSET D, NEW z \in u
  PROVE  g[u] = f[z] + g[u \ {z}]
<1> DEFINE Good(s) == \A x \in s : g[s] = f[x] + g[s \ {x}]
           Bad == {s \in SUBSET D : ~Good(s)}
           Sizes == {Cardinality(s) : s \in Bad}
<1> SUFFICES ASSUME Bad # {} PROVE FALSE
  <2>1. u \notin Bad => Good(u)
    OBVIOUS
  <2> QED
    BY <2>1
<1>1. Sizes \in SUBSET Nat /\ Sizes # {}
  <2>1. ASSUME NEW s \in Bad PROVE Cardinality(s) \in Nat
    BY FS_Subset, FS_CardinalityType
  <2> QED
    BY <2>1
<1>2. PICK n \in Sizes : \A k \in Sizes : n <= k
  <2> HIDE DEF Sizes
  <2> QED
    BY <1>1, Least
<1>3. PICK s \in Bad : n = Cardinality(s)
  OBVIOUS
<1>4. \A t \in SUBSET D : Cardinality(t) < Cardinality(s) => Good(t)
  <2> SUFFICES ASSUME NEW t \in Bad, Cardinality(t) < Cardinality(s) PROVE FALSE
    OBVIOUS
  <2>1. Cardinality(s) \in Sizes /\ Cardinality(t) \in Sizes
    OBVIOUS
  <2> HIDE DEF Bad, Sizes
  <2>2. Cardinality(s) <= Cardinality(t)
    BY <1>2, <1>3, <2>1
  <2>3. Cardinality(s) \in Nat /\ Cardinality(t) \in Nat
    BY <1>1, <2>1
  <2> QED
    BY <2>2, <2>3
<1>5. s \in SUBSET D
  OBVIOUS
<1>6. PICK x \in s : g[s] # f[x] + g[s \ {x}]
  OBVIOUS
<1> DEFINE y == Pick(s)
<1>7. /\ y \in s /\ x # y /\ g[s] = f[y] + g[s \ {y}]
      /\ s \ {y} \in SUBSET D /\ Cardinality(s \ {y}) < Cardinality(s)
      /\ s \ {x} \in SUBSET D /\ Cardinality(s \ {x}) < Cardinality(s)
  <2>1. g[s] = f[y] + g[s \ {y}]
    BY <1>5, <1>6 DEF IsSum, Rest
  <2>2. /\ y \in s /\ Cardinality(s) \in Nat
        /\ \A v \in s : s \ {v} \in SUBSET D /\ Cardinality(s \ {v}) = Cardinality(s) - 1
    BY <1>5, <1>6, Smaller
  <2>3. x # y
    BY <1>6, <2>1
  <2> HIDE DEF Bad, Sizes, y
  <2>4. /\ Cardinality(s \ {y}) < Cardinality(s)
        /\ Cardinality(s \ {x}) < Cardinality(s)
    BY <1>6, <2>2
  <2> QED
    BY <1>6, <2>1, <2>2, <2>3, <2>4
<1> HIDE DEF Bad, Sizes, y
<1>8. g[s \ {y}] = f[x] + g[(s \ {y}) \ {x}]
  BY <1>4, <1>6, <1>7
<1>9. g[s \ {x}] = f[y] + g[(s \ {x}) \ {y}]
  BY <1>4, <1>6, <1>7
<1>10. (s \ {y}) \ {x} = (s \ {x}) \ {y} /\ (s \ {x}) \ {y} \in SUBSET D
  BY <1>5
<1>11. f[x] \in Nat /\ f[y] \in Nat /\ g[(s \ {x}) \ {y}] \in Nat
  BY <1>5, <1>6, <1>7, <1>10
<1>12. f[x] + (f[y] + g[(s \ {x}) \ {y}]) = f[y] + (f[x] + g[(s \ {x}) \ {y}])
  BY <1>11
<1>13. g[s] = f[x] + g[s \ {x}]
  BY <1>7, <1>8, <1>9, <1>10, <1>12
<1> QED
  BY <1>6, <1>13

(* A sum over a finite set: of nothing it is 0; any element can be added   *)
(* last.                                                                   *)
LEMMA SumOnSet ==
  ASSUME NEW D, IsFiniteSet(D), NEW f, \A x \in D : f[x] \in Nat
  PROVE  /\ SumFunctionOnSet(f, {}) = 0
         /\ \A s \in SUBSET D :
              /\ SumFunctionOnSet(f, s) \in Nat
              /\ \A x \in s :
                   SumFunctionOnSet(f, s) = f[x] + SumFunctionOnSet(f, s \ {x})
<1>1. PICK g \in [SUBSET D -> Nat] : IsSum(g, f, D)
  BY SumExists
<1>2. ASSUME NEW s \in SUBSET D PROVE SumFunctionOnSet(f, s) = g[s]
  <2> DEFINE h == CHOOSE h : IsSum(h, f, s)
  <2>1. \E k : IsSum(k, f, s)
    <3>1. IsFiniteSet(s) /\ \A x \in s : f[x] \in Nat
      BY FS_Subset
    <3> QED
      BY <3>1, SumExists
  <2>2. IsSum(h, f, s)
    BY <2>1
  <2>3. SumFunctionOnSet(f, s) = h[s]
    BY SumDef
  <2> HIDE DEF h
  <2>4. g[s] = h[s]
    BY <1>1, <2>2, SumUnique
  <2> QED
    BY <2>3, <2>4
<1>3. g[{}] = 0
  BY <1>1 DEF IsSum, Rest
<1>4. \A s \in SUBSET D : \A x \in s : g[s] = f[x] + g[s \ {x}]
  <2>1. \A s \in SUBSET D : g[s] \in Nat
    BY <1>1
  <2>2. IsSum(g, f, D)
    BY <1>1
  <2>3. ASSUME NEW s \in SUBSET D, NEW x \in s PROVE g[s] = f[x] + g[s \ {x}]
    BY <2>1, <2>2, SumAnyFirst
  <2> QED
    BY <2>3
<1>5. \A s \in SUBSET D : \A x \in s : s \ {x} \in SUBSET D
  OBVIOUS
<1>6. {} \in SUBSET D
  OBVIOUS
<1>7. \A s \in SUBSET D : g[s] \in Nat
  BY <1>1
<1> QED
  BY <1>2, <1>3, <1>4, <1>5, <1>6, <1>7

-----------------------------------------------------------------------------
(* The bar, its keys and their light. *)

(* The bar's LEDs are none of the end LEDs and of the circle. *)
LEMMA Places ==
  /\ Played \subseteq Keys /\ IsFiniteSet(Played) /\ Bar \subseteq Leds
  /\ \A l \in Bar : /\ KeyOf(l) \in Keys /\ l \notin Ends /\ l \in 1..(NumLeds - 2)
                    /\ l <= RingBase
<1>1. /\ NumKeys \in Nat \ {0} /\ NumLeds \in Nat /\ RingBase \in Nat /\ RingLen \in Nat \ {0}
      /\ 2 * NumKeys + 1 <= RingBase /\ RingBase + RingLen < NumLeds
  BY LightBarAssumption
<1>2. Played \subseteq Keys /\ IsFiniteSet(Played)
  <2>1. IsFiniteSet(2..(NumKeys - 1))
    BY <1>1, FS_Interval
  <2> QED
    BY <1>1, <2>1 DEF Played, Keys
<1>3. ASSUME NEW l \in Bar
      PROVE  /\ l \in Nat /\ l >= 1 /\ l <= 2 * NumKeys
             /\ KeyOf(l) \in Keys /\ l \in Leds
             /\ l \notin Ends /\ l \in 1..(NumLeds - 2) /\ l <= RingBase
  <2>1. l \in Nat /\ l >= 1 /\ l <= 2 * NumKeys
    BY <1>1 DEF Bar
  <2>2. KeyOf(l) \in Keys
    BY <1>1, <2>1 DEF KeyOf, Keys
  <2> QED
    BY <1>1, <2>1, <2>2 DEF Leds, Ends
<1> QED
  BY <1>2, <1>3

(* Reach is negative for the two LEDs of a key, and only for them. *)
LEMMA OwnLeds ==
  ASSUME NEW l \in Bar, NEW k \in Keys
  PROVE  Reach(k, l) < 0 <=> KeyOf(l) = k
<1>1. l \in Int /\ k \in Int
  BY LightBarAssumption DEF Bar, Keys
<1> QED
  BY <1>1 DEF Reach, KeyOf

(* Its own two LEDs get all of its colour. *)
LEMMA OwnGlow ==
  ASSUME NEW l \in Bar, NEW k \in Keys, KeyOf(l) = k
  PROVE  Glow(k, l) = rgb
BY OwnLeds DEF Glow

(* The light of a key on an LED is a byte in each channel. *)
LEMMA GlowByte ==
  ASSUME TypeOK, NEW l \in Bar, NEW k \in Keys, NEW ch \in Channels
  PROVE  Glow(k, l)[ch] \in Byte
<1>1. Glow(k, l) \in Color
  BY GlowType, Places
<1> QED
  BY <1>1 DEF Color

(* Sums of the keys' light on an LED. *)
LEMMA LightSum ==
  ASSUME TypeOK, NEW l \in Bar, NEW ch \in Channels
  PROVE  \A H \in SUBSET Played :
           /\ SumFunctionOnSet(Light(l, ch), H) \in Nat
           /\ \A k \in H : SumFunctionOnSet(Light(l, ch), H) =
                             Glow(k, l)[ch] + SumFunctionOnSet(Light(l, ch), H \ {k})
<1>1. \A k \in Played : Light(l, ch)[k] = Glow(k, l)[ch] /\ Light(l, ch)[k] \in Nat
  BY GlowByte, Places DEF Light, Byte
<1> QED
  BY <1>1, Places, SumOnSet

(* A sum over no key. *)
LEMMA EmptySum == \A f : SumFunctionOnSet(f, {}) = 0
<1> SUFFICES ASSUME NEW f PROVE SumFunctionOnSet(f, {}) = 0
  OBVIOUS
<1>1. IsFiniteSet({}) /\ \A x \in {} : f[x] \in Nat
  BY FS_EmptySet
<1> QED
  BY <1>1, SumOnSet

(* What an LED should show is a number, and no less than the background. *)
LEMMA ShownType ==
  ASSUME TypeOK, NEW l \in Bar, NEW ch \in Channels
  PROVE  /\ Background \in Color /\ Background[ch] \in Byte
         /\ Shown(l, ch) \in Nat /\ Background[ch] <= Shown(l, ch)
         /\ leds[l] \in Color /\ leds[l][ch] \in Byte
         /\ rm_times[KeyOf(l)] \in Char
<1>1. Background \in Color /\ leds[l] \in Color
  BY BlackType, Places DEF TypeOK, ColorsType, Background
<1>2. Background[ch] \in Byte /\ leds[l][ch] \in Byte
  BY <1>1 DEF Color
<1>3. SumFunctionOnSet(Light(l, ch), Down) \in Nat
  BY LightSum DEF Down
<1>4. Shown(l, ch) \in Nat /\ Background[ch] <= Shown(l, ch)
  BY <1>2, <1>3 DEF Shown, Byte
<1>5. rm_times[KeyOf(l)] \in Char
  BY Places DEF TypeOK, RemainType
<1> QED
  BY <1>1, <1>2, <1>4, <1>5

(* It changes with the colours, the extension and the keys only. *)
LEMMA ShownKept ==
  ASSUME UNCHANGED <<rgb, bgc, extend, numofextend, flag, on_background>>,
         NEW l \in Bar, NEW ch \in Channels
  PROVE  Shown(l, ch)' = Shown(l, ch)
<1>1. Light(l, ch)' = Light(l, ch)
  BY DEF Light, Glow, Share
<1>2. Down' = Down /\ Background' = Background
  BY DEF Down, Background
<1> QED
  BY <1>1, <1>2 DEF Shown

(* With no key down it is the background. *)
LEMMA ShownAtRest ==
  ASSUME TypeOK, NEW l \in Bar, NEW ch \in Channels, \A k \in Keys : ~flag[k]
  PROVE  Shown(l, ch) = Background[ch]
<1>1. Down = {}
  BY Places DEF Down
<1>2. Background[ch] \in Nat
  BY ShownType DEF Byte
<1> QED
  BY <1>1, <1>2, EmptySum DEF Shown

(* A key that goes down adds its light to it. *)
LEMMA ShownPress ==
  ASSUME TypeOK, NEW l \in Bar, NEW ch \in Channels, NEW k \in Played,
         UNCHANGED <<rgb, bgc, extend, numofextend, on_background>>,
         ~flag[k], flag' = [flag EXCEPT ![k] = TRUE]
  PROVE  Shown(l, ch)' = Shown(l, ch) + Glow(k, l)[ch]
<1>1. Light(l, ch)' = Light(l, ch)
  BY DEF Light, Glow, Share
<1>2. Down' \in SUBSET Played /\ k \in Down' /\ Down' \ {k} = Down
  BY Places DEF TypeOK, SwitchType, Down
<1>3. Background' = Background
  BY DEF Background
<1>4. SumFunctionOnSet(Light(l, ch), Down') =
        Glow(k, l)[ch] + SumFunctionOnSet(Light(l, ch), Down)
  BY <1>2, LightSum
<1>5. /\ SumFunctionOnSet(Light(l, ch), Down) \in Nat /\ Background[ch] \in Nat
      /\ Glow(k, l)[ch] \in Nat
  <2>1. Glow(k, l)[ch] \in Byte
    BY GlowByte, Places
  <2>2. SumFunctionOnSet(Light(l, ch), Down) \in Nat
    BY LightSum DEF Down
  <2> QED
    BY <2>1, <2>2, ShownType DEF Byte
<1> QED
  BY <1>1, <1>3, <1>4, <1>5 DEF Shown

(* A key that goes up takes its light from it. *)
LEMMA ShownRelease ==
  ASSUME TypeOK, NEW l \in Bar, NEW ch \in Channels, NEW k \in Played,
         UNCHANGED <<rgb, bgc, extend, numofextend, on_background>>,
         flag[k], flag' = [flag EXCEPT ![k] = FALSE]
  PROVE  /\ Shown(l, ch) = Shown(l, ch)' + Glow(k, l)[ch]
         /\ Shown(l, ch)' \in Nat
<1>1. Light(l, ch)' = Light(l, ch)
  BY DEF Light, Glow, Share
<1>2. Down \in SUBSET Played /\ k \in Down /\ Down' = Down \ {k}
  BY Places DEF TypeOK, SwitchType, Down
<1>3. Background' = Background
  BY DEF Background
<1>4. SumFunctionOnSet(Light(l, ch), Down) =
        Glow(k, l)[ch] + SumFunctionOnSet(Light(l, ch), Down')
  BY <1>2, LightSum
<1>5. /\ SumFunctionOnSet(Light(l, ch), Down') \in Nat /\ Background[ch] \in Nat
      /\ Glow(k, l)[ch] \in Nat
  <2>1. Glow(k, l)[ch] \in Byte
    BY GlowByte, Places
  <2>2. Down' \in SUBSET Played
    BY <1>2
  <2>3. SumFunctionOnSet(Light(l, ch), Down') \in Nat
    BY <2>2, LightSum
  <2> QED
    BY <2>1, <2>3, ShownType DEF Byte
<1> QED
  BY <1>1, <1>3, <1>4, <1>5 DEF Shown

-----------------------------------------------------------------------------
(* The inductive invariant. *)

(* What the contract keeps in range. *)
Ranges ==
  /\ \A ch \in Channels : rgb[ch] < 255
  /\ rm_status => rm_time > 0
  /\ \A k \in Keys :
       rm_times[k] \in 0..MaxTicks /\ (rm_time = 0 => rm_times[k] = 0)

(* The contract is checked with the first byte of a command, and the        *)
(* command is carried out with the last.                                   *)
Underway ==
  pend # <<>> =>
    /\ pend[1] \in {Cmd.color, Cmd.extendOn, Cmd.remainOn, Cmd.backOn} => Settled
    /\ pend[1] = Cmd.color => \A i \in 2..Len(pend) : pend[i] \in Levels
    /\ pend[1] = Cmd.backOn => ~on_background

(* The rainbow and setup() find the bar at rest. *)
AtRest ==
  /\ rbstatus => Settled
  /\ mode = "setup" => /\ ~on_background /\ \A k \in Keys : ~flag[k]
                       /\ \A l \in Bar : leds[l] = Black

UseInv == TypeOK /\ Ranges /\ Underway /\ AtRest /\ BarIsSumOfHeld /\ FadeCovers

-----------------------------------------------------------------------------
(* What the contract says of the byte that completes a command. *)

(* The commands that read no parameters. *)
LEMMA NoParameters ==
  /\ \A c \in {Cmd.clear, Cmd.circleOff, Cmd.circleOn, Cmd.endsOn, Cmd.rainbowOff,
               Cmd.endsOff, Cmd.remainOff, Cmd.extendOff, Cmd.backOff, Cmd.reset} :
       Arity(c) = 0
  /\ \A c : c \notin Returning => Arity(c) = 0
  /\ \A c \in Played : c \notin Returning /\ Arity(c) = 0
  /\ \A c \in {Cmd.color, Cmd.backOn, Cmd.extendOn, Cmd.remainOn} : Arity(c) > 0
<1>1. NumKeys \in Nat \ {0} /\ NumChannels \in Nat \ {0}
  BY LightBarAssumption
<1>2. \A c \in {Cmd.clear, Cmd.circleOff, Cmd.circleOn, Cmd.endsOn, Cmd.rainbowOff,
                Cmd.endsOff, Cmd.remainOff, Cmd.extendOff, Cmd.backOff, Cmd.reset} :
        c \notin {Cmd.color, Cmd.backOn} \cup {Cmd.bright, Cmd.extendOn, Cmd.remainOn}
  BY <1>1 DEF Cmd
<1>3. \A c : c \notin Returning => Arity(c) = 0
  BY DEF Returning, Arity
<1>4. \A c \in Played : c \notin Returning
  BY <1>1 DEF Played, Returning, Cmd
<1>5. \A c \in {Cmd.color, Cmd.backOn, Cmd.extendOn, Cmd.remainOn} : Arity(c) > 0
  BY <1>1 DEF Arity
<1> QED
  BY <1>2, <1>3, <1>4, <1>5 DEF Arity

(* Such a command is the byte just read, and the contract is about it. *)
LEMMA Alone ==
  ASSUME TypeOK, NEW b, NEW c, Considerate(b), Received(c, b), Arity(c) = 0
  PROVE  pend = <<>> /\ b = c /\ GoodCommand(b)
<1>1. mode = "loop" /\ Len(pend) = 0 /\ pend \in Seq(Byte)
  BY DEF Received, TypeOK, ParserType
<1>2. pend = <<>>
  BY <1>1
<1>3. b = c
  BY <1>2 DEF Received, Message
<1> QED
  BY <1>1, <1>2, <1>3 DEF Considerate

(* The others were begun as the contract wants it. *)
LEMMA Begun ==
  ASSUME UseInv, NEW b, Considerate(b),
         NEW c \in {Cmd.color, Cmd.backOn, Cmd.extendOn, Cmd.remainOn}, Received(c, b)
  PROVE  /\ pend # <<>> /\ pend[1] = c /\ Settled /\ GoodParameter(b)
         /\ c = Cmd.backOn => ~on_background
<1>1. mode = "loop" /\ Len(pend) = Arity(c) /\ pend \in Seq(Byte) /\ Append(pend, b)[1] = c
  BY DEF Received, Message, UseInv, TypeOK, ParserType
<1>2. Arity(c) > 0 /\ Arity(c) \in Nat
  BY NoParameters, Arities
<1>3. pend # <<>>
  BY <1>1, <1>2
<1>4. pend[1] = c
  BY <1>1, <1>3
<1>5. GoodParameter(b)
  BY <1>1, <1>3 DEF Considerate
<1> QED
  BY <1>3, <1>4, <1>5 DEF UseInv, Underway

-----------------------------------------------------------------------------
(* Ranges, Underway and AtRest. *)

(* The colour of a command that the contract allows. *)
LEMMA ColorInRange ==
  ASSUME UseInv, NEW b \in Byte, Considerate(b), SetColor(b)
  PROVE  \A ch \in Channels : Params(b)[ch] < 255
<1>1. /\ pend \in Seq(Byte) /\ Len(pend) = NumChannels /\ NumChannels \in Nat
      /\ pend # <<>> /\ pend[1] = Cmd.color /\ GoodParameter(b) /\ Received(Cmd.color, b)
  BY Begun, Arities DEF SetColor, Received, UseInv, TypeOK, ParserType
<1>2. b \in Levels /\ \A i \in 2..Len(pend) : pend[i] \in Levels
  <2>1. Cmd.color \notin {Cmd.extendOn, Cmd.remainOn}
    BY LightBarAssumption DEF Cmd
  <2>2. b \in Levels
    BY <1>1, <2>1 DEF GoodParameter
  <2> QED
    BY <1>1, <2>2 DEF UseInv, Underway
<1>3. \A n \in Levels : n < 255
  BY UseAssumption, LightBarAssumption DEF Byte
<1>4. ASSUME NEW ch \in Channels PROVE Append(pend, b)[ch + 1] \in Levels
  <2>1. ch \in Nat /\ 1 <= ch /\ ch <= NumChannels
    BY <1>1, <1>4 DEF Channels
  <2>2. CASE ch + 1 <= Len(pend)
    <3>1. ch + 1 \in 1..Len(pend) /\ ch + 1 \in 2..Len(pend)
      BY <1>1, <2>1, <2>2
    <3>2. Append(pend, b)[ch + 1] = pend[ch + 1]
      BY <1>1, <3>1
    <3> QED
      BY <1>2, <3>1, <3>2
  <2>3. CASE ch + 1 = Len(pend) + 1
    BY <1>1, <1>2, <2>1, <2>3
  <2> QED
    BY <1>1, <2>1, <2>2, <2>3
<1> QED
  BY <1>3, <1>4 DEF Params, Message

(* A key's ticks stay in the range of a char. *)
LEMMA TicksAdd ==
  ASSUME UseInv, NEW b, Considerate(b), Release(b), rm_status
  PROVE  /\ b \in Keys /\ rm_time \in Nat
         /\ ToChar(rm_times[b] + rm_time) = rm_times[b] + rm_time
         /\ rm_times[b] + rm_time \in 0..MaxTicks
<1>1. GoodCommand(b) /\ b \in Played /\ flag[b] /\ ~rbstatus
  BY Alone, NoParameters DEF Release, UseInv
<1>2. b \in Keys /\ rm_time \in Byte /\ rm_times[b] \in 0..MaxTicks /\ MaxTicks \in 0..127
  BY <1>1, Places, UseAssumption DEF UseInv, TypeOK, RemainType, Ranges
<1>3. rm_times[b] + rm_time <= MaxTicks
  BY <1>1 DEF GoodCommand, InRange
<1> QED
  BY <1>2, <1>3 DEF ToChar, Byte

(* Remaining is only switched on with a time. *)
LEMMA RemainTimes ==
  ASSUME UseInv, NEW b \in Inputs, Considerate(b), RemainOn(b)
  PROVE  b > 0 /\ rm_time' = b
<1>1. GoodParameter(b) /\ pend[1] = Cmd.remainOn
  BY Begun DEF RemainOn
<1>2. Cmd.remainOn \notin {Cmd.color, Cmd.backOn} /\ Cmd.remainOn # Cmd.extendOn
  BY LightBarAssumption DEF Cmd
<1>3. b \in Times
  BY <1>1, <1>2 DEF GoodParameter
<1>4. b \in Nat /\ b # 0
  BY <1>3, UseAssumption, LightBarAssumption DEF Byte
<1> QED
  BY <1>4 DEF RemainOn

(* No byte that the contract allows leaves the ranges. *)
LEMMA RangesStep ==
  ASSUME UseInv, NEW b \in Inputs, Considerate(b), Receive(b)
  PROVE  Ranges'
<1>0. Ranges /\ b \in Byte /\ MaxTicks \in Nat
      /\ \A k \in Keys : rm_times[k] \in 0..MaxTicks
  BY LightBarAssumption, UseAssumption DEF UseInv, Ranges
<1>1. CASE UNCHANGED <<rgb, rm_status, rm_time, rm_times>>
  BY <1>0, <1>1 DEF Ranges
<1>2. CASE SetupDone(b)
  <2>1. \A ch \in Channels : FirstColor[ch] < 255
    BY UseAssumption, LightBarAssumption DEF Color, Byte
  <2> QED
    BY <1>0, <1>2, <2>1 DEF SetupDone, remain, Ranges
<1>3. CASE SetColor(b)
  BY <1>0, <1>3, ColorInRange DEF SetColor, remain, Ranges
<1>4. CASE RemainOn(b)
  <2>1. Settled
    BY <1>4, Begun DEF RemainOn
  <2>2. b > 0
    BY <1>4, RemainTimes
  <2>3. /\ rgb' = rgb /\ rm_time' = b /\ rm_times' = rm_times
        /\ \A k \in Keys : rm_times[k] = 0
    BY <1>4, <2>1 DEF RemainOn, colors, Settled
  <2> QED
    BY <1>0, <2>2, <2>3 DEF Ranges
<1>5. CASE RemainOff(b)
  BY <1>0, <1>5 DEF RemainOff, colors, Ranges
<1>6. CASE RemainTick(b)
  <2>1. ASSUME NEW k \in Keys
        PROVE  rm_times'[k] \in 0..MaxTicks /\ (rm_time = 0 => rm_times'[k] = 0)
    <3>1. rm_times[k] \in 0..MaxTicks /\ (rm_time = 0 => rm_times[k] = 0)
      BY <1>0 DEF Ranges
    <3>2. rm_times'[k] = IF rm_times[k] > 0 THEN rm_times[k] - 1 ELSE rm_times[k]
      BY <1>6 DEF RemainTick
    <3> QED
      BY <1>0, <3>1, <3>2
  <2>2. UNCHANGED <<rgb, rm_status, rm_time>>
    BY <1>6 DEF RemainTick, colors
  <2> QED
    BY <1>0, <2>1, <2>2 DEF Ranges
<1>7. CASE Release(b)
  <2>1. UNCHANGED <<rgb, rm_status, rm_time>>
    BY <1>7 DEF Release, colors
  <2>2. CASE ~rm_status
    BY <1>0, <1>7, <2>1, <2>2 DEF Release, Ranges
  <2>3. CASE rm_status
    <3>1. /\ rm_times' = [rm_times EXCEPT ![b] = rm_times[b] + rm_time]
          /\ rm_times[b] + rm_time \in 0..MaxTicks /\ rm_times \in [Keys -> Char]
          /\ rm_time > 0
      BY <1>0, <1>7, <2>3, TicksAdd DEF Release, UseInv, TypeOK, RemainType, Ranges
    <3>2. rm_time # 0
      BY <1>0, <3>1
    <3>3. \A k \in Keys : rm_times'[k] \in 0..MaxTicks
      BY <1>0, <3>1
    <3> QED
      BY <1>0, <2>1, <3>2, <3>3 DEF Ranges
  <2> QED
    BY <2>2, <2>3
<1> QED
  BY <1>1, <1>2, <1>3, <1>4, <1>5, <1>6, <1>7
     DEF Receive, SetupReset, SetupWait, Gather, ClearAll, CircleOff, CircleOn, EndsOff,
         EndsOn, SetBrightness, ExtendOn, ExtendOff, BackgroundOn, BackgroundOff,
         RainbowFrame, RainbowOff, Press, Ignore, vars, colors, remain

(* A command is begun as the contract wants it, and nothing comes between. *)
LEMMA UnderwayStep ==
  ASSUME UseInv, NEW b \in Inputs, Considerate(b), Receive(b)
  PROVE  Underway'
<1>0. b \in Byte /\ Underway /\ pend \in Seq(Byte) /\ (pend # <<>> => mode = "loop")
  BY LightBarAssumption DEF UseInv, TypeOK, ParserType
<1>1. CASE pend' = <<>>
  BY <1>1 DEF Underway
<1>2. CASE UNCHANGED vars
  BY <1>0, <1>2 DEF Underway, Settled, vars, parser, remain
<1>3. CASE SetupDone(b)
  BY <1>0, <1>1, <1>3 DEF SetupDone
<1>4. CASE Gather(b)
  <2>1. /\ mode = "loop" /\ pend' = Append(pend, b)
        /\ UNCHANGED <<flag, rm_times, on_background>>
    BY <1>4 DEF Gather, Message, remain
  <2>2. CASE pend = <<>>
    <3>1. GoodCommand(b) /\ pend'[1] = b /\ Len(pend') = 1
      BY <2>1, <2>2 DEF Considerate
    <3>2. \A i \in 2..Len(pend') : FALSE
      BY <3>1
    <3> QED
      BY <2>1, <3>1, <3>2 DEF Underway, GoodCommand, Settled
  <2>3. CASE pend # <<>>
    <3>1. /\ GoodParameter(b) /\ pend'[1] = pend[1] /\ Len(pend') = Len(pend) + 1
          /\ Len(pend) \in Nat
          /\ \A i \in 1..Len(pend) : pend'[i] = pend[i]
          /\ pend'[Len(pend) + 1] = b
      BY <1>0, <2>1, <2>3 DEF Considerate
    <3>2. ASSUME pend[1] = Cmd.color, NEW i \in 2..Len(pend') PROVE pend'[i] \in Levels
      <4>1. Cmd.color \notin {Cmd.extendOn, Cmd.remainOn}
        BY LightBarAssumption DEF Cmd
      <4>2. b \in Levels
        BY <3>1, <3>2, <4>1 DEF GoodParameter
      <4>3. i \in 2..Len(pend) \/ i = Len(pend) + 1
        BY <3>1
      <4>4. CASE i \in 2..Len(pend)
        <5>1. i \in 1..Len(pend) /\ pend[i] \in Levels
          BY <1>0, <2>3, <3>1, <3>2, <4>4 DEF Underway
        <5> QED
          BY <3>1, <5>1
      <4> QED
        BY <3>1, <4>2, <4>3, <4>4
    <3> QED
      BY <1>0, <2>1, <2>3, <3>1, <3>2 DEF Underway, Settled
  <2> QED
    BY <2>2, <2>3
<1> QED
  BY <1>1, <1>2, <1>3, <1>4
     DEF Receive, Received, SetupReset, SetupWait, ClearAll, CircleOff, CircleOn, SetColor,
         EndsOff, EndsOn, SetBrightness, ExtendOn, ExtendOff, RemainOn, RemainOff,
         BackgroundOn, BackgroundOff, RainbowFrame, RainbowOff, RemainTick, Press,
         Release, Ignore

(* The rainbow starts on a bar at rest, and keys and ticks pass it by;     *)
(* setup() blacks out a bar whose background is off.                       *)
LEMMA AtRestStep ==
  ASSUME UseInv, NEW b \in Inputs, Considerate(b), Receive(b)
  PROVE  AtRest'
<1>0. AtRest /\ TypeOK /\ b \in Byte
  BY LightBarAssumption DEF UseInv
<1>1. CASE UNCHANGED vars
  BY <1>0, <1>1 DEF AtRest, Settled, vars, parser, remain
<1>2. CASE UNCHANGED <<mode, flag, rbstatus, rm_times>> /\ mode = "loop"
  BY <1>0, <1>2 DEF AtRest, Settled
<1>3. CASE SetupReset(b)
  <2>1. GoodCommand(b) /\ b = Cmd.reset
    BY <1>0, <1>3, Alone, NoParameters DEF SetupReset
  <2>2. ~on_background
    BY <2>1 DEF GoodCommand
  <2>3. \A l \in Bar : leds'[l] = Black
    BY <1>3, Places DEF SetupReset, Paint
  <2>4. UNCHANGED <<rbstatus, rm_times, on_background>> /\ \A k \in Keys : ~flag'[k]
    BY <1>3 DEF SetupReset, remain
  <2> QED
    BY <1>0, <2>2, <2>3, <2>4 DEF AtRest, Settled
<1>4. CASE SetupDone(b)
  BY <1>0, <1>4 DEF SetupDone, AtRest, Settled, remain
<1>5. CASE ClearAll(b)
  <2>1. UNCHANGED <<rbstatus, rm_times, mode>> /\ mode = "loop" /\ \A k \in Keys : ~flag'[k]
    BY <1>5 DEF ClearAll, Received, remain
  <2> QED
    BY <1>0, <2>1 DEF AtRest, Settled
<1>6. CASE RainbowFrame(b)
  <2>1. GoodCommand(b) /\ (rbstatus \/ b = Cmd.rainbowOn)
    BY <1>0, <1>6, Alone, NoParameters DEF RainbowFrame
  <2>2. Settled
    BY <1>0, <2>1 DEF GoodCommand, AtRest
  <2>3. UNCHANGED <<flag, rm_times, mode>> /\ mode = "loop"
    BY <1>6 DEF RainbowFrame, Received, remain
  <2> QED
    BY <2>2, <2>3 DEF AtRest, Settled
<1>7. CASE RainbowOff(b)
  BY <1>7 DEF RainbowOff, Received, AtRest
<1>8. CASE RemainTick(b) \/ Press(b) \/ Release(b)
  <2>1. ~rbstatus /\ UNCHANGED <<rbstatus, mode>> /\ mode = "loop"
    BY <1>8 DEF RemainTick, Press, Release, Received
  <2> QED
    BY <2>1 DEF AtRest
<1> QED
  BY <1>1, <1>2, <1>3, <1>4, <1>5, <1>6, <1>7, <1>8
     DEF Receive, Received, SetupWait, Gather, CircleOff, CircleOn, SetColor,
         EndsOff, EndsOn, SetBrightness, ExtendOn, ExtendOff, RemainOn, RemainOff,
         BackgroundOn, BackgroundOff, Ignore, remain

-----------------------------------------------------------------------------
(* What the bar shows: steps that move no light. *)

BarInv  == BarIsSumOfHeld /\ FadeCovers
BarSame == \A l \in Bar : leds'[l] = leds[l]

(* Numbers, in the state before a step and in the one after it. *)
BarTypes ==
  /\ \A ch \in Channels : Fade[ch] \in Nat
  /\ \A l \in Bar, ch \in Channels :
       /\ Shown(l, ch) \in Nat /\ Background[ch] \in Nat
       /\ Background[ch] <= Shown(l, ch)
       /\ (\A k \in Keys : ~flag[k]) => Shown(l, ch) = Background[ch]

(* The types of the numbers the two properties compare. *)
LEMMA BarTypesHold == TypeOK => BarTypes
<1> SUFFICES ASSUME TypeOK PROVE BarTypes
  OBVIOUS
<1>1. \A ch \in Channels : Fade[ch] \in Nat
  BY FadeType DEF Color, Byte
<1>2. ASSUME NEW l \in Bar, NEW ch \in Channels
      PROVE  /\ Shown(l, ch) \in Nat /\ Background[ch] \in Nat
             /\ Background[ch] <= Shown(l, ch)
             /\ (\A k \in Keys : ~flag[k]) => Shown(l, ch) = Background[ch]
  BY ShownType, ShownAtRest DEF Byte
<1> QED
  BY <1>1, <1>2 DEF BarTypes

(* The same after a step. *)
LEMMA BarTypesNext == (TypeOK => BarTypes)'
BY BarTypesHold, PTL

(* Painting LEDs that are off the bar. *)
LEMMA Elsewhere ==
  ASSUME NEW S, NEW c, S \cap Bar = {}, leds' = Paint(S, c)
  PROVE  BarSame
BY Places DEF BarSame, Paint

(* Nothing happens to the bar, or to what it should show. *)
LEMMA BarKept ==
  ASSUME BarInv, BarSame,
         UNCHANGED <<rgb, bgc, extend, numofextend, flag, on_background, rm_time,
                     rm_times, rbstatus>>
  PROVE  BarInv'
<1>1. ASSUME NEW l \in Bar, NEW ch \in Channels
      PROVE  Shown(l, ch)' = Shown(l, ch) /\ leds'[l] = leds[l]
  BY ShownKept DEF BarSame
<1>2. Fade' = Fade
  BY DEF Fade
<1>3. BarIsSumOfHeld'
  BY <1>1 DEF BarInv, BarIsSumOfHeld
<1>4. FadeCovers'
  BY <1>1, <1>2 DEF BarInv, FadeCovers
<1> QED
  BY <1>3, <1>4 DEF BarInv

(* At rest, an LED shows no more than the background. *)
LEMMA BarAtRest ==
  ASSUME TypeOK, BarInv, Settled, ~rbstatus
  PROVE  \A l \in Bar, ch \in Channels :
           leds[l][ch] <= Background[ch] /\ (rm_time = 0 => leds[l][ch] = Background[ch])
<1> SUFFICES ASSUME NEW l \in Bar, NEW ch \in Channels
             PROVE  /\ leds[l][ch] <= Background[ch]
                    /\ rm_time = 0 => leds[l][ch] = Background[ch]
  OBVIOUS
<1>1. /\ Shown(l, ch) = Background[ch] /\ Fade[ch] \in Nat /\ Background[ch] \in Nat
      /\ leds[l][ch] \in Byte /\ rm_times[KeyOf(l)] = 0
  BY BarTypesHold, ShownType, Places DEF BarTypes, Settled
<1>2. leds[l][ch] <= Shown(l, ch) + rm_times[KeyOf(l)] * Fade[ch]
  BY DEF BarInv, FadeCovers
<1>3. rm_times[KeyOf(l)] * Fade[ch] = 0
  BY <1>1
<1>4. rm_time = 0 => leds[l][ch] = Shown(l, ch)
  BY DEF BarInv, BarIsSumOfHeld
<1> QED
  BY <1>1, <1>2, <1>3, <1>4 DEF Byte

(* No key is down or fading: how keys are lit may change. *)
LEMMA BarSettled ==
  ASSUME TypeOK, TypeOK', BarInv, Settled, BarSame, rm_time' = 0 => rm_time = 0,
         UNCHANGED <<bgc, flag, on_background, rm_times, rbstatus>>
  PROVE  BarInv'
<1> SUFFICES ASSUME ~rbstatus PROVE BarInv'
  BY DEF BarInv, BarIsSumOfHeld, FadeCovers
<1> SUFFICES ASSUME NEW l \in Bar, NEW ch \in Channels
             PROVE  /\ rm_time' = 0 => leds'[l][ch] = Shown(l, ch)'
                    /\ leds'[l][ch] <= Shown(l, ch)' + rm_times'[KeyOf(l)] * Fade'[ch]
  BY DEF BarInv, BarIsSumOfHeld, FadeCovers
<1>1. /\ leds'[l][ch] <= Background[ch]
      /\ rm_time' = 0 => leds'[l][ch] = Background[ch]
  BY BarAtRest DEF BarSame
<1>2. Shown(l, ch)' = Background'[ch] /\ Fade'[ch] \in Nat
  BY BarTypesNext DEF BarTypes, Settled
<1>3. Background' = Background /\ Background[ch] \in Nat
  BY BarTypesHold DEF BarTypes, Background
<1>4. rm_times'[KeyOf(l)] = 0
  BY Places DEF Settled
<1>5. rm_times'[KeyOf(l)] * Fade'[ch] = 0
  BY <1>2, <1>4
<1> QED
  BY <1>1, <1>2, <1>3, <1>5

(* With no key down, the bar shows just the background. *)
LEMMA BarPlain ==
  ASSUME TypeOK', Ranges', \A k \in Keys : ~flag'[k],
         \A l \in Bar, ch \in Channels : leds'[l][ch] = Background'[ch]
  PROVE  BarInv'
<1> SUFFICES ASSUME NEW l \in Bar, NEW ch \in Channels
             PROVE  /\ leds'[l][ch] = Shown(l, ch)'
                    /\ leds'[l][ch] <= Shown(l, ch)' + rm_times'[KeyOf(l)] * Fade'[ch]
  BY DEF BarInv, BarIsSumOfHeld, FadeCovers
<1>1. Shown(l, ch)' = Background'[ch] /\ Fade'[ch] \in Nat /\ Background'[ch] \in Nat
  BY BarTypesNext DEF BarTypes
<1>2. rm_times'[KeyOf(l)] \in Nat
  BY Places, UseAssumption DEF Ranges
<1>3. rm_times'[KeyOf(l)] * Fade'[ch] \in Nat
  BY <1>1, <1>2
<1> QED
  BY <1>1, <1>3

(* The bar is blacked out. *)
LEMMA BarDark ==
  ASSUME TypeOK', Ranges', \A l \in Bar : leds'[l] = Black,
         ~on_background', \A k \in Keys : ~flag'[k]
  PROVE  BarInv'
<1>1. \A l \in Bar, ch \in Channels : leds'[l][ch] = Background'[ch]
  BY DEF Background, Black
<1> QED
  BY <1>1, BarPlain

(* Taking as much as there is, or more, leaves nothing. *)
LEMMA AllTaken ==
  ASSUME NEW x \in Byte, NEW y \in Byte, x <= y
  PROVE  qsub8(x, y) = 0
BY DEF qsub8, Byte

(* The background is switched on, when it is off; or off, also then. *)
LEMMA BackgroundStep ==
  ASSUME UseInv, TypeOK', Ranges', NEW b \in Byte, Considerate(b),
         BackgroundOn(b) \/ BackgroundOff(b)
  PROVE  BarInv'
<1>0. TypeOK /\ BarInv /\ UNCHANGED <<flag, rbstatus>>
  BY DEF UseInv, BarInv, BackgroundOn, BackgroundOff
<1> SUFFICES ASSUME ~rbstatus PROVE BarInv'
  BY <1>0 DEF BarInv, BarIsSumOfHeld, FadeCovers
<1>1. Settled /\ (BackgroundOn(b) => ~on_background)
  <2>1. CASE BackgroundOn(b)
    BY <2>1, Begun DEF BackgroundOn
  <2>2. CASE BackgroundOff(b)
    <3>1. GoodCommand(b) /\ b = Cmd.backOff /\ Cmd.backOff # Cmd.backOn
      BY <1>0, <2>2, Alone, NoParameters, LightBarAssumption DEF BackgroundOff, Cmd
    <3>2. Settled
      BY <3>1 DEF GoodCommand
    <3>3. ~BackgroundOn(b)
      <4>1. pend = <<>>
        BY <1>0, <2>2, Alone, NoParameters DEF BackgroundOff
      <4> QED
        BY <4>1, Begun DEF BackgroundOn
    <3> QED
      BY <3>2, <3>3
  <2> QED
    BY <2>1, <2>2
<1>2. ASSUME NEW l \in Bar, NEW ch \in Channels PROVE leds'[l][ch] = Background'[ch]
  <2>1. /\ leds[l][ch] <= Background[ch] /\ leds[l][ch] \in Byte /\ l \in Leds
    BY <1>0, <1>1, BarAtRest, ShownType, Places
  <2>2. CASE BackgroundOn(b)
    <3>1. Params(b) \in Color
      BY <1>0, <2>2, ParamsType DEF BackgroundOn
    <3>2. Params(b)[ch] \in Byte
      BY <3>1 DEF Color
    <3>3. leds[l][ch] = 0
      BY <1>1, <2>1, <2>2 DEF Background, Black, Byte
    <3>4. leds'[l][ch] = qadd8(leds[l][ch], Params(b)[ch]) /\ Background' = Params(b)
      BY <2>1, <2>2 DEF BackgroundOn, Add, Background
    <3> QED
      BY <3>2, <3>3, <3>4 DEF qadd8, Byte
  <2>3. CASE BackgroundOff(b)
    <3>1. leds'[l][ch] = qsub8(leds[l][ch], bgc[ch]) /\ Background'[ch] = 0
      BY <2>1, <2>3 DEF BackgroundOff, Sub, Background, Black
    <3>2. bgc[ch] \in Byte
      BY <1>0 DEF TypeOK, ColorsType, Color
    <3>3. leds[l][ch] <= bgc[ch]
      BY <2>1, <3>2 DEF Background, Black, Byte
    <3> QED
      BY <2>1, <3>1, <3>2, <3>3, AllTaken
  <2> QED
    BY <2>2, <2>3
<1>3. \A k \in Keys : ~flag'[k]
  BY <1>0, <1>1 DEF Settled
<1> QED
  BY <1>2, <1>3, BarPlain

-----------------------------------------------------------------------------
(* Steps that move light: a key goes down or up, and a tick. *)

(* A tick takes as much from a fading key as is left to take. *)
LEMMA FadeEnough ==
  ASSUME TypeOK, Ranges, rm_time > 0, NEW ch \in Channels
  PROVE  Fade[ch] \in Nat /\ rgb[ch] <= rm_time * Fade[ch]
<1>1. rgb[ch] \in Nat /\ rgb[ch] < 255 /\ rm_time \in Nat /\ rm_time > 0
  <2>1. rgb[ch] \in Byte /\ rm_time \in Byte
    BY DEF TypeOK, ColorsType, RemainType, Color
  <2> QED
    BY <2>1 DEF Ranges, Byte
<1> DEFINE q == rgb[ch] \div rm_time
<1>2. q \in Nat /\ q <= rgb[ch] /\ rgb[ch] <= rm_time * (q + 1)
  <2>1. ASSUME NEW x \in Nat, NEW d \in Nat, d > 0
        PROVE  x \div d \in Nat /\ d * (x \div d) <= x /\ x < d * (x \div d) + d
    BY <2>1
  <2>2. q \in Nat /\ rm_time * q <= rgb[ch] /\ rgb[ch] < rm_time * q + rm_time
    BY <1>1, <2>1
  <2> HIDE DEF q
  <2>3. rm_time * (q + 1) = rm_time * q + rm_time /\ q <= rm_time * q
    BY <1>1, <2>2
  <2> QED
    BY <1>1, <2>2, <2>3
<1>3. Fade[ch] = (q + 1) % 256
  BY <1>1 DEF Fade
<1> HIDE DEF q
<1>4. (q + 1) % 256 = q + 1
  BY <1>1, <1>2
<1> QED
  BY <1>2, <1>3, <1>4

(* What a tick takes from an LED is covered by one tick less. *)
LEMMA FadeArithmetic ==
  ASSUME NEW x \in Nat, NEW s \in Nat, NEW t \in Nat, NEW f \in Nat, t > 0,
         x <= s + t * f
  PROVE  qsub8(x, f) <= s + (t - 1) * f
<1>1. t * f = (t - 1) * f + f /\ (t - 1) * f \in Nat
  BY SMT
<1> QED
  BY <1>1 DEF qsub8

(* A tick: a key that has ticks left loses one of them, and its LEDs Fade;  *)
(* the last one leaves the background, if it is on.                        *)
LEMMA TickStep ==
  ASSUME UseInv, NEW b, RemainTick(b)
  PROVE  BarInv'
<1>1. /\ TypeOK /\ Ranges /\ rm_time > 0 /\ rm_time \in Nat /\ ~rbstatus
      /\ UNCHANGED <<rgb, bgc, extend, numofextend, flag, on_background, rm_time>>
  BY DEF UseInv, Ranges, RemainTick, TypeOK, RemainType, Byte, colors, spread
<1> SUFFICES ASSUME NEW l \in Bar, NEW ch \in Channels
             PROVE  leds'[l][ch] <= Shown(l, ch)' + rm_times'[KeyOf(l)] * Fade'[ch]
  BY <1>1 DEF BarInv, BarIsSumOfHeld, FadeCovers
<1> DEFINE k == KeyOf(l)
           t == rm_times[k]
           f == Fade[ch]
           s == Shown(l, ch)
<1>2. Shown(l, ch)' = s /\ Fade'[ch] = f
  BY <1>1, ShownKept DEF Fade
<1>3. /\ t \in Nat /\ f \in Nat /\ s \in Nat /\ leds[l][ch] \in Nat
      /\ Background[ch] <= s /\ k \in Keys /\ l \in Leds
  <2>1. t \in 0..MaxTicks /\ MaxTicks \in Nat
    BY <1>1, Places, UseAssumption DEF Ranges
  <2>2. f \in Nat
    BY <1>1, FadeEnough
  <2> QED
    BY <1>1, <2>1, <2>2, ShownType, Places DEF Byte
<1>4. leds[l][ch] <= s + t * f
  BY <1>1 DEF UseInv, FadeCovers
<1>5. rm_times'[k] = IF t > 0 THEN t - 1 ELSE t
  BY <1>3 DEF RemainTick
<1>6. leds'[l] = Faded(l)
  BY <1>3 DEF RemainTick
<1>7. CASE t <= 0
  <2>1. Faded(l) = leds[l]
    BY <1>7 DEF Faded
  <2>2. rm_times'[k] = t
    BY <1>3, <1>5, <1>7
  <2> QED
    BY <1>2, <1>4, <1>6, <2>1, <2>2
<1>8. CASE t = 1 /\ on_background /\ ~flag[k]
  <2>1. Faded(l) = bgc /\ Background = bgc
    BY <1>8 DEF Faded, Background
  <2>2. rm_times'[k] = 0
    BY <1>5, <1>8
  <2>3. leds'[l][ch] <= s
    BY <1>3, <1>6, <2>1
  <2>4. rm_times'[k] * f = 0
    BY <1>3, <2>2
  <2> HIDE DEF k, f, s
  <2> QED
    BY <1>2, <1>3, <2>3, <2>4 DEF k
<1>9. CASE t > 0 /\ ~(t = 1 /\ on_background /\ ~flag[k])
  <2>1. Faded(l) = Sub(leds[l], Fade)
    BY <1>3, <1>9 DEF Faded
  <2>2. leds'[l][ch] = qsub8(leds[l][ch], f)
    BY <1>6, <2>1 DEF Sub
  <2>3. qsub8(leds[l][ch], f) <= s + (t - 1) * f
    BY <1>3, <1>4, <1>9, FadeArithmetic
  <2>4. rm_times'[k] = t - 1
    BY <1>5, <1>9
  <2> QED
    BY <1>2, <2>2, <2>3, <2>4
<1> QED
  BY <1>3, <1>7, <1>8, <1>9

(* A key lights up, with its neighbours; nothing saturates. *)
LEMMA PressStep ==
  ASSUME UseInv, NEW b, Considerate(b), Press(b)
  PROVE  BarInv'
<1>1. /\ TypeOK /\ Ranges /\ ~rbstatus /\ b \in Played /\ b \in Keys /\ ~flag[b] /\ ~rbstatus'
      /\ flag' = [flag EXCEPT ![b] = TRUE]
      /\ UNCHANGED <<rgb, bgc, extend, numofextend, on_background, rm_time, rm_times>>
  BY Places DEF UseInv, Press, colors, remain
<1>2. \A l \in Bar, ch \in Channels : leds[l][ch] + Glow(b, l)[ch] <= 255
  <2>1. GoodCommand(b)
    BY <1>1, Alone, NoParameters DEF Press
  <2> QED
    BY <1>1, <2>1 DEF GoodCommand, InRange
<1> SUFFICES ASSUME NEW l \in Bar, NEW ch \in Channels
             PROVE  /\ rm_time' = 0 => leds'[l][ch] = Shown(l, ch)'
                    /\ leds'[l][ch] <= Shown(l, ch)' + rm_times'[KeyOf(l)] * Fade'[ch]
  BY DEF BarInv, BarIsSumOfHeld, FadeCovers
<1> DEFINE g == Glow(b, l)[ch]
           x == leds[l][ch]
           s == Shown(l, ch)
           c == rm_times[KeyOf(l)] * Fade[ch]
<1>3. leds'[l] = Add(leds[l], Glow(b, l))
  <2>1. l \in Leds /\ l <= RingBase /\ l \in Int
    BY Places DEF Bar
  <2>2. CASE ~flagc
    BY <2>1, <2>2 DEF Press
  <2>3. CASE flagc
    <3>1. RingBase + circle' # l
      <4>1. circle' = (IF AtEnd THEN circle % RingLen ELSE circle) + 1
        BY <2>3 DEF Press
      <4>2. circle \in Nat /\ RingLen \in Nat \ {0} /\ RingBase \in Nat
        BY <1>1, LightBarAssumption DEF TypeOK, RingType
      <4>3. circle % RingLen \in Nat
        BY <4>2
      <4>4. circle' \in Nat /\ circle' >= 1
        BY <4>1, <4>2, <4>3
      <4>5. \A p \in Nat : p >= 1 => RingBase + p # l
        BY <2>1, <4>2
      <4> QED
        BY <4>4, <4>5
    <3> QED
      BY <2>1, <2>3, <3>1 DEF Press
  <2> QED
    BY <2>2, <2>3
<1>4. leds'[l][ch] = qadd8(x, g)
  BY <1>3 DEF Add
<1>5. x \in Nat /\ g \in Nat /\ x + g <= 255 /\ s \in Nat
  <2>1. x \in Byte /\ g \in Byte /\ s \in Nat
    BY <1>1, ShownType, GlowByte
  <2>2. x + g <= 255
    BY <1>2
  <2> HIDE DEF x, g, s
  <2> QED
    BY <2>1, <2>2 DEF Byte
<1>6. Shown(l, ch)' = s + g
  BY <1>1, ShownPress
<1>7. rm_times'[KeyOf(l)] * Fade'[ch] = c
  BY <1>1 DEF Fade
<1>8. c \in Nat
  <2>1. rm_times[KeyOf(l)] \in Nat /\ Fade[ch] \in Nat
    BY <1>1, Places, UseAssumption, BarTypesHold DEF Ranges, BarTypes
  <2> QED
    BY <2>1
<1>9. x <= s + c /\ (rm_time = 0 => x = s)
  BY <1>1 DEF UseInv, FadeCovers, BarIsSumOfHeld
<1>10. rm_time' = rm_time
  BY <1>1
<1> HIDE DEF g, x, s, c
<1>11. leds'[l][ch] = x + g
  BY <1>4, <1>5 DEF qadd8
<1> QED
  BY <1>5, <1>6, <1>7, <1>8, <1>9, <1>10, <1>11

(* What an LED loses with a key: nothing of its own two LEDs if it is to    *)
(* fade there, and its light elsewhere.                                    *)
LEMMA TakenIs ==
  ASSUME NEW l \in Bar, NEW k \in Keys
  PROVE  /\ rm_status /\ KeyOf(l) = k => Taken(k, l) = Black
         /\ ~rm_status \/ KeyOf(l) # k => Taken(k, l) = Glow(k, l)
BY OwnLeds DEF Taken

(* A key goes up.  Its own two LEDs keep their light while remaining is on, *)
(* which rm_time more ticks cover; its neighbours lose theirs at once.     *)
LEMMA ReleaseStep ==
  ASSUME UseInv, NEW b, Considerate(b), Release(b)
  PROVE  BarInv'
<1>1. /\ TypeOK /\ Ranges /\ ~rbstatus /\ b \in Played /\ b \in Keys /\ flag[b] /\ ~rbstatus'
      /\ flag' = [flag EXCEPT ![b] = FALSE]
      /\ UNCHANGED <<rgb, bgc, extend, numofextend, on_background, rm_time>>
  BY Places DEF UseInv, Release, colors
<1> SUFFICES ASSUME NEW l \in Bar, NEW ch \in Channels
             PROVE  /\ rm_time' = 0 => leds'[l][ch] = Shown(l, ch)'
                    /\ leds'[l][ch] <= Shown(l, ch)' + rm_times'[KeyOf(l)] * Fade'[ch]
  BY DEF BarInv, BarIsSumOfHeld, FadeCovers
<1> DEFINE k == KeyOf(l)
           g == Glow(b, l)[ch]
           x == leds[l][ch]
           s == Shown(l, ch)'
           t == rm_times[k]
           f == Fade[ch]
<1>2. leds'[l] = Sub(leds[l], Taken(b, l))
  BY Places DEF Release
<1>3. x \in Nat /\ x <= 255 /\ g \in Nat /\ s \in Nat /\ Shown(l, ch) = s + g
  <2>1. x \in Byte /\ g \in Byte
    BY <1>1, ShownType, GlowByte
  <2>2. s \in Nat /\ Shown(l, ch) = s + g
    BY <1>1, ShownRelease
  <2> HIDE DEF x, g, s
  <2> QED
    BY <2>1, <2>2 DEF Byte
<1>4. t \in Nat /\ f \in Nat /\ Fade'[ch] = f /\ rm_time' = rm_time
  BY <1>1, Places, UseAssumption, BarTypesHold DEF Ranges, BarTypes, Fade
<1>5. x <= (s + g) + t * f /\ (rm_time = 0 => x = s + g)
  BY <1>1, <1>3 DEF UseInv, FadeCovers, BarIsSumOfHeld
<1>6. CASE rm_status /\ k = b
  <2>1. /\ rm_times'[k] = t + rm_time /\ rm_time \in Nat /\ rm_time > 0
    <3>1. rm_times \in [Keys -> Char]
      BY <1>1 DEF TypeOK, RemainType
    <3>2. rm_times' = [rm_times EXCEPT ![b] = rm_times[b] + rm_time] /\ rm_time \in Nat
      BY <1>6, TicksAdd DEF Release
    <3>3. rm_time > 0
      BY <1>1, <1>6 DEF Ranges
    <3> QED
      BY <1>1, <1>6, <3>1, <3>2, <3>3
  <2>2. leds'[l][ch] = x
    <3>1. Taken(b, l)[ch] = 0
      BY <1>1, <1>6, TakenIs DEF Black
    <3>2. leds'[l][ch] = qsub8(x, 0)
      BY <1>2, <3>1 DEF Sub
    <3> HIDE DEF x
    <3> QED
      BY <1>3, <3>2 DEF qsub8
  <2>3. g <= rm_time * f
    <3>1. g = rgb[ch]
      BY <1>1, <1>6, OwnGlow
    <3> QED
      BY <1>1, <2>1, <3>1, FadeEnough
  <2> HIDE DEF k, g, x, s, t, f
  <2>4. (t + rm_time) * f = t * f + rm_time * f /\ t * f \in Nat /\ rm_time * f \in Nat
    BY <1>4, <2>1, SMT
  <2>5. x <= s + (t + rm_time) * f
    BY <1>3, <1>5, <2>3, <2>4
  <2> QED
    BY <1>4, <2>1, <2>2, <2>5 DEF k, s, x
<1>7. CASE ~(rm_status /\ k = b)
  <2>1. rm_times'[k] = t
    <3>1. CASE rm_status
      BY <1>1, <1>7, <3>1, Places DEF Release, TypeOK, RemainType
    <3>2. CASE ~rm_status
      BY <3>2 DEF Release
    <3> QED
      BY <3>1, <3>2
  <2>2. Taken(b, l) = Glow(b, l)
    BY <1>1, <1>7, TakenIs
  <2>3. leds'[l][ch] = qsub8(x, g)
    BY <1>2, <2>2 DEF Sub
  <2> HIDE DEF k, g, x, s, t, f
  <2>4. t * f \in Nat
    BY <1>4
  <2>5. qsub8(x, g) <= s + t * f /\ (x = s + g => qsub8(x, g) = s)
    BY <1>3, <1>5, <2>4 DEF qsub8
  <2> QED
    BY <1>4, <1>5, <2>1, <2>3, <2>5 DEF k, s, x
<1> QED
  BY <1>6, <1>7

-----------------------------------------------------------------------------
(* Every step. *)

(* Every byte that the contract allows keeps what the bar shows. *)
LEMMA BarStep ==
  ASSUME UseInv, NEW b \in Inputs, Considerate(b), Receive(b), TypeOK', Ranges'
  PROVE  BarInv'
<1>0. /\ TypeOK /\ BarInv /\ AtRest /\ b \in Byte
  BY LightBarAssumption DEF UseInv, BarInv
<1>1. CASE SetupWait(b) \/ Gather(b) \/ CircleOn(b) \/ SetBrightness(b) \/ RemainOff(b)
           \/ Ignore(b)
  BY <1>0, <1>1, BarKept DEF SetupWait, Gather, CircleOn, SetBrightness, RemainOff, Ignore,
                             vars, colors, spread, remain, BarSame
<1>2. CASE CircleOff(b) \/ EndsOff(b) \/ EndsOn(b)
  <2>1. BarSame
    <3>1. ((2 * NumKeys + 2)..(NumLeds - 1)) \cap Bar = {} /\ Ends \cap Bar = {}
      BY LightBarAssumption DEF Bar, Ends
    <3> QED
      BY <1>2, <3>1, Elsewhere DEF CircleOff, EndsOff, EndsOn
  <2> QED
    BY <1>0, <1>2, <2>1, BarKept DEF CircleOff, EndsOff, EndsOn, colors, spread, remain
<1>3. CASE SetColor(b)
  <2>1. Settled
    BY <1>3, Begun DEF SetColor
  <2>2. BarSame
    <3>1. Ends \cap Bar = {}
      BY LightBarAssumption DEF Bar, Ends
    <3> QED
      BY <1>3, <3>1, Elsewhere DEF SetColor
  <2> QED
    BY <1>0, <1>3, <2>1, <2>2, BarSettled DEF SetColor, remain
<1>4. CASE ExtendOn(b) \/ RemainOn(b)
  <2>1. Settled
    BY <1>4, Begun DEF ExtendOn, RemainOn
  <2>2. rm_time' = 0 => rm_time = 0
    BY <1>0, <1>4, RemainTimes DEF ExtendOn, remain
  <2> QED
    BY <1>0, <1>4, <2>1, <2>2, BarSettled DEF ExtendOn, RemainOn, colors, remain, BarSame
<1>5. CASE ExtendOff(b)
  <2>1. GoodCommand(b) /\ b = Cmd.extendOff
    BY <1>0, <1>5, Alone, NoParameters DEF ExtendOff
  <2>2. Settled
    BY <2>1 DEF GoodCommand
  <2> QED
    BY <1>0, <1>5, <2>2, BarSettled DEF ExtendOff, colors, remain, BarSame
<1>6. CASE SetupReset(b) \/ ClearAll(b)
  <2>1. GoodCommand(b) /\ b \in {Cmd.reset, Cmd.clear}
    BY <1>0, <1>6, Alone, NoParameters DEF SetupReset, ClearAll
  <2>2. ~on_background
    BY <2>1 DEF GoodCommand
  <2>3. \A l \in Bar : leds'[l] = Black
    BY <1>6, Places DEF SetupReset, ClearAll, Paint
  <2>4. on_background' = on_background /\ \A k \in Keys : ~flag'[k]
    BY <1>6 DEF SetupReset, ClearAll
  <2> QED
    BY <2>2, <2>3, <2>4, BarDark
<1>7. CASE SetupDone(b)
  <2>1. /\ ~on_background' /\ \A k \in Keys : ~flag'[k]
        /\ \A l \in Bar : leds[l] = Black
    BY <1>0, <1>7 DEF SetupDone, AtRest
  <2>2. \A l \in Bar : leds'[l] = leds[l]
    BY <1>7, Places DEF SetupDone, Paint
  <2> QED
    BY <2>1, <2>2, BarDark
<1>8. CASE BackgroundOn(b) \/ BackgroundOff(b)
  BY <1>0, <1>8, BackgroundStep
<1>9. CASE RainbowFrame(b)
  BY <1>9 DEF RainbowFrame, BarInv, BarIsSumOfHeld, FadeCovers
<1>10. CASE RainbowOff(b)
  <2>1. GoodCommand(b) /\ b = Cmd.rainbowOff
    BY <1>0, <1>10, Alone, NoParameters DEF RainbowOff
  <2>2. Settled /\ ~on_background
    BY <2>1 DEF GoodCommand
  <2>3. \A l \in Bar : l \in Leds /\ l \notin Ends /\ l # NumLeds - 1
    BY Places, LightBarAssumption
  <2>4. \A l \in Bar : leds'[l] = Black
    BY <1>10, <2>3 DEF RainbowOff
  <2>5. on_background' = on_background /\ flag' = flag
    BY <1>10 DEF RainbowOff
  <2> QED
    BY <2>2, <2>4, <2>5, BarDark DEF Settled
<1>11. CASE RemainTick(b)
  BY <1>11, TickStep
<1>12. CASE Press(b)
  BY <1>12, PressStep
<1>13. CASE Release(b)
  BY <1>13, ReleaseStep
<1> QED
  BY <1>1, <1>2, <1>3, <1>4, <1>5, <1>6, <1>7, <1>8, <1>9, <1>10, <1>11, <1>12, <1>13
     DEF Receive

(* Power on: the bar is dark. *)
LEMMA UseInit == Init => UseInv
<1> SUFFICES ASSUME Init PROVE UseInv
  OBVIOUS
<1>1. TypeOK
  BY InitType
<1>2. Ranges
  <2>1. \A ch \in Channels : rgb[ch] < 255
    BY DEF Init, Black
  <2>2. \A k \in Keys : rm_times[k] = 0
    BY DEF Init
  <2>3. ~rm_status /\ 0 \in 0..MaxTicks
    BY UseAssumption DEF Init
  <2> QED
    BY <2>1, <2>2, <2>3 DEF Ranges
<1>3. Underway /\ AtRest
  BY Places DEF Init, Underway, AtRest
<1>4. BarIsSumOfHeld /\ FadeCovers
  <2> SUFFICES ASSUME NEW l \in Bar, NEW ch \in Channels
               PROVE  /\ leds[l][ch] = Shown(l, ch)
                      /\ leds[l][ch] <= Shown(l, ch) + rm_times[KeyOf(l)] * Fade[ch]
    BY DEF BarIsSumOfHeld, FadeCovers
  <2>1. Shown(l, ch) = 0 /\ Fade[ch] \in Nat
    BY <1>1, BarTypesHold DEF BarTypes, Init, Background, Black
  <2>2. leds[l][ch] = 0 /\ rm_times[KeyOf(l)] = 0
    BY Places DEF Init, Black
  <2>3. rm_times[KeyOf(l)] * Fade[ch] = 0
    BY <2>1, <2>2
  <2> QED
    BY <2>1, <2>2, <2>3
<1> QED
  BY <1>1, <1>2, <1>3, <1>4 DEF UseInv

(* The invariant is inductive. *)
LEMMA UseStep == UseInv /\ [Use]_vars => UseInv'
<1> SUFFICES ASSUME UseInv, [Use]_vars PROVE UseInv'
  OBVIOUS
<1>1. CASE Use
  <2>1. PICK b \in Inputs : Considerate(b) /\ Receive(b)
    BY <1>1 DEF Use
  <2>2. TypeOK'
    BY <2>1, TypeStep, LightBarAssumption DEF UseInv
  <2>3. Ranges' /\ Underway' /\ AtRest'
    BY <2>1, RangesStep, UnderwayStep, AtRestStep
  <2>4. BarInv'
    BY <2>1, <2>2, <2>3, BarStep
  <2> QED
    BY <2>2, <2>3, <2>4 DEF UseInv, BarInv
<1>2. CASE UNCHANGED vars
  <2>1. TypeOK'
    BY <1>2, Kept DEF UseInv, vars, parser, ParserType, TypeOK
  <2>2. Ranges' /\ Underway' /\ AtRest'
    BY <1>2 DEF UseInv, Ranges, Underway, AtRest, Settled, vars, parser, colors, remain
  <2>3. BarInv'
    BY <1>2, BarKept DEF UseInv, BarInv, BarSame, vars, colors, spread, remain
  <2> QED
    BY <2>1, <2>2, <2>3 DEF UseInv, BarInv
<1> QED
  BY <1>1, <1>2

(* Under the contract, however many keys overlap, as long as remaining has   *)
(* never been on, every LED shows exactly the background and the keys that  *)
(* are down.                                                               *)
THEOREM BarShowsHeld == UseSpec => []BarIsSumOfHeld
<1>1. UseInv => BarIsSumOfHeld
  BY DEF UseInv
<1> QED
  BY <1>1, UseInit, UseStep, PTL DEF UseSpec

(* With remaining, it shows no more than that and what its own key's ticks  *)
(* will still take away.                                                   *)
THEOREM FadesAreCovered == UseSpec => []FadeCovers
<1>1. UseInv => FadeCovers
  BY DEF UseInv
<1> QED
  BY <1>1, UseInit, UseStep, PTL DEF UseSpec

=============================================================================
