---------------------------- MODULE PmQueueProofs ----------------------------
(***************************************************************************)
(* Theorems about PmQueue for a ring of any number of slots, messages of   *)
(* any number of words, and stores that become visible in any order.       *)
(***************************************************************************)
EXTENDS PmQueue, SequenceTheorems, FiniteSetTheorems, WellFoundedInduction, TLAPS

(* Some but not all words of the writer's, or of the reader's, slot have   *)
(* been stored, or zeroed.  (Removing is the reader's.)                    *)
Storing == wpc = "store" /\ wleft # {}

Codes == {Encode(m) : m \in Messages}

(* What the writer's call has seen and done. *)
WriterAt ==
  /\ wpc # "idle" => overflow = 0
  /\ wpc = "test" => \A i \in Places : i < wat => buffer[tail + i] = 0
  /\ Storing => \A i \in Places :
       buffer[tail + i] = IF i \in wleft THEN 0 ELSE Encode(wmsg)[i]

(* What the reader's call has seen and done. *)
ReaderAt ==
  /\ rpc # "idle" => ~peek_flag /\ (rop = "dequeue" => ~peek_overflow)
  /\ rpc \in {"first", "lost"} => overflow = head + 1
  /\ rpc = "lost" => buffer[head] = 0
  /\ rpc = "test" => \A i \in Places : i > rat => buffer[head + i] # 0
  /\ rpc = "take" => Complete(head)
  /\ rpc = "zero" => msg \in Messages
  /\ Removing => \A i \in Places :
       IF i \in rleft THEN buffer[head + i] # 0 ELSE buffer[head + i] = 0
  /\ peek_flag => peek \in Messages
  /\ polled /\ ~peek_flag /\ rpc # "zero" => buffer[head] # 0

(* The two never store and zero in the same slot. *)
Apart == ~(Storing /\ Removing /\ head = tail)

Free(p) == \A i \in Places : buffer[p + i] = 0

(* Where the next message will be stored. *)
Newest == IF wpc = "store" /\ wleft = {} THEN Following(tail) ELSE tail

(* The slot that is k behind the one at p, in the ring. *)
At(p, k) == (p + k * msg_size) % len

(* The slot with the number a. *)
Start(a) == a * msg_size

(* The ring from its oldest message on: n messages, and the slots of no    *)
(* message, one of which may be half stored and one half zeroed.           *)
Ring(n) ==
  /\ Newest = At(Oldest, n)
  /\ \A k \in 0..(n - 1) : Slot(At(Oldest, k)) \in Codes
  /\ \A k \in n..(NumMsgs - 1) :
       \/ Free(At(Oldest, k))
       \/ Storing /\ k = n /\ At(Oldest, k) = tail
       \/ Removing /\ k = NumMsgs - 1 /\ At(Oldest, k) = head

Most == IF Removing THEN NumMsgs - 1 ELSE NumMsgs

RingOK == \E n \in 0..Most : Ring(n)

Inv ==
  /\ TypeOK /\ WriterAt /\ ReaderAt /\ Apart
  /\ RingOK

-----------------------------------------------------------------------------
(* Numbers. *)

(* A set of naturals that is not empty has a least element. *)
LEMMA Least ==
  ASSUME NEW S \in SUBSET Nat, S # {}
  PROVE  \E n \in S : \A k \in S : n <= k
<1> DEFINE R == OpToRel(<, Nat)
<1>1. IsWellFoundedOn(R, Nat)
  BY NatLessThanWellFounded
<1>2. \A x, y \in Nat : x < y => <<x, y>> \in R
  BY DEF OpToRel
<1> HIDE DEF R
<1>3. PICK n \in S : \A k \in S : ~ (<<k, n>> \in R)
  BY <1>1, WFMin
<1>4. ASSUME NEW k \in S PROVE n <= k
  <2>1. k \in Nat /\ n \in Nat
    OBVIOUS
  <2>2. ~(k < n)
    BY <1>2, <1>3, <2>1
  <2> QED
    BY <2>1, <2>2
<1> QED
  BY <1>4

(* One with a bound has a greatest. *)
LEMMA Greatest ==
  ASSUME NEW S \in SUBSET Nat, S # {}, NEW b \in Nat, \A k \in S : k <= b
  PROVE  \E n \in S : \A k \in S : n >= k
<1> DEFINE T == {n \in 0..b : b - n \in S}
<1>1. T \in SUBSET Nat /\ \A x \in S : b - x \in T
  <2>1. \A x \in S : b - x \in 0..b /\ b - (b - x) = x
    OBVIOUS
  <2> QED
    BY <2>1
<1>2. PICK t \in T : \A k \in T : t <= k
  <2>1. T # {}
    BY <1>1
  <2> HIDE DEF T
  <2> QED
    BY <1>1, <2>1, Least
<1>3. ASSUME NEW k \in S PROVE b - t >= k
  <2>1. b - k \in T /\ k \in Nat /\ t \in Nat
    BY <1>1
  <2>2. t <= b - k
    BY <1>2, <2>1
  <2> QED
    BY <2>1, <2>2
<1>4. b - t \in S
  OBVIOUS
<1> QED
  BY <1>3, <1>4

(* A slot has at least two words, and the ring at least one slot. *)
LEMMA Sizes ==
  /\ NumMsgs \in Nat \ {0} /\ msg_size \in Nat /\ msg_size > 1 /\ MsgWords \in Nat \ {0}
  /\ len \in Nat \ {0}
  /\ Places = 0..(msg_size - 1) /\ Payload = 1..(msg_size - 1)
  /\ Payload \subseteq Places /\ 0 \in Places /\ MsgWords \in Places
BY PmQueueAssumption DEF msg_size, len, Places, Payload

(* Distinct slots have no word in common. *)
LEMMA Multiples ==
  /\ \A a, b \in Nat : Start(a) \in Nat /\ Start(a + b) = Start(a) + Start(b)
  /\ \A a, b \in Nat : a < b => Start(a) + msg_size <= Start(b)
  /\ Start(0) = 0 /\ Start(NumMsgs) = len
<1> DEFINE m == msg_size
<1>1. m \in Nat
  BY Sizes
<1> HIDE DEF m
<1>2. \A a, b \in Nat : a * m \in Nat /\ (a + b) * m = a * m + b * m
  BY <1>1
<1>3. \A a, b \in Nat : a < b => a * m + m <= b * m
  BY <1>1
<1>4. 0 * m = 0
  BY <1>1
<1>5. NumMsgs * m = len
  BY DEF m, len
<1> QED
  BY <1>2, <1>3, <1>4, <1>5 DEF Start, m

(* A place beyond the end of the ring is one at its beginning. *)
LEMMA Wrap ==
  /\ \A x \in Nat : (x < len => x % len = x) /\ (x >= len /\ x < 2 * len => x % len = x - len)
<1> DEFINE l == len
<1>1. l \in Nat \ {0}
  BY Sizes
<1> HIDE DEF l
<1>2. \A x \in Nat : (x < l => x % l = x) /\ (x >= l /\ x < 2 * l => x % l = x - l)
  BY <1>1
<1> QED
  BY <1>2 DEF l

(* Slots by their numbers. *)
LEMMA ByNumber ==
  ASSUME NEW a \in 0..(NumMsgs - 1)
  PROVE  /\ \A k \in 0..NumMsgs :
              At(Start(a), k) = Start(IF a + k < NumMsgs THEN a + k ELSE a + k - NumMsgs)
         /\ Following(Start(a)) = Start(IF a + 1 = NumMsgs THEN 0 ELSE a + 1)
         /\ Start(a) \in SlotStarts
<1> USE Sizes
<1>0. Start(NumMsgs) = len /\ Start(0) = 0
  BY Multiples
<1>1. ASSUME NEW k \in 0..NumMsgs
      PROVE  At(Start(a), k) = Start(IF a + k < NumMsgs THEN a + k ELSE a + k - NumMsgs)
  <2>1. At(Start(a), k) = Start(a + k) % len
    BY Multiples DEF At, Start
  <2>2. CASE a + k < NumMsgs
    <3>1. Start(a + k) < len /\ Start(a + k) \in Nat
      <4>1. a + k \in Nat /\ NumMsgs \in Nat /\ a + k < NumMsgs
        BY <2>2
      <4>2. Start(a + k) + msg_size <= Start(NumMsgs) /\ Start(a + k) \in Nat
        BY <4>1, Multiples
      <4> QED
        BY <1>0, <4>2
    <3> QED
      BY <2>1, <2>2, <3>1, Wrap
  <2>3. CASE a + k >= NumMsgs
    <3> DEFINE b == a + k - NumMsgs
    <3>1. b \in Nat /\ b < NumMsgs /\ a + k = b + NumMsgs
      BY <2>3
    <3> HIDE DEF b
    <3>2. Start(a + k) = Start(b) + len /\ Start(b) \in Nat /\ Start(b) + msg_size <= len
      BY <3>1, Multiples
    <3>3. Start(a + k) \in Nat /\ Start(a + k) >= len /\ Start(a + k) < 2 * len
          /\ Start(a + k) - len = Start(b)
      BY <3>2
    <3>4. At(Start(a), k) = Start(b)
      BY <2>1, <3>3, Wrap
    <3> QED
      BY <2>3, <3>4 DEF b
  <2> QED
    BY <2>2, <2>3
<1>2. Following(Start(a)) = Start(IF a + 1 = NumMsgs THEN 0 ELSE a + 1)
  <2>1. Start(a + 1) = Start(a) + msg_size
    BY Multiples DEF Start
  <2>2. Start(a) + msg_size = len <=> a + 1 = NumMsgs
    <3>0. a + 1 \in Nat /\ NumMsgs \in Nat /\ (a + 1 # NumMsgs => a + 1 < NumMsgs)
      OBVIOUS
    <3>1. a + 1 # NumMsgs => Start(a + 1) + msg_size <= len
      BY <3>0, Multiples
    <3>2. Start(a + 1) \in Nat
      BY <3>0, Multiples
    <3> QED
      BY <1>0, <2>1, <3>1, <3>2
  <2> QED
    BY <2>1, <2>2, Multiples DEF Following
<1>3. Start(a) \in SlotStarts
  BY DEF Start, SlotStarts
<1> QED
  BY <1>1, <1>2, <1>3

(* Every slot has a number. *)
LEMMA NumberOf ==
  ASSUME NEW p \in SlotStarts
  PROVE  \E a \in 0..(NumMsgs - 1) : p = Start(a)
BY DEF SlotStarts, Start

(* The slots of the ring as they follow each other from the one at p. *)
LEMMA Circle ==
  ASSUME NEW p \in SlotStarts
  PROVE  /\ \A k \in 0..NumMsgs : At(p, k) \in SlotStarts
         /\ At(p, 0) = p /\ At(p, NumMsgs) = p
         /\ Following(p) \in SlotStarts
         /\ \A k \in 0..(NumMsgs - 1) :
              Following(At(p, k)) = At(p, k + 1) /\ At(Following(p), k) = At(p, k + 1)
         /\ \A j, k \in 0..(NumMsgs - 1) : At(p, j) = At(p, k) => j = k
         /\ \A q \in SlotStarts : \E k \in 0..(NumMsgs - 1) : q = At(p, k)
<1> USE Sizes
<1>1. PICK a \in 0..(NumMsgs - 1) : p = Start(a)
  BY NumberOf
<1> DEFINE sum(b, k) == IF b + k < NumMsgs THEN b + k ELSE b + k - NumMsgs
<1>2. \A b \in 0..(NumMsgs - 1), k \in 0..NumMsgs : sum(b, k) \in 0..(NumMsgs - 1)
  OBVIOUS
<1>3. \A b \in 0..(NumMsgs - 1), k \in 0..NumMsgs : At(Start(b), k) = Start(sum(b, k))
  BY ByNumber
<1>4. \A b \in 0..(NumMsgs - 1) : Following(Start(b)) = Start(sum(b, 1))
  <2>1. \A b \in 0..(NumMsgs - 1) : (IF b + 1 = NumMsgs THEN 0 ELSE b + 1) = sum(b, 1)
    OBVIOUS
  <2> QED
    BY <2>1, ByNumber
<1>5. \A b \in 0..(NumMsgs - 1) : Start(b) \in SlotStarts
  BY ByNumber
<1>6. 1 \in 0..NumMsgs /\ 0 \in 0..NumMsgs /\ NumMsgs \in 0..NumMsgs
  OBVIOUS
<1>7. \A k \in 0..NumMsgs : At(p, k) \in SlotStarts
  <2> HIDE DEF sum
  <2> QED
    BY <1>1, <1>2, <1>3, <1>5
<1>8. At(p, 0) = p /\ At(p, NumMsgs) = p
  <2>1. sum(a, 0) = a /\ sum(a, NumMsgs) = a
    OBVIOUS
  <2> HIDE DEF sum
  <2> QED
    BY <1>1, <1>3, <1>6, <2>1
<1>9. Following(p) \in SlotStarts
  <2> HIDE DEF sum
  <2> QED
    BY <1>1, <1>2, <1>4, <1>5, <1>6
<1>10. \A k \in 0..(NumMsgs - 1) :
         Following(At(p, k)) = At(p, k + 1) /\ At(Following(p), k) = At(p, k + 1)
  <2>1. \A k \in 0..(NumMsgs - 1) :
          /\ sum(sum(a, k), 1) = sum(a, k + 1) /\ sum(sum(a, 1), k) = sum(a, k + 1)
          /\ k \in 0..NumMsgs /\ k + 1 \in 0..NumMsgs
    OBVIOUS
  <2> HIDE DEF sum
  <2>2. ASSUME NEW k \in 0..(NumMsgs - 1)
        PROVE  Following(At(p, k)) = At(p, k + 1) /\ At(Following(p), k) = At(p, k + 1)
    <3>1. At(p, k) = Start(sum(a, k)) /\ At(p, k + 1) = Start(sum(a, k + 1))
      BY <1>1, <1>3, <2>1
    <3>2. Following(p) = Start(sum(a, 1)) /\ sum(a, 1) \in 0..(NumMsgs - 1)
          /\ sum(a, k) \in 0..(NumMsgs - 1)
      BY <1>1, <1>2, <1>4, <1>6, <2>1
    <3>3. Following(Start(sum(a, k))) = Start(sum(sum(a, k), 1))
      BY <1>4, <3>2
    <3>4. At(Start(sum(a, 1)), k) = Start(sum(sum(a, 1), k))
      BY <1>3, <2>1, <3>2
    <3> QED
      BY <2>1, <3>1, <3>2, <3>3, <3>4
  <2> QED
    BY <2>2
<1>11. \A b, c \in 0..(NumMsgs - 1) : Start(b) = Start(c) => b = c
  <2> SUFFICES ASSUME NEW b \in 0..(NumMsgs - 1), NEW c \in 0..(NumMsgs - 1), b < c
               PROVE  Start(b) # Start(c)
    OBVIOUS
  <2>0. b \in Nat /\ c \in Nat
    OBVIOUS
  <2>1. Start(b) + msg_size <= Start(c) /\ Start(b) \in Nat /\ Start(c) \in Nat
    BY <2>0, Multiples
  <2> QED
    BY <2>1
<1>12. \A j, k \in 0..(NumMsgs - 1) : At(p, j) = At(p, k) => j = k
  <2> SUFFICES ASSUME NEW j \in 0..(NumMsgs - 1), NEW k \in 0..(NumMsgs - 1),
                      At(p, j) = At(p, k)
               PROVE  j = k
    OBVIOUS
  <2>1. j \in 0..NumMsgs /\ k \in 0..NumMsgs
    OBVIOUS
  <2>2. sum(a, j) = sum(a, k)
    <3> HIDE DEF sum
    <3>1. Start(sum(a, j)) = Start(sum(a, k))
      BY <1>1, <1>3, <2>1
    <3>2. sum(a, j) \in 0..(NumMsgs - 1) /\ sum(a, k) \in 0..(NumMsgs - 1)
      BY <1>2, <2>1
    <3> QED
      BY <1>11, <3>1, <3>2
  <2> QED
    BY <2>2
<1>13. ASSUME NEW q \in SlotStarts PROVE \E k \in 0..(NumMsgs - 1) : q = At(p, k)
  <2>1. PICK c \in 0..(NumMsgs - 1) : q = Start(c)
    BY NumberOf
  <2> DEFINE k == IF c >= a THEN c - a ELSE c + NumMsgs - a
  <2>2. k \in 0..(NumMsgs - 1) /\ k \in 0..NumMsgs /\ sum(a, k) = c
    OBVIOUS
  <2> HIDE DEF k, sum
  <2> QED
    BY <1>1, <1>3, <2>1, <2>2
<1> HIDE DEF sum
<1> QED
  BY <1>7, <1>8, <1>9, <1>10, <1>12, <1>13

(* Where the words of slots are. *)
LEMMA SlotWords ==
  ASSUME NEW p \in SlotStarts, NEW i \in Places
  PROVE  /\ p \in Nat /\ p + i \in 0..(len - 1)
         /\ \A q \in SlotStarts, j \in Places : p + i = q + j => p = q /\ i = j
<1> USE Sizes
<1>1. PICK a \in 0..(NumMsgs - 1) : p = Start(a)
  BY NumberOf
<1>2. p \in Nat /\ p + msg_size <= len
  BY <1>1, Multiples
<1>3. ASSUME NEW q \in SlotStarts, NEW j \in Places, p + i = q + j PROVE p = q /\ i = j
  <2>1. PICK c \in 0..(NumMsgs - 1) : q = Start(c)
    BY NumberOf
  <2>2. q \in Nat
    BY <2>1, Multiples
  <2>3. a < c => p + msg_size <= q
    BY <1>1, <2>1, Multiples
  <2>4. c < a => q + msg_size <= p
    BY <1>1, <2>1, Multiples
  <2>5. a = c
    BY <1>2, <1>3, <2>2, <2>3, <2>4
  <2> QED
    BY <1>1, <1>2, <1>3, <2>1, <2>5
<1> QED
  BY <1>2, <1>3

-----------------------------------------------------------------------------
(* The encoding of a message. *)

Zeros(m, i) == {j \in Payload : j > i /\ m[j] = 0}

(* A link leads to the next zero of the message, or behind the slot. *)
LEMMA NextZeroIs ==
  ASSUME NEW m \in [Payload -> Nat], NEW i \in Places
  PROVE  /\ NextZero(m, i) \in 1..msg_size /\ NextZero(m, i) > i
         /\ \/ Zeros(m, i) = {} /\ NextZero(m, i) = msg_size
            \/ /\ NextZero(m, i) \in Zeros(m, i)
               /\ \A j \in Zeros(m, i) : NextZero(m, i) <= j
<1> DEFINE S == Zeros(m, i) \cup {msg_size}
<1>1. NextZero(m, i) = Min(S)
  BY DEF NextZero, Zeros
<1>2. S \in SUBSET Nat /\ S # {} /\ \A j \in S : j \in 1..msg_size /\ j > i
  BY Sizes DEF Zeros
<1>3. \E x \in S : \A y \in S : x <= y
  <2> HIDE DEF S
  <2> QED
    BY <1>2, Least
<1>4. Min(S) \in S /\ \A y \in S : Min(S) <= y
  <2> HIDE DEF S
  <2> QED
    BY <1>3 DEF Min
<1>5. \A j \in Zeros(m, i) : j < msg_size
  BY Sizes DEF Zeros
<1> DEFINE n == Min(S)
<1>6. n = msg_size => Zeros(m, i) = {}
  <2> SUFFICES ASSUME n = msg_size, NEW j \in Zeros(m, i) PROVE FALSE
    OBVIOUS
  <2>1. n <= j /\ j < msg_size /\ j \in Nat /\ msg_size \in Nat
    BY <1>2, <1>4, <1>5, Sizes
  <2> QED
    BY <2>1
<1>7. n \in S /\ (\A y \in S : n <= y) /\ n \in 1..msg_size /\ n > i
  BY <1>2, <1>4
<1> HIDE DEF n
<1> QED
  BY <1>1, <1>6, <1>7 DEF n

(* No word of an encoded message is 0. *)
LEMMA EncodeType ==
  ASSUME NEW m \in [Payload -> Nat]
  PROVE  /\ Encode(m) \in [Places -> Nat]
         /\ \A i \in Places : Encode(m)[i] # 0 /\ Encode(m)[i] \in Nat
         /\ Encode(m)[0] = NextZero(m, 0)
         /\ \A i \in Payload : Encode(m)[i] = IF m[i] = 0 THEN NextZero(m, i) ELSE m[i]
<1>1. \A i \in Places : NextZero(m, i) \in Nat \ {0}
  <2> TAKE i \in Places
  <2>1. NextZero(m, i) \in 1..msg_size
    BY NextZeroIs
  <2> QED
    BY <2>1, Sizes
<1>2. \A i \in Places : i = 0 \/ i \in Payload
  BY Sizes
<1>3. \A i \in Places : Encode(m)[i] = IF i = 0 \/ m[i] = 0 THEN NextZero(m, i) ELSE m[i]
  BY DEF Encode
<1>4. \A i \in Payload : i \in Places /\ i # 0 /\ m[i] \in Nat
  BY Sizes
<1>5. \A i \in Places : Encode(m)[i] # 0 /\ Encode(m)[i] \in Nat
  BY <1>1, <1>2, <1>3, <1>4
<1>6. Encode(m) \in [Places -> Nat]
  BY <1>5 DEF Encode
<1>7. Encode(m)[0] = NextZero(m, 0)
  BY <1>3, Sizes
<1> QED
  BY <1>3, <1>4, <1>5, <1>6, <1>7

(* The links of the slot s, from the place i on. *)
LinksFrom(s) ==
  CHOOSE f : f = [i \in Nat |-> IF i < msg_size THEN {i} \cup f[s[i]] ELSE {}]

(* Following links is well defined, even in a slot that holds other words: *)
(* the places that it reaches are a solution.                              *)
LEMMA LinksFromIs ==
  ASSUME NEW s \in [Places -> Nat]
  PROVE  /\ Links(s) = LinksFrom(s)[s[0]]
         /\ \A i \in Nat : LinksFrom(s)[i] =
              IF i < msg_size THEN {i} \cup LinksFrom(s)[s[i]] ELSE {}
<1> DEFINE Closed(T) == \A k \in T : s[k] < msg_size => s[k] \in T
           F(i) == {j \in Places : \A T \in SUBSET Places : i \in T /\ Closed(T) => j \in T}
           g == [i \in Nat |-> IF i < msg_size THEN F(i) ELSE {}]
<1>1. Places = {i \in Nat : i < msg_size}
  BY Sizes
<1>2. ASSUME NEW i \in Nat, i < msg_size PROVE g[i] = {i} \cup g[s[i]]
  <2>1. i \in Places /\ s[i] \in Nat /\ g[i] = F(i)
    BY <1>1, <1>2
  <2>2. g[s[i]] \subseteq Places /\ Closed(g[s[i]])
    <3>1. CASE ~(s[i] < msg_size)
      BY <2>1, <3>1
    <3>2. CASE s[i] < msg_size
      <4>1. g[s[i]] = F(s[i])
        BY <2>1, <3>2
      <4>2. ASSUME NEW k \in F(s[i]), s[k] < msg_size PROVE s[k] \in F(s[i])
        <5>1. k \in Places /\ s[k] \in Nat /\ s[k] \in Places
          BY <1>1, <4>2
        <5> SUFFICES ASSUME NEW T \in SUBSET Places, s[i] \in T, Closed(T) PROVE s[k] \in T
          BY <5>1
        <5>2. k \in T
          BY <4>2
        <5> QED
          BY <4>2, <5>2
      <4> QED
        BY <4>1, <4>2
    <3> QED
      BY <3>1, <3>2
  <2>3. s[i] < msg_size => s[i] \in g[s[i]]
    <3> SUFFICES ASSUME s[i] < msg_size PROVE s[i] \in F(s[i])
      BY <2>1
    <3> QED
      BY <1>1, <2>1
  <2>4. F(i) \subseteq {i} \cup g[s[i]]
    <3> DEFINE T == {i} \cup g[s[i]]
    <3>1. T \in SUBSET Places /\ i \in T
      BY <2>1, <2>2
    <3>2. Closed(T)
      BY <2>2, <2>3
    <3> HIDE DEF T
    <3>3. F(i) \subseteq T
      BY <3>1, <3>2
    <3> QED
      BY <3>3 DEF T
  <2>5. i \in F(i)
    BY <2>1
  <2>6. ASSUME NEW j \in g[s[i]] PROVE j \in F(i)
    <3>1. s[i] < msg_size /\ j \in F(s[i])
      BY <2>1, <2>6
    <3> SUFFICES ASSUME NEW T \in SUBSET Places, i \in T, Closed(T) PROVE j \in T
      BY <3>1
    <3>2. s[i] \in T
      BY <3>1
    <3> QED
      BY <3>1, <3>2
  <2> HIDE DEF F
  <2> QED
    BY <2>1, <2>4, <2>5, <2>6
<1>3. g = [i \in Nat |-> IF i < msg_size THEN {i} \cup g[s[i]] ELSE {}]
  <2>1. \A i \in Nat : g[i] = IF i < msg_size THEN {i} \cup g[s[i]] ELSE {}
    BY <1>2
  <2>2. g = [i \in Nat |-> g[i]]
    OBVIOUS
  <2> HIDE DEF g
  <2> QED
    BY <2>1, <2>2
<1> HIDE DEF g
<1>4. LinksFrom(s) = [i \in Nat |-> IF i < msg_size THEN {i} \cup LinksFrom(s)[s[i]] ELSE {}]
  BY <1>3 DEF LinksFrom
<1>5. Links(s) = LinksFrom(s)[s[0]]
  BY DEF Links, LinksFrom
<1> QED
  BY <1>4, <1>5

(* They find the zeros of an encoded message. *)
LEMMA LinksAreZeros ==
  ASSUME NEW m \in [Payload -> Nat]
  PROVE  Links(Encode(m)) = Zeros(m, 0)
<1> DEFINE f == LinksFrom(Encode(m))
           Bad == {i \in Places : f[NextZero(m, i)] # Zeros(m, i)}
<1>1. \A i \in Nat : f[i] = IF i < msg_size THEN {i} \cup f[Encode(m)[i]] ELSE {}
  BY EncodeType, LinksFromIs
<1> HIDE DEF f
<1>2. Bad = {}
  <2> SUFFICES ASSUME Bad # {} PROVE FALSE
    OBVIOUS
  <2>1. Bad \in SUBSET Nat /\ msg_size \in Nat /\ \A i \in Bad : i <= msg_size
    BY Sizes
  <2>2. PICK i \in Bad : \A k \in Bad : i >= k
    <3> HIDE DEF Bad
    <3> QED
      BY <2>1, Greatest
  <2> DEFINE z == NextZero(m, i)
  <2>3. i \in Places /\ f[z] # Zeros(m, i)
    OBVIOUS
  <2>4. z \in 1..msg_size /\ z > i
        /\ \/ Zeros(m, i) = {} /\ z = msg_size
           \/ z \in Zeros(m, i) /\ \A j \in Zeros(m, i) : z <= j
    BY <2>3, NextZeroIs
  <2> HIDE DEF z
  <2>5. CASE Zeros(m, i) = {} /\ z = msg_size
    <3>1. z \in Nat /\ ~(z < msg_size)
      BY <2>1, <2>5
    <3>2. f[z] = {}
      BY <1>1, <3>1
    <3> QED
      BY <2>3, <2>5, <3>2
  <2>6. CASE z \in Zeros(m, i) /\ \A j \in Zeros(m, i) : z <= j
    <3>1. z \in Payload /\ z \in Places /\ z \in Nat /\ z < msg_size /\ m[z] = 0 /\ i \in Nat
      BY <2>3, <2>6, Sizes DEF Zeros
    <3>2. f[z] = {z} \cup f[NextZero(m, z)]
      BY <1>1, <3>1, EncodeType
    <3>3. z \notin Bad
      BY <2>1, <2>2, <2>4, <3>1
    <3>4. f[NextZero(m, z)] = Zeros(m, z)
      BY <3>1, <3>3
    <3>5. Zeros(m, i) = {z} \cup Zeros(m, z)
      <4>1. \A j \in Payload : j \in Nat
        BY Sizes
      <4>2. ASSUME NEW j \in Payload
            PROVE  j > i /\ m[j] = 0 <=> j = z \/ (j > z /\ m[j] = 0)
        <5>1. j > i /\ m[j] = 0 => z <= j
          BY <2>6 DEF Zeros
        <5> QED
          BY <2>4, <3>1, <4>1, <5>1
      <4> QED
        BY <3>1, <4>2 DEF Zeros
    <3> QED
      BY <2>3, <3>2, <3>4, <3>5
  <2> QED
    BY <2>4, <2>5, <2>6
<1>3. f[NextZero(m, 0)] = Zeros(m, 0)
  BY <1>2, Sizes
<1> QED
  BY <1>3, EncodeType, LinksFromIs DEF f

(* Decoding gives the message back, whatever its words are. *)
LEMMA DecodeEncode ==
  ASSUME NEW m \in [Payload -> Nat]
  PROVE  Decode(Encode(m)) = m
<1>1. \A i \in Payload : i \in Zeros(m, 0) <=> m[i] = 0
  BY Sizes DEF Zeros
<1>2. \A i \in Payload : (IF i \in Zeros(m, 0) THEN 0 ELSE Encode(m)[i]) = m[i]
  BY <1>1, EncodeType
<1>3. m = [i \in Payload |-> m[i]]
  OBVIOUS
<1> QED
  BY <1>2, <1>3, LinksAreZeros DEF Decode

-----------------------------------------------------------------------------
(* Type correctness. *)

(* A queue that was just made is one of empty slots. *)
LEMMA InitType == Init => TypeOK
<1> SUFFICES ASSUME Init PROVE TypeOK
  OBVIOUS
<1>1. peek \in Messages
  BY PmQueueAssumption DEF Init
<1>2. peek \in [Payload -> Nat]
  BY <1>1, PmQueueAssumption
<1>3. 0 \in SlotStarts
  <2>1. 0 \in 0..(NumMsgs - 1) /\ Start(0) = 0
    BY Sizes, Multiples
  <2> QED
    BY <2>1, ByNumber
<1>4. buffer \in [0..(len - 1) -> Nat]
  BY DEF Init
<1> QED
  BY <1>1, <1>2, <1>3, <1>4, Sizes DEF Init, TypeOK

(* The words of a slot, and what they decode to. *)
LEMMA SlotType ==
  ASSUME TypeOK, NEW p \in SlotStarts
  PROVE  /\ \A i \in Places : buffer[p + i] \in Nat
         /\ Slot(p) \in [Places -> Nat]
         /\ Decode(Slot(p)) \in [Payload -> Nat]
<1>1. \A i \in Places : buffer[p + i] \in Nat
  BY SlotWords DEF TypeOK
<1>2. Slot(p) \in [Places -> Nat]
  BY <1>1 DEF Slot
<1>3. Decode(Slot(p)) \in [Payload -> Nat]
  <2>1. \A i \in Payload : (IF i \in Links(Slot(p)) THEN 0 ELSE Slot(p)[i]) \in Nat
    BY <1>2, Sizes
  <2> QED
    BY <2>1 DEF Decode
<1> QED
  BY <1>1, <1>2, <1>3

Stores(p, i, v) == buffer' = [buffer EXCEPT ![p + i] = v]

(* A store changes one word of one slot. *)
LEMMA WordStep ==
  ASSUME TypeOK, NEW p \in SlotStarts, NEW i \in Places, NEW v \in Nat,
         Stores(p, i, v)
  PROVE  /\ buffer' \in [0..(len - 1) -> Nat]
         /\ \A q \in SlotStarts, j \in Places :
              buffer'[q + j] = IF q = p /\ j = i THEN v ELSE buffer[q + j]
<1>1. buffer \in [0..(len - 1) -> Nat] /\ buffer' = [buffer EXCEPT ![p + i] = v]
  BY DEF TypeOK, Stores
<1>2. p + i \in 0..(len - 1)
  BY SlotWords
<1>3. buffer' \in [0..(len - 1) -> Nat]
  BY <1>1
<1>4. ASSUME NEW q \in SlotStarts, NEW j \in Places
      PROVE  buffer'[q + j] = IF q = p /\ j = i THEN v ELSE buffer[q + j]
  <2>1. q + j \in 0..(len - 1) /\ (p + i = q + j => p = q /\ i = j)
    BY SlotWords
  <2> QED
    BY <1>1, <1>2, <2>1
<1> QED
  BY <1>3, <1>4

(* The writer keeps the types. *)
LEMMA WriterType == TypeOK /\ WriterStep => TypeOK'
<1> SUFFICES ASSUME TypeOK, WriterStep PROVE TypeOK'
  OBVIOUS
<1> USE DEF TypeOK, reader, writer, peeked
<1>1. CASE Refuse
  BY <1>1 DEF Refuse, vars
<1>2. ASSUME NEW m \in Messages, Enqueue(m) PROVE TypeOK'
  BY <1>2, Sizes DEF Enqueue
<1>3. CASE TestFree
  <2>1. wat # MsgWords => wat + 1 \in Places
    BY Sizes DEF Places
  <2> QED
    BY <1>3, <2>1 DEF TestFree, LastTested
<1>4. CASE DropMessage
  BY <1>4 DEF DropMessage
<1>5. ASSUME NEW i \in Places, StoreWord(i) PROVE TypeOK'
  <2>1. Stores(tail, i, Encode(wmsg)[i]) /\ tail \in SlotStarts
    BY <1>5 DEF StoreWord, Stores
  <2>2. Encode(wmsg)[i] \in Nat
    BY EncodeType, PmQueueAssumption
  <2>3. buffer' \in [0..(len - 1) -> Nat]
    BY <2>1, <2>2, WordStep
  <2> QED
    BY <1>5, <2>3 DEF StoreWord
<1>6. CASE Enqueued
  <2>1. Following(tail) \in SlotStarts
    BY Circle
  <2> QED
    BY <1>6, <2>1 DEF Enqueued
<1>7. CASE SetOverflow
  BY <1>7 DEF SetOverflow
<1> QED
  BY <1>1, <1>2, <1>3, <1>4, <1>5, <1>6, <1>7 DEF WriterStep

(* The reader keeps the types. *)
LEMMA ReaderType == TypeOK /\ ReaderStep => TypeOK'
<1> SUFFICES ASSUME TypeOK, ReaderStep PROVE TypeOK'
  OBVIOUS
<1> USE DEF TypeOK, reader, writer, peeked
<1>1. CASE DequeuePeekedOverflow
  BY <1>1 DEF DequeuePeekedOverflow
<1>2. CASE DequeuePeeked
  BY <1>2 DEF DequeuePeeked
<1>3. ASSUME NEW op \in {"dequeue", "peek"}, Call(op) PROVE TypeOK'
  BY <1>3 DEF Call
<1>4. CASE CheckOverflow
  BY <1>4, Sizes DEF CheckOverflow
<1>5. CASE CheckEmptied
  BY <1>5, Sizes DEF CheckEmptied
<1>6. CASE Acknowledge
  BY <1>6 DEF Acknowledge
<1>7. CASE TestWord
  <2>1. rat # 0 => rat - 1 \in Places
    BY Sizes
  <2> QED
    BY <1>7, <2>1 DEF TestWord
<1>8. CASE Take
  BY <1>8, SlotType DEF Take
<1>9. ASSUME NEW i \in Places, ZeroWord(i) PROVE TypeOK'
  <2>1. Stores(head, i, 0) /\ head \in SlotStarts
    BY <1>9 DEF ZeroWord, Stores
  <2>2. buffer' \in [0..(len - 1) -> Nat]
    BY <2>1, WordStep
  <2> QED
    BY <1>9, <2>2 DEF ZeroWord
<1>10. CASE Dequeued
  <2>1. Following(head) \in SlotStarts
    BY Circle
  <2> QED
    BY <1>10, <2>1 DEF Dequeued
<1>11. CASE QueueEmpty
  BY <1>11 DEF QueueEmpty
<1> QED
  BY <1>1, <1>2, <1>3, <1>4, <1>5, <1>6, <1>7, <1>8, <1>9, <1>10, <1>11 DEF ReaderStep

(* The queue's indices stay at the starts of slots and its words naturals, *)
(* for every capacity and length of messages.                              *)
THEOREM QueueTypes == Spec => []TypeOK
<1>1. TypeOK /\ UNCHANGED vars => TypeOK'
  BY DEF TypeOK, vars, reader, writer, peeked
<1> QED
  BY <1>1, InitType, WriterType, ReaderType, PTL DEF Spec, Next

-----------------------------------------------------------------------------
(* The ring. *)

(* The oldest and the newest message are in slots. *)
LEMMA RingTypes ==
  ASSUME TypeOK
  PROVE  /\ Oldest \in SlotStarts /\ Newest \in SlotStarts
         /\ Most \in 0..NumMsgs /\ NumMsgs \in Nat \ {0}
         /\ Removing \in BOOLEAN /\ Storing \in BOOLEAN
<1>1. Following(head) \in SlotStarts /\ Following(tail) \in SlotStarts
  BY Circle DEF TypeOK
<1> QED
  BY <1>1, Sizes DEF TypeOK, Oldest, Newest, Most, Removing, Storing

(* A slot that holds a message is complete, and its message known. *)
LEMMA CodeIs ==
  ASSUME NEW p \in SlotStarts, Slot(p) \in Codes
  PROVE  /\ \A i \in Places : buffer[p + i] # 0
         /\ Decode(Slot(p)) \in Messages
<1>1. PICK m \in Messages : Slot(p) = Encode(m)
  BY DEF Codes
<1>2. m \in [Payload -> Nat]
  BY PmQueueAssumption
<1>3. \A i \in Places : Slot(p)[i] = buffer[p + i]
  BY DEF Slot
<1>4. \A i \in Places : buffer[p + i] # 0
  BY <1>1, <1>2, <1>3, EncodeType
<1> QED
  BY <1>1, <1>2, <1>4, DecodeEncode

(* Once n slots hold messages, the slot at Newest does not. *)
LEMMA NotComplete ==
  ASSUME TypeOK, WriterAt, NEW n \in 0..Most, Ring(n), n < Most
  PROVE  /\ At(Oldest, n) = Newest
         /\ Free(Newest) \/ (Storing /\ Newest = tail)
         /\ ~Complete(Newest)
<1> USE Sizes
<1>1. n \in n..(NumMsgs - 1) /\ (Removing => n # NumMsgs - 1)
  BY DEF Most
<1>2. Free(Newest) \/ (Storing /\ Newest = tail)
  BY <1>1 DEF Ring
<1>3. Storing => \E i \in Places : buffer[tail + i] = 0
  BY DEF Storing, WriterAt, TypeOK
<1> QED
  BY <1>2, <1>3 DEF Ring, Free, Complete

(* If no slot for a message is left, the writer's next one is taken. *)
LEMMA AllTaken ==
  ASSUME TypeOK, Ring(Most)
  PROVE  IF Removing THEN Newest = head ELSE Slot(Newest) \in Codes
<1> USE Sizes
<1>1. CASE Removing
  <2>1. Oldest = Following(head) /\ Most = NumMsgs - 1 /\ head \in SlotStarts
    BY <1>1 DEF Oldest, Removing, Most, TypeOK
  <2>2. At(Following(head), NumMsgs - 1) = At(head, NumMsgs - 1 + 1)
        /\ At(head, NumMsgs) = head
    BY <2>1, Circle
  <2>3. NumMsgs - 1 + 1 = NumMsgs
    OBVIOUS
  <2> QED
    BY <1>1, <2>1, <2>2, <2>3 DEF Ring
<1>2. CASE ~Removing
  <2>1. Most = NumMsgs /\ 0 \in 0..(NumMsgs - 1)
    BY <1>2 DEF Most
  <2>2. At(Oldest, NumMsgs) = Oldest /\ At(Oldest, 0) = Oldest
    BY RingTypes, Circle
  <2> QED
    BY <1>2, <2>1, <2>2 DEF Ring
<1> QED
  BY <1>1, <1>2

(* InRing finds exactly those n messages. *)
LEMMA InRingIs ==
  ASSUME TypeOK, WriterAt, NEW n \in 0..Most, Ring(n)
  PROVE  /\ InRing = [k \in 1..n |-> Decode(Slot(At(Oldest, k - 1)))]
         /\ InRing \in Seq(Messages) /\ Len(InRing) = n
<1> USE Sizes
<1> DEFINE S == {j \in 0..Most : \A k \in 0..(j - 1) : Complete(Place(k))}
<1>1. \A k \in Nat : Place(k) = At(Oldest, k)
  BY DEF Place, At
<1>2. n \in Nat /\ Most \in Nat /\ n <= Most /\ Most <= NumMsgs
  BY RingTypes
<1>3. \A k \in 0..(n - 1) : k \in Nat /\ At(Oldest, k) \in SlotStarts
                            /\ Slot(At(Oldest, k)) \in Codes
  <2>1. \A k \in 0..(n - 1) : k \in 0..NumMsgs
    BY <1>2
  <2> QED
    BY <2>1, RingTypes, Circle DEF Ring
<1>4. n \in S
  BY <1>1, <1>3, CodeIs DEF Complete
<1>5. ASSUME NEW j \in S PROVE j <= n
  <2> SUFFICES ASSUME j > n PROVE FALSE
    BY <1>2
  <2>1. n < Most /\ n \in 0..(j - 1)
    BY <1>2
  <2>2. Complete(At(Oldest, n))
    BY <1>1, <1>2, <2>1
  <2> QED
    BY <2>1, <2>2, NotComplete
<1>6. Max(S) = n
  <2>1. \A x \in S : x \in Nat
    BY <1>2
  <2> HIDE DEF S
  <2>2. \A x \in S : (\A y \in S : x >= y) => x = n
    BY <1>2, <1>4, <1>5, <2>1
  <2>3. \A y \in S : n >= y
    BY <1>2, <1>5, <2>1
  <2> QED
    BY <1>4, <2>2, <2>3 DEF Max
<1>7. InRing = [k \in 1..n |-> Decode(Slot(Place(k - 1)))]
  <2>1. S = {j \in 0..(IF Removing THEN NumMsgs - 1 ELSE NumMsgs) :
               \A k \in 0..(j - 1) : Complete(Place(k))}
    BY DEF Most
  <2> HIDE DEF S
  <2> QED
    BY <1>6, <2>1 DEF InRing
<1>8. \A k \in 1..n : k - 1 \in 0..(n - 1) /\ Place(k - 1) = At(Oldest, k - 1)
  BY <1>1, <1>2
<1>9. InRing = [k \in 1..n |-> Decode(Slot(At(Oldest, k - 1)))]
  BY <1>7, <1>8
<1>10. \A k \in 1..n : Decode(Slot(At(Oldest, k - 1))) \in Messages
  BY <1>3, <1>8, CodeIs
<1> QED
  BY <1>2, <1>9, <1>10

-----------------------------------------------------------------------------
(* What the two calls have seen stays true, whatever the other one does:   *)
(* the writer stores no 0 and the reader nothing else.                     *)

Local == TypeOK /\ WriterAt /\ ReaderAt /\ Apart

(* A word that the writer stores. *)
LEMMA StoreLocal ==
  ASSUME Local, NEW i \in Places, StoreWord(i)
  PROVE  /\ (WriterAt /\ ReaderAt /\ Apart)'
         /\ \A q \in SlotStarts, j \in Places :
              buffer'[q + j] = IF q = tail /\ j = i THEN Encode(wmsg)[i] ELSE buffer[q + j]
<1>1. /\ wpc = "store" /\ i \in wleft /\ wleft' = wleft \ {i} /\ Storing /\ overflow = 0
      /\ UNCHANGED <<head, tail, overflow, peeked, wpc, wmsg, wat, reader>>
      /\ buffer' = [buffer EXCEPT ![tail + i] = Encode(wmsg)[i]]
      /\ tail \in SlotStarts /\ head \in SlotStarts /\ rat \in Places
      /\ wleft \in SUBSET Places
  BY DEF StoreWord, Storing, Local, TypeOK, WriterAt
<1>2. Encode(wmsg)[i] \in Nat /\ Encode(wmsg)[i] # 0
  BY EncodeType, PmQueueAssumption DEF Local, TypeOK
<1>3. \A q \in SlotStarts, j \in Places :
        buffer'[q + j] = IF q = tail /\ j = i THEN Encode(wmsg)[i] ELSE buffer[q + j]
  <2>1. TypeOK /\ Stores(tail, i, Encode(wmsg)[i])
    BY DEF Local, StoreWord, Stores
  <2> QED
    BY <1>1, <1>2, <2>1, WordStep
<1>4. WriterAt'
  <2>1. \A j \in Places :
          buffer'[tail + j] = IF j = i THEN Encode(wmsg)[i] ELSE buffer[tail + j]
    BY <1>1, <1>3
  <2>2. \A j \in Places : buffer'[tail + j] = IF j \in wleft' THEN 0 ELSE Encode(wmsg)[j]
    BY <1>1, <2>1 DEF Local, WriterAt
  <2> QED
    BY <1>1, <2>2 DEF WriterAt
<1>5. \A j \in Places : buffer[head + j] # 0 => buffer'[head + j] # 0
  BY <1>1, <1>2, <1>3
<1>6. ASSUME Removing
      PROVE  \A j \in Places :
               IF j \in rleft THEN buffer'[head + j] # 0 ELSE buffer'[head + j] = 0
  <2>1. head # tail
    BY <1>1, <1>6 DEF Local, Apart
  <2>2. \A j \in Places : buffer'[head + j] = buffer[head + j]
    BY <1>1, <1>3, <2>1
  <2> QED
    BY <1>6, <2>2 DEF Local, ReaderAt
<1>7. rpc \notin {"first", "lost"}
  <2>1. head + 1 # 0
    BY <1>1, SlotWords, Sizes
  <2> QED
    BY <1>1, <2>1 DEF Local, ReaderAt
<1>8. ReaderAt'
  <2>1. /\ UNCHANGED <<rpc, rop, rat, rleft, msg, polled, peek, peek_flag, peek_overflow,
                       head, overflow>>
        /\ 0 \in Places
    BY <1>1, Sizes DEF reader, peeked
  <2>2. (rpc = "take" => Complete(head)')
    BY <1>5, <2>1 DEF Complete, Local, ReaderAt
  <2>3. polled /\ ~peek_flag /\ rpc # "zero" => buffer'[head] # 0
    <3>1. head + 0 = head
      BY <1>1, SlotWords
    <3> QED
      BY <1>5, <2>1, <3>1 DEF Local, ReaderAt
  <2>4. rpc = "test" => \A j \in Places : j > rat => buffer'[head + j] # 0
    BY <1>5 DEF Local, ReaderAt
  <2>5. Removing' => Removing
    BY <2>1 DEF Removing
  <2> QED
    BY <1>6, <1>7, <2>1, <2>2, <2>3, <2>4, <2>5 DEF Local, ReaderAt
<1>9. Apart'
  <2>1. (Removing' => Removing) /\ UNCHANGED <<head, tail>>
    BY <1>1 DEF Removing, reader
  <2> QED
    BY <1>1, <2>1 DEF Local, Apart
<1> QED
  BY <1>3, <1>4, <1>8, <1>9

(* The writer's other steps. *)
LEMMA WriterLocal ==
  ASSUME Local, WriterStep, ~\E i \in Places : StoreWord(i)
  PROVE  (WriterAt /\ ReaderAt /\ Apart)' /\ UNCHANGED <<buffer, head, reader, peeked>>
<1>1. UNCHANGED <<buffer, head, reader, peeked>>
  BY DEF WriterStep, Refuse, Enqueue, TestFree, DropMessage, Enqueued, SetOverflow, vars
<1>2. UNCHANGED <<rpc, rop, rat, rleft, msg, polled, peek, peek_flag, peek_overflow>>
  BY <1>1 DEF reader, peeked
<1>3. ReaderAt'
  <2>1. rpc \in {"first", "lost"} => overflow # 0
    <3>1. head + 1 # 0
      BY SlotWords, Sizes DEF Local, TypeOK
    <3> QED
      BY <3>1 DEF Local, ReaderAt
  <2>2. rpc \in {"first", "lost"} => overflow' = overflow
    BY <2>1 DEF WriterStep, Refuse, Enqueue, TestFree, DropMessage, Enqueued, SetOverflow,
                vars, Local, WriterAt
  <2>3. (Removing' <=> Removing) /\ (Complete(head)' <=> Complete(head))
    BY <1>1, <1>2 DEF Removing, Complete
  <2> QED
    BY <1>1, <1>2, <2>2, <2>3 DEF Local, ReaderAt
<1> SUFFICES WriterAt' /\ Apart'
  BY <1>1, <1>3
<1>4. ASSUME ~Storing' PROVE Apart'
  BY <1>4 DEF Apart
<1>5. CASE Refuse
  BY <1>3, <1>5 DEF Refuse, vars, Local, WriterAt, Storing, Apart, Removing,
                    reader, writer
<1>6. ASSUME NEW m \in Messages, Enqueue(m) PROVE WriterAt' /\ Apart'
  <2>1. wpc' = "test" /\ wat' = 0 /\ overflow' = 0
    BY <1>6 DEF Enqueue
  <2>2. ~\E i \in Places : i < 0
    BY Sizes
  <2> QED
    BY <1>4, <2>1, <2>2 DEF WriterAt, Storing
<1>7. CASE TestFree
  <2>1. /\ wpc = "test" /\ UNCHANGED <<buffer, tail, overflow, wmsg>> /\ overflow = 0
        /\ wat \in Places /\ tail \in SlotStarts
        /\ \A i \in Places : i < wat => buffer[tail + i] = 0
    BY <1>7 DEF TestFree, Local, WriterAt, TypeOK
  <2>2. CASE wpc' = "full"
    BY <1>4, <2>1, <2>2 DEF WriterAt, Storing
  <2>3. CASE wpc' = "store"
    <3>1. wleft' = Places /\ wat = MsgWords /\ buffer[tail + wat] = 0
      BY <1>7, <2>1, <2>3 DEF TestFree, LastTested
    <3>2. \A i \in Places : i < wat \/ i = wat
      BY <3>1, Sizes DEF Places
    <3>3. \A i \in Places : buffer[tail + i] = 0
      BY <2>1, <3>1, <3>2
    <3>4. WriterAt'
      BY <2>1, <2>3, <3>1, <3>3 DEF WriterAt
    <3>5. ASSUME Removing, head = tail PROVE FALSE
      <4>1. PICK i \in rleft : i \in Places
        BY <3>5 DEF Removing, Local, TypeOK
      <4>2. buffer[head + i] # 0
        BY <3>5, <4>1 DEF Local, ReaderAt
      <4> QED
        BY <3>3, <3>5, <4>1, <4>2
    <3> QED
      BY <1>1, <1>2, <2>1, <3>4, <3>5 DEF Apart, Removing
  <2>4. CASE wpc' = "test"
    <3>1. wat' = wat + 1 /\ buffer[tail + wat] = 0
      BY <1>7, <2>1, <2>4 DEF TestFree
    <3>2. \A i \in Places : i < wat + 1 => i < wat \/ i = wat
      BY <2>1, Sizes
    <3>3. \A i \in Places : i < wat' => buffer[tail + i] = 0
      BY <2>1, <3>1, <3>2
    <3> QED
      BY <1>4, <2>1, <2>4, <3>3 DEF WriterAt, Storing
  <2> QED
    BY <1>7, <2>1, <2>2, <2>3, <2>4 DEF TestFree
<1>8. CASE DropMessage \/ Enqueued
  BY <1>4, <1>8 DEF DropMessage, Enqueued, WriterAt, Storing
<1>9. CASE SetOverflow
  BY <1>4, <1>9 DEF SetOverflow, WriterAt, Storing, writer
<1> QED
  BY <1>1, <1>3, <1>5, <1>6, <1>7, <1>8, <1>9 DEF WriterStep

(* A slot that the reader finds complete holds the oldest message. *)
LEMMA Taken ==
  ASSUME TypeOK, WriterAt, rpc # "zero", Complete(head), NEW n \in 0..Most, Ring(n)
  PROVE  /\ n > 0 /\ Oldest = head /\ Most = NumMsgs
         /\ Slot(head) \in Codes /\ Decode(Slot(head)) \in Messages
<1> USE Sizes
<1>1. Oldest = head /\ Most = NumMsgs /\ ~Removing /\ head \in SlotStarts
  BY DEF Oldest, Most, Removing, TypeOK
<1>2. At(Oldest, 0) = head
  BY <1>1, Circle
<1>3. n # 0
  BY <1>1, <1>2, NotComplete
<1>4. n > 0 /\ 0 \in 0..(n - 1)
  BY <1>1, <1>3
<1>5. Slot(head) \in Codes
  BY <1>2, <1>4 DEF Ring
<1> QED
  BY <1>1, <1>4, <1>5, CodeIs

(* A word that the reader zeroes. *)
LEMMA ZeroLocal ==
  ASSUME Local, NEW i \in Places, ZeroWord(i)
  PROVE  /\ (WriterAt /\ ReaderAt /\ Apart)'
         /\ \A q \in SlotStarts, j \in Places :
              buffer'[q + j] = IF q = head /\ j = i THEN 0 ELSE buffer[q + j]
<1>1. /\ rpc = "zero" /\ i \in rleft /\ rleft' = rleft \ {i} /\ Removing
      /\ UNCHANGED <<head, tail, overflow, peeked, writer, rpc, rop, rat, msg, polled>>
      /\ tail \in SlotStarts /\ head \in SlotStarts /\ rleft \in SUBSET Places
  BY DEF ZeroWord, Removing, Local, TypeOK
<1>2. \A q \in SlotStarts, j \in Places :
        buffer'[q + j] = IF q = head /\ j = i THEN 0 ELSE buffer[q + j]
  <2>1. TypeOK /\ Stores(head, i, 0) /\ 0 \in Nat
    BY DEF Local, ZeroWord, Stores
  <2> QED
    BY <1>1, <2>1, WordStep
<1>3. UNCHANGED <<wpc, wmsg, wat, wleft, peek, peek_flag, peek_overflow>>
  BY <1>1 DEF writer, peeked
<1>4. WriterAt'
  <2>1. \A j \in Places : buffer[tail + j] = 0 => buffer'[tail + j] = 0
    BY <1>1, <1>2
  <2>2. ASSUME Storing
        PROVE  \A j \in Places : buffer'[tail + j] = IF j \in wleft THEN 0 ELSE Encode(wmsg)[j]
    <3>1. head # tail
      BY <1>1, <2>2 DEF Local, Apart
    <3>2. \A j \in Places : buffer'[tail + j] = buffer[tail + j]
      BY <1>1, <1>2, <3>1
    <3> QED
      BY <2>2, <3>2 DEF Local, WriterAt
  <2>3. Storing' => Storing
    BY <1>3 DEF Storing
  <2>4. wpc = "test" => \A j \in Places : j < wat => buffer'[tail + j] = 0
    BY <2>1 DEF Local, WriterAt
  <2>5. wpc # "idle" => overflow = 0
    BY DEF Local, WriterAt
  <2> QED
    BY <1>1, <1>3, <2>2, <2>3, <2>4, <2>5 DEF WriterAt
<1>5. ReaderAt'
  <2>1. \A j \in Places : buffer'[head + j] = IF j = i THEN 0 ELSE buffer[head + j]
    BY <1>1, <1>2
  <2>2. \A j \in Places :
          IF j \in rleft' THEN buffer'[head + j] # 0 ELSE buffer'[head + j] = 0
    BY <1>1, <2>1 DEF Local, ReaderAt
  <2> QED
    BY <1>1, <1>3, <2>2 DEF Local, ReaderAt
<1>6. Apart'
  BY <1>1, <1>3 DEF Local, Apart, Storing
<1> QED
  BY <1>2, <1>4, <1>5, <1>6

(* The reader's other steps. *)
LEMMA ReaderLocal ==
  ASSUME Local, RingOK, ReaderStep, ~\E i \in Places : ZeroWord(i)
  PROVE  (WriterAt /\ ReaderAt /\ Apart)' /\ UNCHANGED <<buffer, tail, writer>>
<1>1. UNCHANGED <<buffer, tail, writer>>
  BY DEF ReaderStep, DequeuePeekedOverflow, DequeuePeeked, Call, CheckOverflow,
         CheckEmptied, Acknowledge, TestWord, Take, Dequeued, QueueEmpty
<1>2. UNCHANGED <<wpc, wmsg, wat, wleft>> /\ (Storing' <=> Storing)
  BY <1>1 DEF writer, Storing
<1>3. WriterAt'
  <2>1. overflow' \in {0, overflow}
    BY DEF ReaderStep, DequeuePeekedOverflow, DequeuePeeked, Call, CheckOverflow,
           CheckEmptied, Acknowledge, TestWord, Take, Dequeued, QueueEmpty
  <2> QED
    BY <1>1, <1>2, <2>1 DEF Local, WriterAt
<1> SUFFICES ReaderAt' /\ Apart'
  BY <1>1, <1>3
<1>4. ASSUME ~Removing' PROVE Apart'
  BY <1>4 DEF Apart
<1>5. CASE DequeuePeekedOverflow
  BY <1>1, <1>4, <1>5 DEF DequeuePeekedOverflow, ReaderAt, Removing, Local, Complete
<1>6. CASE DequeuePeeked
  BY <1>1, <1>4, <1>6 DEF DequeuePeeked, ReaderAt, Removing, Local, Complete
<1>7. ASSUME NEW op \in {"dequeue", "peek"}, Call(op) PROVE ReaderAt' /\ Apart'
  BY <1>1, <1>4, <1>7 DEF Call, ReaderAt, Removing, Local, Complete, peeked
<1>8. CASE CheckOverflow
  <2>1. ~\E j \in Places : j > MsgWords
    BY Sizes DEF Places
  <2>2. /\ UNCHANGED <<buffer, head, overflow, peek, peek_flag, peek_overflow, rop, polled>>
        /\ rpc = "overflow"
        /\ \/ rpc' = "first" /\ overflow = head + 1
           \/ rpc' = "test" /\ rat' = MsgWords
    BY <1>8 DEF CheckOverflow, peeked
  <2> QED
    BY <1>4, <2>1, <2>2 DEF ReaderAt, Removing, Local
<1>9. CASE CheckEmptied
  <2>1. ~\E j \in Places : j > MsgWords
    BY Sizes DEF Places
  <2>2. /\ UNCHANGED <<buffer, head, overflow, peek, peek_flag, peek_overflow, rop, polled>>
        /\ rpc = "first"
        /\ \/ rpc' = "lost" /\ buffer[head] = 0
           \/ rpc' = "test" /\ rat' = MsgWords
    BY <1>9 DEF CheckEmptied, peeked
  <2> QED
    BY <1>4, <2>1, <2>2 DEF ReaderAt, Removing, Local
<1>10. CASE Acknowledge
  BY <1>1, <1>4, <1>10 DEF Acknowledge, ReaderAt, Removing, Local, Complete
<1>11. CASE TestWord
  <2>1. /\ UNCHANGED <<buffer, head, overflow, peek, peek_flag, peek_overflow, rop>>
        /\ rpc = "test" /\ rat \in Places /\ \A j \in Places : j > rat => buffer[head + j] # 0
    BY <1>11 DEF TestWord, peeked, Local, ReaderAt, TypeOK
  <2>2. CASE rpc' = "idle"
    <3>1. ~polled'
      BY <1>11, <2>1, <2>2 DEF TestWord
    <3> QED
      BY <1>4, <2>1, <2>2, <3>1 DEF ReaderAt, Removing, Local
  <2>3. CASE rpc' = "take"
    <3>1. rat = 0 /\ buffer[head + rat] # 0 /\ polled' = polled
      BY <1>11, <2>1, <2>3 DEF TestWord
    <3>2. \A j \in Places : j > rat \/ j = rat
      BY <3>1, Sizes
    <3>3. Complete(head)'
      BY <2>1, <3>1, <3>2 DEF Complete
    <3> QED
      BY <1>4, <2>1, <2>3, <3>1, <3>3 DEF ReaderAt, Removing, Local
  <2>4. CASE rpc' = "test"
    <3>1. rat' = rat - 1 /\ buffer[head + rat] # 0 /\ polled' = polled
      BY <1>11, <2>1, <2>4 DEF TestWord
    <3>2. \A j \in Places : j > rat - 1 => j > rat \/ j = rat
      BY <2>1, Sizes
    <3>3. \A j \in Places : j > rat' => buffer'[head' + j] # 0
      BY <2>1, <3>1, <3>2
    <3> QED
      BY <1>4, <2>1, <2>4, <3>1, <3>3 DEF ReaderAt, Removing, Local
  <2> QED
    BY <1>11, <2>1, <2>2, <2>3, <2>4 DEF TestWord
<1>12. CASE Take
  <2>1. /\ rpc = "take" /\ rpc' = "zero" /\ rleft' = Places /\ msg' = Decode(Slot(head))
        /\ UNCHANGED <<buffer, head, tail, peek, peek_flag, peek_overflow, rop>>
    BY <1>12 DEF Take, peeked
  <2>2. Complete(head)
    BY <2>1 DEF Local, ReaderAt
  <2>3. msg' \in Messages
    BY <2>1, <2>2, Taken DEF Local, RingOK
  <2>4. \A j \in Places : buffer'[head' + j] # 0
    BY <2>1, <2>2 DEF Complete
  <2>5. ReaderAt'
    BY <2>1, <2>3, <2>4 DEF Local, ReaderAt
  <2>6. ASSUME Storing, head = tail PROVE FALSE
    <3>1. PICK j \in wleft : j \in Places
      BY <2>6 DEF Storing, Local, TypeOK
    <3>2. buffer[tail + j] = 0
      BY <2>6, <3>1 DEF Local, WriterAt
    <3> QED
      BY <2>2, <2>6, <3>1, <3>2 DEF Complete
  <2> QED
    BY <1>2, <2>1, <2>5, <2>6 DEF Apart
<1>13. CASE Dequeued
  BY <1>4, <1>13 DEF Dequeued, ReaderAt, Removing, Local
<1>14. CASE QueueEmpty
  BY <1>1, <1>4, <1>14 DEF QueueEmpty, IsEmpty, ReaderAt, Removing, Local, Complete, peeked
<1> QED
  BY <1>5, <1>6, <1>7, <1>8, <1>9, <1>10, <1>11, <1>12, <1>13, <1>14 DEF ReaderStep

-----------------------------------------------------------------------------
(* The ring, step by step. *)

(* A slot none of whose words is stored or zeroed. *)
LEMMA SlotSame ==
  ASSUME NEW q, \A j \in Places : buffer'[q + j] = buffer[q + j]
  PROVE  Slot(q)' = Slot(q) /\ (Free(q)' <=> Free(q))
BY DEF Slot, Free

(* The ring stays as it is when no word, and neither end of it, changes. *)
LEMMA RingKept ==
  ASSUME NEW n, Ring(n), UNCHANGED <<buffer, Oldest, Newest>>,
         Storing => Storing' /\ tail' = tail,
         Removing => Removing' /\ head' = head
  PROVE  Ring(n)'
<1>1. \A q : Slot(q)' = Slot(q) /\ (Free(q) => Free(q)')
  BY DEF Slot, Free
<1>2. Newest' = At(Oldest', n) /\ Oldest' = Oldest
  BY DEF Ring
<1>3. \A k \in 0..(n - 1) : Slot(At(Oldest, k))' \in Codes
  BY <1>1 DEF Ring
<1>4. \A k \in n..(NumMsgs - 1) :
        \/ Free(At(Oldest, k))'
        \/ Storing' /\ k = n /\ At(Oldest, k) = tail'
        \/ Removing' /\ k = NumMsgs - 1 /\ At(Oldest, k) = head'
  BY <1>1 DEF Ring
<1> HIDE DEF Slot, Free
<1> QED
  BY <1>2, <1>3, <1>4 DEF Ring, Slot, Free

(* While the writer stores into a slot, that slot is the one behind the    *)
(* last message.                                                           *)
LEMMA StoringPlace ==
  ASSUME Local, Storing, NEW n \in 0..Most, Ring(n)
  PROVE  /\ n < Most /\ n \in 0..(NumMsgs - 1) /\ Newest = tail /\ At(Oldest, n) = tail
         /\ \A k \in 0..(NumMsgs - 1) : k # n => At(Oldest, k) # tail
<1>1. TypeOK /\ WriterAt /\ n \in Nat /\ Most \in 0..NumMsgs /\ NumMsgs \in Nat \ {0}
      /\ tail \in SlotStarts /\ Oldest \in SlotStarts
  BY RingTypes DEF Local, TypeOK
<1>2. Newest = tail
  BY DEF Newest, Storing
<1>3. PICK i \in Places : buffer[tail + i] = 0
  BY DEF Local, Storing, WriterAt, TypeOK
<1>4. n < Most
  <2> SUFFICES ASSUME n = Most PROVE FALSE
    BY <1>1
  <2>1. IF Removing THEN tail = head ELSE Slot(tail) \in Codes
    BY <1>1, <1>2, AllTaken
  <2>2. CASE Removing
    BY <2>1, <2>2 DEF Local, Apart
  <2>3. CASE ~Removing
    BY <1>1, <1>3, <2>1, <2>3, CodeIs
  <2> QED
    BY <2>2, <2>3
<1>5. n \in 0..(NumMsgs - 1)
  BY <1>1, <1>4
<1>6. At(Oldest, n) = tail
  BY <1>2 DEF Ring
<1> QED
  BY <1>1, <1>2, <1>4, <1>5, <1>6, Circle

(* The last word of a message, whichever it is, puts the message into the  *)
(* ring; the others do not show.                                           *)
LEMMA StoreRing ==
  ASSUME Local, NEW i \in Places, StoreWord(i), NEW n \in 0..Most, Ring(n)
  PROVE  /\ IF wleft' = {}
            THEN n + 1 \in 0..Most' /\ Ring(n + 1)' /\ Slot(tail)' = Encode(wmsg)
            ELSE n \in 0..Most' /\ Ring(n)'
         /\ n < Most /\ At(Oldest, n) = tail /\ Oldest' = Oldest
         /\ \A k \in 0..(n - 1) : Slot(At(Oldest, k))' = Slot(At(Oldest, k))
<1>1. /\ Storing /\ wpc' = "store" /\ wleft' = wleft \ {i}
      /\ UNCHANGED <<head, tail, overflow, wmsg, rpc, rleft>>
      /\ tail \in SlotStarts /\ wpc = "store"
  BY DEF StoreWord, Storing, Local, TypeOK, reader
<1>2. Oldest' = Oldest /\ Removing' = Removing /\ Most' = Most
  BY <1>1 DEF Oldest, Removing, Most
<1>3. /\ n < Most /\ n \in 0..(NumMsgs - 1) /\ Newest = tail /\ At(Oldest, n) = tail
      /\ \A k \in 0..(NumMsgs - 1) : k # n => At(Oldest, k) # tail
  BY <1>1, StoringPlace
<1>4. Oldest \in SlotStarts /\ Most \in 0..NumMsgs /\ NumMsgs \in Nat \ {0} /\ n \in Nat
  BY RingTypes DEF Local
<1>5. \A q \in SlotStarts, j \in Places :
        buffer'[q + j] = IF q = tail /\ j = i THEN Encode(wmsg)[i] ELSE buffer[q + j]
  BY StoreLocal
<1>6. \A q \in SlotStarts : q # tail => Slot(q)' = Slot(q) /\ (Free(q)' <=> Free(q))
  BY <1>5, SlotSame
<1>7. \A k \in 0..(NumMsgs - 1) : k # n =>
        /\ Slot(At(Oldest, k))' = Slot(At(Oldest, k))
        /\ Free(At(Oldest, k))' <=> Free(At(Oldest, k))
  <2>1. \A k \in 0..(NumMsgs - 1) : k \in 0..NumMsgs
    BY <1>4
  <2>2. \A k \in 0..(NumMsgs - 1) : At(Oldest, k) \in SlotStarts
    BY <1>4, <2>1, Circle
  <2> QED
    BY <1>2, <1>3, <1>6, <2>2
<1>8. \A k \in 0..(n - 1) : k \in 0..(NumMsgs - 1) /\ k # n
  BY <1>3, <1>4
<1>9. \A k \in 0..(n - 1) : Slot(At(Oldest, k))' \in Codes
  BY <1>7, <1>8 DEF Ring
<1>10. \A k \in n..(NumMsgs - 1) : k # n =>
         Free(At(Oldest, k))' \/ (Removing /\ k = NumMsgs - 1 /\ At(Oldest, k) = head)
  <2>1. \A k \in n..(NumMsgs - 1) : k \in 0..(NumMsgs - 1)
    BY <1>3, <1>4
  <2> QED
    BY <1>7, <2>1 DEF Ring
<1> SUFFICES IF wleft' = {}
             THEN n + 1 \in 0..Most' /\ Ring(n + 1)' /\ Slot(tail)' = Encode(wmsg)
             ELSE n \in 0..Most' /\ Ring(n)'
  BY <1>2, <1>3, <1>7, <1>8
<1>11. CASE wleft' # {}
  <2>1. Storing' /\ Newest' = tail
    BY <1>1, <1>11 DEF Storing, Newest
  <2>2. \A k \in n..(NumMsgs - 1) :
         \/ Free(At(Oldest, k))'
         \/ Storing' /\ k = n /\ At(Oldest, k) = tail'
         \/ Removing' /\ k = NumMsgs - 1 /\ At(Oldest, k) = head'
    BY <1>1, <1>2, <1>3, <1>10, <2>1
  <2>3. Ring(n)'
    BY <1>2, <1>3, <1>9, <2>1, <2>2 DEF Ring
  <2> QED
    BY <1>2, <1>11, <2>3
<1>12. CASE wleft' = {}
  <2>1. Newest' = Following(tail) /\ Following(tail) = At(Oldest, n + 1)
    BY <1>1, <1>3, <1>4, <1>12, Circle DEF Newest
  <2>2. Slot(tail)' = Encode(wmsg)
    <3>1. \A j \in Places : j # i => j \notin wleft
      BY <1>1, <1>12
    <3>2. \A j \in Places : buffer'[tail + j] = Encode(wmsg)[j]
      BY <1>1, <1>5, <3>1 DEF Local, WriterAt
    <3>3. Encode(wmsg) = [j \in Places |-> Encode(wmsg)[j]]
      BY EncodeType, PmQueueAssumption DEF Local, TypeOK
    <3> HIDE DEF Encode
    <3> QED
      BY <1>1, <3>2, <3>3 DEF Slot
  <2>3. Slot(At(Oldest, n))' \in Codes
    BY <1>1, <1>2, <1>3, <2>2 DEF Codes, Local, TypeOK
  <2>4. \A k \in 0..(n + 1 - 1) : Slot(At(Oldest, k))' \in Codes
    <3>1. \A k \in 0..(n + 1 - 1) : k = n \/ k \in 0..(n - 1)
      BY <1>4
    <3> QED
      BY <1>9, <2>3, <3>1
  <2>5. \A k \in (n + 1)..(NumMsgs - 1) :
          Free(At(Oldest, k))' \/ (Removing /\ k = NumMsgs - 1 /\ At(Oldest, k) = head)
    <3>1. \A k \in (n + 1)..(NumMsgs - 1) : k # n /\ k \in n..(NumMsgs - 1)
      BY <1>4
    <3> QED
      BY <1>10, <3>1
  <2>6. n + 1 \in 0..Most'
    BY <1>2, <1>3, <1>4
  <2>7. Ring(n + 1)'
    BY <1>1, <1>2, <2>1, <2>4, <2>5 DEF Ring
  <2> QED
    BY <1>12, <2>2, <2>6, <2>7
<1> QED
  BY <1>11, <1>12

(* Taking the oldest message takes it out of the ring, and the second      *)
(* message becomes the oldest.                                             *)
LEMMA TakeRing ==
  ASSUME Local, Take, NEW n \in 0..Most, Ring(n)
  PROVE  /\ n - 1 \in 0..Most' /\ Ring(n - 1)'
         /\ n \in 1..NumMsgs /\ Oldest = head /\ At(Oldest, 0) = head
         /\ \A k \in 0..(n - 2) : At(Oldest, k + 1) = At(Oldest', k)
<1>1. /\ rpc = "take" /\ rpc' = "zero" /\ rleft' = Places
      /\ UNCHANGED <<buffer, head, tail, wpc, wleft>>
      /\ head \in SlotStarts
  BY DEF Take, Local, TypeOK, writer
<1>2. Complete(head)
  BY <1>1 DEF Local, ReaderAt
<1>3. n > 0 /\ Oldest = head /\ Most = NumMsgs
  BY <1>1, <1>2, Taken DEF Local
<1>4. Removing' /\ Oldest' = Following(head) /\ Newest' = Newest /\ Most' = NumMsgs - 1
      /\ (Storing' <=> Storing)
  BY <1>1, Sizes DEF Removing, Oldest, Newest, Most, Storing
<1>5. NumMsgs \in Nat \ {0} /\ n \in Nat /\ n <= NumMsgs
  BY <1>3, Sizes
<1>6. \A k \in 0..(NumMsgs - 1) : At(Following(head), k) = At(head, k + 1)
  BY <1>1, Circle
<1>7. At(head, NumMsgs) = head /\ At(head, 0) = head
  BY <1>1, Circle
<1>8. Newest = At(Following(head), n - 1)
  <2>1. n - 1 \in 0..(NumMsgs - 1) /\ n - 1 + 1 = n
    BY <1>3, <1>5
  <2>2. At(Following(head), n - 1) = At(head, n)
    BY <1>6, <2>1
  <2> QED
    BY <1>3, <2>2 DEF Ring
<1>9. \A k \in 0..(n - 2) : At(Following(head), k) = At(head, k + 1) /\ k + 1 \in 0..(n - 1)
  <2>1. \A k \in 0..(n - 2) : k \in 0..(NumMsgs - 1) /\ k + 1 \in 0..(n - 1)
    BY <1>5
  <2> QED
    BY <1>6, <2>1
<1>10. \A q : Slot(q)' = Slot(q) /\ (Free(q)' <=> Free(q))
  BY <1>1 DEF Slot, Free
<1>11. \A k \in 0..(n - 1 - 1) : Slot(At(Following(head), k))' \in Codes
  <2>1. \A k \in 0..(n - 1 - 1) : k \in 0..(n - 2)
    BY <1>5
  <2>2. \A k \in 0..(n - 1) : Slot(At(head, k)) \in Codes
    BY <1>3 DEF Ring
  <2> HIDE DEF Slot
  <2>3. \A k \in 0..(n - 1 - 1) : Slot(At(Following(head), k)) \in Codes
    BY <1>9, <2>1, <2>2
  <2> QED
    BY <1>1, <1>10, <2>3 DEF Slot
<1>12. ASSUME NEW k \in (n - 1)..(NumMsgs - 1)
       PROVE  \/ Free(At(Following(head), k))
              \/ Storing /\ k = n - 1 /\ At(Following(head), k) = tail
              \/ k = NumMsgs - 1 /\ At(Following(head), k) = head
  <2>1. k \in 0..(NumMsgs - 1)
    BY <1>3, <1>5
  <2>2. At(Following(head), k) = At(head, k + 1)
    BY <1>6, <2>1
  <2>3. CASE k = NumMsgs - 1
    <3>1. k + 1 = NumMsgs
      BY <1>5, <2>3
    <3> QED
      BY <1>7, <2>2, <2>3, <3>1
  <2>4. CASE k # NumMsgs - 1
    <3>1. k + 1 \in n..(NumMsgs - 1) /\ (k + 1 = n => k = n - 1)
      BY <1>3, <1>5, <2>1, <2>4
    <3>2. ~Removing
      BY <1>1 DEF Removing
    <3>3. \/ Free(At(head, k + 1))
          \/ Storing /\ k + 1 = n /\ At(head, k + 1) = tail
      BY <1>3, <3>1, <3>2 DEF Ring
    <3> QED
      BY <2>2, <3>1, <3>3
  <2> QED
    BY <2>3, <2>4
<1>13. \A k \in (n - 1)..(NumMsgs - 1) :
          \/ Free(At(Oldest, k))'
          \/ Storing' /\ k = n - 1 /\ At(Oldest', k) = tail'
          \/ Removing' /\ k = NumMsgs - 1 /\ At(Oldest', k) = head'
  <2>1. \A k : Free(At(Oldest, k))' <=> Free(At(Following(head), k))
    BY <1>1, <1>4 DEF Free
  <2> QED
    BY <1>1, <1>4, <1>12, <2>1
<1>14. Ring(n - 1)'
  <2>1. Newest' = At(Oldest', n - 1)
    BY <1>4, <1>8
  <2>2. \A k \in 0..(n - 1 - 1) : Slot(At(Oldest, k))' \in Codes
    BY <1>1, <1>4, <1>11 DEF Slot
  <2> QED
    BY <1>13, <2>1, <2>2 DEF Ring
<1>15. n - 1 \in 0..Most' /\ n \in 1..NumMsgs
  BY <1>3, <1>4, <1>5
<1> QED
  BY <1>3, <1>4, <1>7, <1>9, <1>14, <1>15

(* Zeroing the slot of the message that was taken changes no message.      *)
LEMMA ZeroRing ==
  ASSUME Local, NEW i \in Places, ZeroWord(i), NEW n \in 0..Most, Ring(n)
  PROVE  /\ n \in 0..Most' /\ Ring(n)' /\ Oldest' = Oldest
         /\ \A k \in 0..(n - 1) : Slot(At(Oldest, k))' = Slot(At(Oldest, k))
<1>1. /\ rpc = "zero" /\ i \in rleft /\ rleft' = rleft \ {i} /\ Removing
      /\ UNCHANGED <<head, tail, wpc, wleft, rpc>>
      /\ head \in SlotStarts /\ Oldest = Following(head)
  BY DEF ZeroWord, Removing, Local, TypeOK, writer, Oldest
<1>2. Oldest' = Oldest /\ Newest' = Newest /\ (Storing' <=> Storing)
  BY <1>1 DEF Oldest, Newest, Storing
<1>3. n \in Nat /\ NumMsgs \in Nat \ {0} /\ n <= NumMsgs - 1 /\ Oldest \in SlotStarts
  BY <1>1, RingTypes DEF Local, Most
<1>4. n \in 0..Most'
  BY <1>3 DEF Most
<1>5. At(Oldest, NumMsgs - 1) = head /\ \A k \in 0..(NumMsgs - 1) :
        At(Oldest, k) \in SlotStarts /\ (k # NumMsgs - 1 => At(Oldest, k) # head)
  <2>1. NumMsgs - 1 \in 0..(NumMsgs - 1) /\ NumMsgs - 1 + 1 = NumMsgs
    BY <1>3
  <2>2. At(Oldest, NumMsgs - 1) = At(head, NumMsgs)
    BY <1>1, <2>1, Circle
  <2>3. At(Oldest, NumMsgs - 1) = head
    BY <1>1, <2>2, Circle
  <2>4. \A k \in 0..(NumMsgs - 1) : k \in 0..NumMsgs
    BY <1>3
  <2>5. \A k \in 0..(NumMsgs - 1) : At(Oldest, k) \in SlotStarts
    BY <1>3, <2>4, Circle
  <2>6. \A k \in 0..(NumMsgs - 1) : At(Oldest, k) = At(Oldest, NumMsgs - 1) => k = NumMsgs - 1
    BY <1>3, <2>1, Circle
  <2> QED
    BY <2>3, <2>5, <2>6
<1>6. \A q \in SlotStarts, j \in Places :
        buffer'[q + j] = IF q = head /\ j = i THEN 0 ELSE buffer[q + j]
  BY ZeroLocal
<1>7. \A q \in SlotStarts : q # head => Slot(q)' = Slot(q) /\ (Free(q)' <=> Free(q))
  BY <1>6, SlotSame
<1>8. \A k \in 0..(NumMsgs - 1) : k # NumMsgs - 1 =>
        Slot(At(Oldest, k))' = Slot(At(Oldest, k))
        /\ (Free(At(Oldest, k))' <=> Free(At(Oldest, k)))
  BY <1>2, <1>5, <1>7
<1>9. \A k \in 0..(n - 1) : Slot(At(Oldest, k))' = Slot(At(Oldest, k))
  <2>1. \A k \in 0..(n - 1) : k \in 0..(NumMsgs - 1) /\ k # NumMsgs - 1
    BY <1>3
  <2> QED
    BY <1>8, <2>1
<1>10. \A k \in 0..(n - 1) : Slot(At(Oldest, k))' \in Codes
  BY <1>9 DEF Ring
<1>11. rleft' = {} => Free(head)'
  <2> SUFFICES ASSUME rleft' = {} PROVE \A j \in Places : buffer'[head + j] = 0
    BY <1>1 DEF Free
  <2>1. \A j \in Places : j # i => buffer[head + j] = 0
    BY <1>1 DEF Local, ReaderAt
  <2> QED
    BY <1>1, <1>6, <2>1
<1>12. rleft' # {} => Removing'
  BY <1>1 DEF Removing
<1>13. ASSUME NEW k \in n..(NumMsgs - 1)
       PROVE  \/ Free(At(Oldest, k))'
              \/ Storing' /\ k = n /\ At(Oldest, k) = tail'
              \/ Removing' /\ k = NumMsgs - 1 /\ At(Oldest, k) = head'
  <2>0. k \in 0..(NumMsgs - 1)
    BY <1>3
  <2>1. CASE k = NumMsgs - 1
    <3>1. At(Oldest, k) = head /\ At(Oldest', k) = head /\ head' = head
      BY <1>1, <1>2, <1>5, <2>1
    <3> QED
      BY <1>11, <1>12, <2>1, <3>1
  <2>2. CASE k # NumMsgs - 1
    BY <1>1, <1>2, <1>8, <2>0, <2>2 DEF Ring
  <2> QED
    BY <2>1, <2>2
<1>14. Ring(n)'
  BY <1>2, <1>10, <1>13 DEF Ring
<1> QED
  BY <1>2, <1>4, <1>9, <1>14

(* The writer's other steps leave the ring alone. *)
LEMMA WriterRing ==
  ASSUME Local, WriterStep, ~\E i \in Places : StoreWord(i), NEW n, Ring(n)
  PROVE  Ring(n)' /\ Most' = Most /\ Oldest' = Oldest
<1>1. UNCHANGED <<buffer, head, reader>>
  BY WriterLocal
<1>2. UNCHANGED <<buffer, head, rpc, rleft>>
  BY <1>1 DEF reader
<1>3. ~Storing
  BY DEF Storing, WriterStep, Refuse, Enqueue, TestFree, DropMessage, Enqueued, SetOverflow
<1>4. Newest' = Newest
  <2>1. CASE Enqueued
    BY <2>1 DEF Enqueued, Newest
  <2>2. CASE TestFree
    <3>1. Places # {} /\ wpc = "test" /\ tail' = tail /\ (wpc' = "store" => wleft' = Places)
      BY <2>2, Sizes DEF TestFree
    <3> QED
      BY <3>1 DEF Newest
  <2>3. CASE ~Enqueued /\ ~TestFree
    BY <2>3 DEF WriterStep, Refuse, Enqueue, DropMessage, SetOverflow, vars, writer, Newest
  <2> QED
    BY <2>1, <2>2, <2>3
<1>5. Oldest' = Oldest /\ Removing' = Removing
  BY <1>2 DEF Oldest, Removing
<1>6. Ring(n)'
  BY <1>2, <1>3, <1>4, <1>5, RingKept
<1> QED
  BY <1>5, <1>6 DEF Most

(* So do the reader's. *)
LEMMA ReaderRing ==
  ASSUME Local, RingOK, ReaderStep, ~\E i \in Places : ZeroWord(i), ~Take, NEW n, Ring(n)
  PROVE  Ring(n)' /\ Most' = Most /\ Oldest' = Oldest
<1>1. UNCHANGED <<buffer, tail, writer>>
  BY ReaderLocal
<1>2. UNCHANGED <<buffer, tail, wpc, wleft>>
  BY <1>1 DEF writer
<1>3. ~Removing
  BY DEF Removing, ReaderStep, DequeuePeekedOverflow, DequeuePeeked, Call, CheckOverflow,
         CheckEmptied, Acknowledge, TestWord, Dequeued, QueueEmpty
<1>4. rpc' # "zero"
  BY DEF ReaderStep, DequeuePeekedOverflow, DequeuePeeked, Call, CheckOverflow,
         CheckEmptied, Acknowledge, TestWord, Dequeued, QueueEmpty
<1>5. Oldest' = Oldest
  <2>1. CASE Dequeued
    BY <2>1 DEF Dequeued, Oldest
  <2>2. CASE ~Dequeued
    BY <2>2 DEF ReaderStep, DequeuePeekedOverflow, DequeuePeeked, Call, CheckOverflow,
                CheckEmptied, Acknowledge, TestWord, QueueEmpty, Oldest
  <2> QED
    BY <2>1, <2>2
<1>6. Newest' = Newest /\ (Storing => Storing') /\ Most' = Most
  BY <1>2, <1>3, <1>4 DEF Newest, Storing, Removing, Most
<1>7. Ring(n)'
  BY <1>2, <1>3, <1>5, <1>6, RingKept
<1> QED
  BY <1>5, <1>6, <1>7

-----------------------------------------------------------------------------
(* The invariant. *)

(* It holds of the empty queue. *)
LEMMA InitInv == Init => Inv
<1> SUFFICES ASSUME Init PROVE Inv
  OBVIOUS
<1>1. TypeOK
  BY InitType
<1>2. WriterAt /\ ReaderAt /\ Apart
  BY DEF Init, WriterAt, ReaderAt, Apart, Storing, Removing
<1>3. Oldest \in SlotStarts /\ Newest = Oldest /\ ~Storing /\ ~Removing
      /\ NumMsgs \in Nat \ {0} /\ Most \in 0..NumMsgs
  BY <1>1, RingTypes DEF Init, Oldest, Newest, Storing, Removing
<1>4. ASSUME NEW k \in 0..(NumMsgs - 1) PROVE Free(At(Oldest, k))
  <2>1. k \in 0..NumMsgs
    BY <1>3
  <2>2. At(Oldest, k) \in SlotStarts
    BY <1>3, <2>1, Circle
  <2>3. \A i \in Places : At(Oldest, k) + i \in 0..(len - 1)
    BY <2>2, SlotWords
  <2> QED
    BY <2>3 DEF Init, Free
<1>5. Ring(0)
  <2>1. At(Oldest, 0) = Oldest
    BY <1>3, Circle
  <2>2. ~\E k \in 0..(0 - 1) : TRUE
    OBVIOUS
  <2> QED
    BY <1>3, <1>4, <2>1, <2>2 DEF Ring
<1>6. 0 \in 0..Most
  BY <1>3
<1> QED
  BY <1>1, <1>2, <1>5, <1>6 DEF Inv, RingOK

(* Each step keeps it. *)
LEMMA StepInv == Inv /\ [Next]_vars => Inv'
<1> SUFFICES ASSUME Inv, [Next]_vars PROVE Inv'
  OBVIOUS
<1>1. Local /\ RingOK /\ TypeOK
  BY DEF Inv, Local
<1>2. PICK n \in 0..Most : Ring(n)
  BY <1>1 DEF RingOK
<1>3. TypeOK'
  <2>1. CASE UNCHANGED vars
    BY <1>1, <2>1 DEF TypeOK, vars, reader, writer, peeked
  <2> QED
    BY <1>1, <2>1, WriterType, ReaderType DEF Next
<1> SUFFICES (WriterAt /\ ReaderAt /\ Apart)' /\ \E k \in 0..Most' : Ring(k)'
  BY <1>3 DEF Inv, RingOK
<1>4. ASSUME NEW i \in Places, StoreWord(i)
      PROVE  (WriterAt /\ ReaderAt /\ Apart)' /\ \E k \in 0..Most' : Ring(k)'
  <2>1. \E k \in 0..Most' : Ring(k)'
    BY <1>1, <1>2, <1>4, StoreRing
  <2> QED
    BY <1>1, <1>4, <2>1, StoreLocal
<1>5. CASE WriterStep /\ ~\E i \in Places : StoreWord(i)
  <2>1. \E k \in 0..Most' : Ring(k)'
    BY <1>1, <1>2, <1>5, WriterRing
  <2> QED
    BY <1>1, <1>5, <2>1, WriterLocal
<1>6. ASSUME NEW i \in Places, ZeroWord(i)
      PROVE  (WriterAt /\ ReaderAt /\ Apart)' /\ \E k \in 0..Most' : Ring(k)'
  <2>1. \E k \in 0..Most' : Ring(k)'
    BY <1>1, <1>2, <1>6, ZeroRing
  <2> QED
    BY <1>1, <1>6, <2>1, ZeroLocal
<1>7. CASE ReaderStep /\ ~\E i \in Places : ZeroWord(i)
  <2>1. \E k \in 0..Most' : Ring(k)'
    <3>1. CASE Take
      BY <1>1, <1>2, <3>1, TakeRing
    <3>2. CASE ~Take
      BY <1>1, <1>2, <1>7, <3>2, ReaderRing
    <3> QED
      BY <3>1, <3>2
  <2> QED
    BY <1>1, <1>7, <2>1, ReaderLocal
<1>8. CASE UNCHANGED vars
  <2>1. UNCHANGED <<buffer, head, tail, overflow, peek, peek_flag, peek_overflow, wpc, wmsg,
                    wat, wleft, rpc, rop, rat, rleft, msg, polled>>
    BY <1>8 DEF vars, reader, writer, peeked
  <2>2. Oldest' = Oldest /\ Newest' = Newest /\ Most' = Most /\ (Storing => Storing')
        /\ (Removing => Removing')
    BY <2>1 DEF Oldest, Newest, Most, Storing, Removing
  <2>3. Ring(n)'
    BY <1>2, <2>1, <2>2, RingKept
  <2>4. WriterAt'
    BY <1>1, <2>1 DEF Local, WriterAt, Storing
  <2>5. ReaderAt'
    BY <1>1, <2>1 DEF Local, ReaderAt, Removing, Complete
  <2>6. Apart'
    BY <1>1, <2>1 DEF Local, Apart, Storing, Removing
  <2> QED
    BY <1>2, <2>2, <2>3, <2>4, <2>5, <2>6
<1> QED
  BY <1>4, <1>5, <1>6, <1>7, <1>8 DEF Next, WriterStep, ReaderStep

(* Between the messages of the ring and the two threads' half-done slots   *)
(* there is order, whatever they have done.                                *)
THEOREM QueueInv == Spec => []Inv
  BY InitInv, StepInv, PTL DEF Spec

-----------------------------------------------------------------------------
(* What the runs check of PmQueue, for every size. *)

(* If a word of the reader's slot is 0, no message is complete. *)
LEMMA NoneWaits ==
  ASSUME Inv, rpc # "zero", NEW i \in Places, buffer[head + i] = 0
  PROVE  Ring(0) /\ InRing = <<>> /\ Oldest = head
<1>1. PICK n \in 0..Most : Ring(n)
  BY DEF Inv, RingOK
<1>2. Oldest = head /\ head \in SlotStarts /\ TypeOK /\ WriterAt /\ n \in Nat
  BY DEF Oldest, Inv, TypeOK
<1>3. n = 0
  <2> SUFFICES ASSUME n # 0 PROVE FALSE
    OBVIOUS
  <2>1. 0 \in 0..(n - 1)
    BY <1>2
  <2>2. Slot(At(Oldest, 0)) \in Codes /\ At(Oldest, 0) = head
    BY <1>1, <1>2, <2>1, Circle DEF Ring
  <2>3. Slot(head) \in Codes
    BY <2>2
  <2> QED
    BY <1>2, <2>3, CodeIs
<1>4. InRing \in Seq(Messages) /\ Len(InRing) = 0
  BY <1>1, <1>2, <1>3, InRingIs
<1>5. InRing = <<>>
  BY <1>4, EmptySeq
<1> QED
  BY <1>1, <1>2, <1>3, <1>5

(* The slot the writer fills is not yet complete for the reader. *)
LEMMA InvSharesNoSlot == Inv => NoSharedSlot
<1> SUFFICES ASSUME Inv PROVE NoSharedSlot
  OBVIOUS
<1>1. wleft \in SUBSET Places /\ rleft \in SUBSET Places
  BY DEF Inv, TypeOK
<1>2. wpc = "store" => \A i \in wleft : buffer[tail + i] = 0
  BY <1>1 DEF Inv, WriterAt, Storing
<1>3. rpc \in {"take", "zero"} =>
       \A i \in (IF rpc = "take" THEN Places ELSE rleft) : buffer[head + i] # 0
  BY <1>1 DEF Inv, ReaderAt, Removing, Complete
<1>4. wpc = "store" /\ wleft # {} /\ head = tail =>
       rpc # "take" /\ (rpc = "zero" => rleft = {})
  <2>1. wpc = "store" /\ wleft # {} /\ head = tail => rpc # "take"
    BY <1>1, <1>2, <1>3
  <2> QED
    BY <2>1 DEF Inv, Apart, Storing, Removing
<1> QED
  BY <1>2, <1>3, <1>4 DEF NoSharedSlot

(* NoSharedSlot, for every size and every order in which stores become     *)
(* visible: the two threads never store into and empty the same slot.      *)
THEOREM SlotsAreNotShared == Spec => []NoSharedSlot
  BY QueueInv, InvSharesNoSlot, PTL

(* The first word of a complete message is not 0. *)
LEMMA InvEmptyIsHonest == Inv => EmptyIsHonest
<1> SUFFICES ASSUME Inv PROVE EmptyIsHonest
  OBVIOUS
<1>1. 0 \in Places /\ head + 0 = head /\ rat \in Places
  BY Sizes, SlotWords DEF Inv, TypeOK
<1>2. rpc = "idle" /\ IsEmpty => InRing = <<>> /\ ~peek_flag
  BY <1>1, NoneWaits DEF IsEmpty
<1>3. ASSUME polled, rpc = "test", buffer[head + rat] = 0
      PROVE  wpc = "store" /\ tail = head /\ wleft # {}
  <2>1. Ring(0) /\ Oldest = head
    BY <1>1, <1>3, NoneWaits
  <2>2. buffer[head] # 0
    BY <1>3 DEF Inv, ReaderAt
  <2>3. ~Free(head) /\ ~Removing
    BY <1>1, <1>3, <2>2 DEF Free, Removing
  <2>4. 0 \in 0..(NumMsgs - 1) /\ At(Oldest, 0) = head
    BY <2>1, Sizes, Circle DEF Inv, TypeOK
  <2> QED
    BY <2>1, <2>3, <2>4 DEF Ring, Storing
<1> QED
  BY <1>2, <1>3 DEF EmptyIsHonest

(* EmptyIsHonest, for every size: Pm_QueueEmpty hides no complete message, *)
(* and a Pm_Dequeue after it finds no data only while one is being stored. *)
THEOREM EmptyHidesNothing == Spec => []EmptyIsHonest
  BY QueueInv, InvEmptyIsHonest, PTL

(* HonestAnswers, for every size: a message is dropped only if every slot  *)
(* was taken, and pmNoData answered only if no message was complete.       *)
THEOREM AnswersAreHonest == Spec => HonestAnswers
<1> DEFINE Honest ==
      /\ wpc = "test" /\ wpc' = "full" =>
           Len(InRing) + (IF Removing THEN 1 ELSE 0) = NumMsgs
      /\ rpc = "test" /\ rpc' = "idle" => InRing = <<>>
<1>1. Inv /\ [Next]_vars => [Honest]_vars
  <2> SUFFICES ASSUME Inv, Next PROVE Honest
    OBVIOUS
  <2>1. ASSUME wpc = "test", wpc' = "full"
        PROVE  Len(InRing) + (IF Removing THEN 1 ELSE 0) = NumMsgs
    <3>1. TestFree
      <4>1. ~ReaderStep
        BY <2>1 DEF ReaderStep, DequeuePeekedOverflow, DequeuePeeked, Call, CheckOverflow,
                    CheckEmptied, Acknowledge, TestWord, Take, ZeroWord, Dequeued,
                    QueueEmpty, writer
      <4>2. WriterStep
        BY <4>1 DEF Next
      <4> QED
        BY <2>1, <4>2 DEF WriterStep, Refuse, Enqueue, DropMessage, StoreWord, Enqueued,
                          SetOverflow
    <3>2. buffer[tail + wat] # 0 /\ wat \in Places
      BY <2>1, <3>1 DEF TestFree, Inv, TypeOK
    <3>3. ~Storing /\ Newest = tail
      BY <2>1 DEF Storing, Newest
    <3>4. PICK n \in 0..Most : Ring(n)
      BY DEF Inv, RingOK
    <3>5. TypeOK /\ WriterAt /\ Most \in 0..NumMsgs
      BY RingTypes DEF Inv
    <3>6. ~(n < Most)
      <4>1. n < Most => Free(tail)
        BY <3>3, <3>4, <3>5, NotComplete
      <4> QED
        BY <3>2, <4>1 DEF Free
    <3>7. n = Most
      BY <3>4, <3>5, <3>6
    <3>8. Len(InRing) = Most
      BY <3>4, <3>5, <3>7, InRingIs
    <3> QED
      BY <3>8, Sizes DEF Most
  <2>2. ASSUME rpc = "test", rpc' = "idle" PROVE InRing = <<>>
    <3>1. TestWord
      <4>1. ~WriterStep
        BY <2>2 DEF WriterStep, Refuse, Enqueue, TestFree, DropMessage, StoreWord, Enqueued,
                    SetOverflow, vars, reader
      <4>2. ReaderStep
        BY <4>1 DEF Next
      <4> QED
        BY <2>2, <4>2 DEF ReaderStep, DequeuePeekedOverflow, DequeuePeeked, Call,
                          CheckOverflow, CheckEmptied, Acknowledge, Take, ZeroWord,
                          Dequeued, QueueEmpty
    <3>2. buffer[head + rat] = 0 /\ rat \in Places
      BY <2>2, <3>1 DEF TestWord, Inv, TypeOK
    <3> QED
      BY <2>2, <3>2, NoneWaits
  <2> QED
    BY <2>1, <2>2
<1>2. HonestAnswers <=> [][Honest]_vars
  BY DEF HonestAnswers
<1> HIDE DEF Honest
<1> QED
  BY <1>1, <1>2, QueueInv, PTL DEF Spec

-----------------------------------------------------------------------------
(* The queue implements PmFifo. *)

Regroups(S) == \A s, t, u \in Seq(S) : (s \o t) \o u = s \o (t \o u)

(* ConcatAssociative, which the SMT solver takes in this form only. *)
LEMMA Associative == ASSUME NEW S PROVE Regroups(S)
<1> SUFFICES ASSUME NEW s \in Seq(S), NEW t \in Seq(S), NEW u \in Seq(S)
             PROVE  (s \o t) \o u = s \o (t \o u)
  BY DEF Regroups
<1> DEFINE st == s \o t
           tu == t \o u
           l == st \o u
           r == s \o tu
<1>1. /\ st \in Seq(S) /\ Len(st) = Len(s) + Len(t)
      /\ \A i \in 1..(Len(s) + Len(t)) : st[i] = IF i <= Len(s) THEN s[i] ELSE t[i - Len(s)]
  BY ConcatProperties
<1>2. /\ tu \in Seq(S) /\ Len(tu) = Len(t) + Len(u)
      /\ \A i \in 1..(Len(t) + Len(u)) : tu[i] = IF i <= Len(t) THEN t[i] ELSE u[i - Len(t)]
  BY ConcatProperties
<1>8. st \in Seq(S) /\ tu \in Seq(S)
  BY <1>1, <1>2
<1> HIDE DEF st, tu
<1>3. /\ l \in Seq(S) /\ Len(l) = Len(st) + Len(u)
      /\ \A i \in 1..(Len(st) + Len(u)) : l[i] = IF i <= Len(st) THEN st[i] ELSE u[i - Len(st)]
  BY <1>8, ConcatProperties
<1>4. /\ r \in Seq(S) /\ Len(r) = Len(s) + Len(tu)
      /\ \A i \in 1..(Len(s) + Len(tu)) : r[i] = IF i <= Len(s) THEN s[i] ELSE tu[i - Len(s)]
  BY <1>8, ConcatProperties
<1> HIDE DEF l, r
<1>5. Len(s) \in Nat /\ Len(t) \in Nat /\ Len(u) \in Nat
  BY LenProperties
<1>6. Len(l) = Len(r) /\ Len(l) = Len(s) + Len(t) + Len(u)
  BY <1>1, <1>2, <1>3, <1>4, <1>5
<1>7. ASSUME NEW i \in 1..Len(l) PROVE l[i] = r[i]
  <2>1. CASE i <= Len(s)
    <3>1. i \in 1..(Len(s) + Len(t)) /\ i <= Len(st) /\ i \in 1..(Len(st) + Len(u))
          /\ i \in 1..(Len(s) + Len(tu))
      BY <1>1, <1>2, <1>5, <1>6, <2>1
    <3> QED
      BY <1>1, <1>3, <1>4, <2>1, <3>1
  <2>2. CASE ~(i <= Len(s)) /\ i <= Len(s) + Len(t)
    <3>1. i \in 1..(Len(s) + Len(t)) /\ i <= Len(st) /\ i \in 1..(Len(st) + Len(u))
          /\ i \in 1..(Len(s) + Len(tu)) /\ i - Len(s) \in 1..(Len(t) + Len(u))
          /\ i - Len(s) <= Len(t)
      BY <1>1, <1>2, <1>5, <1>6, <2>2
    <3>2. l[i] = t[i - Len(s)]
      BY <1>1, <1>3, <2>2, <3>1
    <3>3. r[i] = t[i - Len(s)]
      BY <1>2, <1>4, <2>2, <3>1
    <3> QED
      BY <3>2, <3>3
  <2>3. CASE ~(i <= Len(s) + Len(t))
    <3>1. ~(i <= Len(st)) /\ i \in 1..(Len(st) + Len(u)) /\ ~(i <= Len(s))
          /\ i \in 1..(Len(s) + Len(tu)) /\ i - Len(s) \in 1..(Len(t) + Len(u))
          /\ ~(i - Len(s) <= Len(t)) /\ i - Len(s) - Len(t) = i - Len(st)
      BY <1>1, <1>2, <1>5, <1>6, <2>3
    <3>2. l[i] = u[i - Len(st)]
      BY <1>3, <3>1
    <3>3. r[i] = u[i - Len(s) - Len(t)]
      BY <1>2, <1>4, <3>1
    <3> QED
      BY <3>1, <3>2, <3>3
  <2> QED
    BY <2>1, <2>2, <2>3
<1>9. l = r
  BY <1>3, <1>4, <1>6, <1>7, SeqEqual
<1> QED
  BY <1>9 DEF l, r, st, tu

Row(S, a, b, c, r, d) ==
  /\ a \o b \o c \o r \o d = a \o (b \o (c \o (r \o d)))
  /\ r \o d \in Seq(S) /\ c \o (r \o d) \in Seq(S)
  /\ b \o (c \o (r \o d)) \in Seq(S) /\ a \o (b \o (c \o (r \o d))) \in Seq(S)
  /\ a \o b \o c \in Seq(S) /\ a \o b \o c \o r \in Seq(S)
  /\ Len(a \o b \o c \o r \o d) = Len(a) + Len(b) + Len(c) + Len(r) + Len(d)

(* Five sequences in a row, from the front and from the back. *)
LEMMA Regroup ==
  ASSUME NEW S, NEW a \in Seq(S), NEW b \in Seq(S), NEW c \in Seq(S), NEW r \in Seq(S),
         NEW d \in Seq(S)
  PROVE  Row(S, a, b, c, r, d)
<1>1. /\ r \o d \in Seq(S) /\ c \o (r \o d) \in Seq(S)
      /\ b \o (c \o (r \o d)) \in Seq(S) /\ a \o (b \o (c \o (r \o d))) \in Seq(S)
      /\ a \o b \in Seq(S) /\ a \o b \o c \in Seq(S) /\ a \o b \o c \o r \in Seq(S)
  <2>1. r \o d \in Seq(S) /\ a \o b \in Seq(S)
    BY ConcatProperties
  <2>2. c \o (r \o d) \in Seq(S) /\ a \o b \o c \in Seq(S)
    BY <2>1, ConcatProperties
  <2>3. b \o (c \o (r \o d)) \in Seq(S) /\ a \o b \o c \o r \in Seq(S)
    BY <2>2, ConcatProperties
  <2>4. a \o (b \o (c \o (r \o d))) \in Seq(S)
    BY <2>3, ConcatProperties
  <2> QED
    BY <2>1, <2>2, <2>3, <2>4
<1> DEFINE Cat(s, t) == s \o t
<1>6. \A s, t, u \in Seq(S) : Cat(Cat(s, t), u) = Cat(s, Cat(t, u))
  <2>1. Regroups(S)
    BY Associative
  <2> QED
    BY <2>1, Zenon DEF Regroups
<1>7. /\ Cat(r, d) \in Seq(S) /\ Cat(c, Cat(r, d)) \in Seq(S)
      /\ Cat(a, b) \in Seq(S) /\ Cat(Cat(a, b), c) \in Seq(S)
  BY <1>1
<1> HIDE DEF Cat
<1>2. Cat(Cat(Cat(Cat(a, b), c), r), d) = Cat(Cat(Cat(a, b), c), Cat(r, d))
  BY <1>6, <1>7
<1>3. Cat(Cat(Cat(a, b), c), Cat(r, d)) = Cat(Cat(a, b), Cat(c, Cat(r, d)))
  BY <1>6, <1>7
<1>4. Cat(Cat(a, b), Cat(c, Cat(r, d))) = Cat(a, Cat(b, Cat(c, Cat(r, d))))
  BY <1>6, <1>7
<1>8. a \o b \o c \o r \o d = a \o (b \o (c \o (r \o d)))
  BY <1>2, <1>3, <1>4 DEF Cat
<1>5. Len(a \o b \o c \o r \o d) = Len(a) + Len(b) + Len(c) + Len(r) + Len(d)
  <2>1. Len(a \o b) = Len(a) + Len(b)
    BY ConcatProperties
  <2>2. Len(a \o b \o c) = Len(a \o b) + Len(c)
    BY <1>1, ConcatProperties
  <2>3. Len(a \o b \o c \o r) = Len(a \o b \o c) + Len(r)
    BY <1>1, ConcatProperties
  <2>4. Len(a \o b \o c \o r \o d) = Len(a \o b \o c \o r) + Len(d)
    BY <1>1, ConcatProperties
  <2> QED
    BY <2>1, <2>2, <2>3, <2>4
<1> QED
  BY <1>1, <1>5, <1>8 DEF Row

(* The first of a row is taken off. *)
LEMMA TakenOff ==
  ASSUME NEW S, NEW x \in S, NEW t \in Seq(S)
  PROVE  /\ <<x>> \in Seq(S) /\ Len(<<x>>) = 1
         /\ <<x>> \o t # <<>> /\ Tail(<<x>> \o t) = t
         /\ t # <<>> => \A y : <<x>> \o t # <<y>>
<1>1. <<x>> \in Seq(S) /\ Len(<<x>>) = 1 /\ \A y : Len(<<y>>) = 1
  OBVIOUS
<1>2. /\ <<x>> \o t \in Seq(S) /\ Len(<<x>> \o t) = 1 + Len(t)
      /\ \A i \in 1..(1 + Len(t)) : (<<x>> \o t)[i] = IF i <= 1 THEN <<x>>[i] ELSE t[i - 1]
  BY <1>1, ConcatProperties
<1>3. Len(t) \in Nat /\ (t # <<>> => Len(t) # 0) /\ Len(<<>>) = 0
  BY LenProperties, EmptySeq
<1> DEFINE u == <<x>> \o t
<1>4. u # <<>>
  <2>1. Len(u) # 0
    BY <1>2, <1>3
  <2> QED
    BY <1>3, <2>1
<1>5. /\ Tail(u) \in Seq(S) /\ Len(Tail(u)) = Len(u) - 1
      /\ \A i \in 1..Len(Tail(u)) : Tail(u)[i] = u[i + 1]
  <2> HIDE DEF u
  <2> QED
    BY <1>2, <1>4, HeadTailProperties DEF u
<1>6. Len(Tail(u)) = Len(t) /\ \A i \in 1..Len(t) : Tail(u)[i] = t[i]
  <2>1. Len(Tail(u)) = Len(t)
    BY <1>2, <1>3, <1>5
  <2>2. \A i \in 1..Len(t) : i + 1 \in 1..(1 + Len(t)) /\ ~(i + 1 <= 1) /\ i + 1 - 1 = i
    BY <1>3
  <2> QED
    BY <1>2, <1>5, <2>1, <2>2
<1>7. Tail(u) = t
  <2> HIDE DEF u
  <2> QED
    BY <1>5, <1>6, SeqEqual
<1>8. t # <<>> => \A y : u # <<y>>
  <2>1. t # <<>> => Len(u) # 1
    BY <1>2, <1>3
  <2> QED
    BY <1>1, <2>1
<1> QED
  BY <1>1, <1>4, <1>7, <1>8

Items == Messages \cup {Gap}

(* The parts of the stream besides InRing, from the front to the back. *)
Told  == IF peek_overflow THEN <<Gap>> ELSE <<>>
Ahead == IF peek_flag THEN <<peek>> ELSE <<>>
Out   == IF Removing \/ (rpc = "zero" /\ rop = "peek") THEN <<msg>> ELSE <<>>
Dropped == IF overflow # 0 THEN <<Gap>> ELSE <<>>

(* The stream of the refinement, part by part. *)
LEMMA StreamIs == Stream = Told \o Ahead \o Out \o InRing \o Dropped
  BY DEF Stream, Told, Ahead, Out, Dropped

RingOf(n) == [k \in 1..n |-> Decode(Slot(At(Oldest, k - 1)))]

(* InRingIs, in a form that holds of a next state too. *)
Reading ==
  \A n \in Nat : TypeOK /\ WriterAt /\ n \in 0..Most /\ Ring(n) =>
    InRing = RingOf(n) /\ InRing \in Seq(Messages) /\ Len(InRing) = n

(* Reading holds, by InRingIs. *)
LEMMA InRingNow == Reading
<1> SUFFICES ASSUME NEW n \in 0..Most, TypeOK, WriterAt, Ring(n)
             PROVE  InRing = RingOf(n) /\ InRing \in Seq(Messages) /\ Len(InRing) = n
  BY DEF Reading
<1> QED
  BY InRingIs DEF RingOf

(* And of a next state as well. *)
LEMMA InRingNext == Reading'
  BY InRingNow, PTL

(* The parts of the stream hold messages and gaps. *)
Parts ==
  /\ Told \in {<<>>, <<Gap>>} /\ Told \in Seq(Items)
  /\ Ahead \in Seq(Items) /\ Out \in Seq(Items)
  /\ InRing \in Seq(Items)
  /\ Dropped \in Seq(Items) /\ (Dropped # <<>> <=> overflow # 0)
  /\ rpc # "idle" => Ahead = <<>>
  /\ rpc # "zero" => Out = <<>>

(* The parts of the stream, from the inductive invariant. *)
LEMMA InvParts == Inv => Parts
<1> SUFFICES ASSUME Inv PROVE Parts
  OBVIOUS
<1>1. \A x \in Items : <<x>> \in Seq(Items) /\ <<x>> # <<>>
  OBVIOUS
<1>2. <<>> \in Seq(Items)
  BY EmptySeq
<1>3. peek_flag => peek \in Items
  BY DEF Inv, ReaderAt, Items
<1>4. rpc = "zero" => msg \in Items
  BY DEF Inv, ReaderAt, Items
<1>5. InRing \in Seq(Items)
  <2>1. InRing \in Seq(Messages)
    BY InRingIs DEF Inv, RingOK
  <2> QED
    BY <2>1, SeqMonotonic DEF Items
<1>6. Gap \in Items
  BY DEF Items
<1>7. Ahead \in Seq(Items) /\ (rpc # "idle" => Ahead = <<>>)
  BY <1>1, <1>2, <1>3 DEF Ahead, Inv, ReaderAt
<1>8. Out \in Seq(Items) /\ (rpc # "zero" => Out = <<>>)
  BY <1>1, <1>2, <1>4 DEF Out, Removing
<1>9. Dropped \in Seq(Items) /\ (Dropped # <<>> <=> overflow # 0)
  BY <1>1, <1>2, <1>6 DEF Dropped
<1>10. Told \in {<<>>, <<Gap>>} /\ Told \in Seq(Items)
  BY <1>1, <1>2, <1>6 DEF Told
<1> QED
  BY <1>5, <1>7, <1>8, <1>9, <1>10 DEF Parts

(* The messages in the ring stay the same if their slots do. *)
LEMMA RingOfSame ==
  ASSUME NEW n \in Nat, Oldest' = Oldest,
         \A k \in 0..(n - 1) : Slot(At(Oldest, k))' = Slot(At(Oldest, k))
  PROVE  RingOf(n)' = RingOf(n)
<1>1. \A k \in 1..n : k - 1 \in 0..(n - 1)
  OBVIOUS
<1>2. \A k \in 1..n : Slot(At(Oldest, k - 1))' = Slot(At(Oldest, k - 1))
  BY <1>1
<1> HIDE DEF Slot
<1> QED
  BY <1>2 DEF RingOf

(* PmFifo counts as this module does. *)
LEMMA SameCardinality == \A S : Fifo!Cardinality(S) = Cardinality(S)
  BY DEF Cardinality, Fifo!Cardinality

(* There is room in the fifo for a message that found room in the ring:    *)
(* besides the ring, at most one message is on its way to the reader.      *)
LEMMA RoomForOne ==
  ASSUME Inv, overflow = 0, NEW n \in 0..Most, Ring(n), n < Most
  PROVE  Cardinality(Fifo!Waiting) < NumMsgs + 1
<1> DEFINE b == Len(Told) + 1
           e == Len(Stream)
<1>1. Parts /\ Dropped = <<>>
  BY InvParts DEF Parts
<1>2. Len(InRing) = n /\ n \in Nat /\ NumMsgs \in Nat /\ Most \in Nat
  BY InRingIs, RingTypes DEF Inv
<1>3. Len(Ahead) + Len(Out) + n <= NumMsgs /\ Len(Ahead) + Len(Out) \in Nat
  <2>1. Len(<<>>) = 0 /\ \A x : Len(<<x>>) = 1
    OBVIOUS
  <2>2. CASE Removing
    <3>1. Ahead = <<>> /\ Most = NumMsgs - 1 /\ Len(Out) = 1
      BY <1>1, <2>1, <2>2 DEF Parts, Removing, Most, Out
    <3> QED
      BY <1>2, <2>1, <3>1
  <2>3. CASE ~Removing
    <3>1. Most = NumMsgs
      BY <2>3 DEF Most
    <3>2. Len(Ahead) = 0 \/ Len(Out) = 0
      BY <1>1, <2>1 DEF Parts
    <3>3. Len(Ahead) \in {0, 1} /\ Len(Out) \in {0, 1}
      BY <2>1 DEF Ahead, Out
    <3>4. Len(Ahead) + Len(Out) \in {0, 1}
      <4> DEFINE x == Len(Ahead)
                 y == Len(Out)
      <4> HIDE DEF x, y
      <4>1. (x = 0 \/ y = 0) /\ x \in {0, 1} /\ y \in {0, 1}
        BY <3>2, <3>3 DEF x, y
      <4>2. x + y \in {0, 1}
        BY <4>1
      <4> QED
        BY <4>2 DEF x, y
    <3> QED
      BY <1>2, <3>1, <3>4
  <2> QED
    BY <2>2, <2>3
<1>4. Stream \in Seq(Items) /\ e = Len(Told) + Len(Ahead) + Len(Out) + n
      /\ Stream = Told \o (Ahead \o (Out \o (InRing \o Dropped)))
      /\ Ahead \o (Out \o (InRing \o Dropped)) \in Seq(Items)
  <2>1. Len(Dropped) = 0
    BY <1>1
  <2> DEFINE str == Told \o Ahead \o Out \o InRing \o Dropped
  <2>2. str \in Seq(Items) /\ Len(str) = Len(Told) + Len(Ahead) + Len(Out) + n + 0
        /\ str = Told \o (Ahead \o (Out \o (InRing \o Dropped)))
        /\ Ahead \o (Out \o (InRing \o Dropped)) \in Seq(Items)
    <3>1. /\ Told \in Seq(Items) /\ Ahead \in Seq(Items) /\ Out \in Seq(Items)
          /\ InRing \in Seq(Items) /\ Dropped \in Seq(Items)
      BY <1>1 DEF Parts
    <3>2. /\ str = Told \o (Ahead \o (Out \o (InRing \o Dropped)))
          /\ Ahead \o (Out \o (InRing \o Dropped)) \in Seq(Items)
          /\ Told \o (Ahead \o (Out \o (InRing \o Dropped))) \in Seq(Items)
          /\ Len(str) = Len(Told) + Len(Ahead) + Len(Out) + Len(InRing) + Len(Dropped)
      <4>1. Row(Items, Told, Ahead, Out, InRing, Dropped)
        BY <3>1, Regroup
      <4> QED
        BY <4>1 DEF Row
    <3> HIDE DEF str
    <3> QED
      BY <1>2, <2>1, <3>2
  <2>3. Stream = str
    BY StreamIs
  <2>4. Len(Told) \in Nat /\ Len(Ahead) \in Nat /\ Len(Out) \in Nat
    BY <1>1, LenProperties DEF Parts
  <2> HIDE DEF str
  <2> QED
    BY <1>2, <2>2, <2>3, <2>4
<1>5. Len(Told) \in {0, 1} /\ (Len(Told) = 1 => Stream[1] = Gap)
  <2>1. CASE Told = <<>>
    BY <2>1
  <2>2. CASE Told = <<Gap>>
    <3> DEFINE t == Ahead \o (Out \o (InRing \o Dropped))
    <3>1. t \in Seq(Items) /\ Stream = <<Gap>> \o t /\ <<Gap>> \in Seq(Items)
      BY <1>1, <1>4, <2>2 DEF Parts
    <3> HIDE DEF t
    <3>2. Len(t) \in Nat /\ Len(<<Gap>>) = 1
      BY <3>1, LenProperties
    <3>3. 1 \in 1..(Len(<<Gap>>) + Len(t))
      BY <3>2
    <3>4. (<<Gap>> \o t)[1] = <<Gap>>[1]
      BY <3>1, <3>2, <3>3, ConcatProperties
    <3> QED
      BY <2>2, <3>1, <3>2, <3>4
  <2> QED
    BY <1>1, <2>1, <2>2 DEF Parts
<1>6. DOMAIN Stream = 1..e /\ e \in Nat
  BY <1>4, LenProperties
<1> HIDE DEF e
<1>7. Fifo!Waiting \subseteq b..e
  <2>1. ASSUME NEW i \in 1..e, Stream[i] # Gap PROVE i \in b..e
    <3>1. Len(Told) = 1 => i # 1
      BY <1>5, <2>1
    <3> DEFINE l == Len(Told)
    <3>2. l \in {0, 1} /\ (l = 1 => i # 1) /\ i \in 1..e /\ e \in Nat
      BY <1>5, <1>6, <3>1
    <3> HIDE DEF l
    <3>3. i \in (l + 1)..e
      BY <3>2
    <3> QED
      BY <3>3 DEF l
  <2>2. Fifo!Waiting = {i \in DOMAIN Stream : Stream[i] # Gap}
    BY DEF Fifo!Waiting
  <2> QED
    BY <1>6, <2>1, <2>2
<1>8. b \in Int /\ e \in Int /\ e - b + 1 <= NumMsgs
  BY <1>2, <1>3, <1>4, <1>5, <1>6
<1> HIDE DEF b
<1>9. IsFiniteSet(b..e) /\ Cardinality(b..e) = IF b > e THEN 0 ELSE e - b + 1
  BY <1>8, FS_Interval
<1>10. Cardinality(b..e) <= NumMsgs /\ Cardinality(b..e) \in Nat
  BY <1>2, <1>8, <1>9
<1>11. IsFiniteSet(Fifo!Waiting) /\ Cardinality(Fifo!Waiting) <= Cardinality(b..e)
  BY <1>7, <1>9, FS_Subset
<1>12. Cardinality(Fifo!Waiting) \in Nat
  BY <1>11, FS_CardinalityType
<1> QED
  BY <1>2, <1>10, <1>11, <1>12

(* An invariant state's stream, from the front, in any state. *)
InRow == /\ Stream = Told \o (Ahead \o (Out \o (InRing \o Dropped)))
         /\ Stream \in Seq(Items)
         /\ InRing \o Dropped \in Seq(Items) /\ Out \o (InRing \o Dropped) \in Seq(Items)
         /\ Ahead \o (Out \o (InRing \o Dropped)) \in Seq(Items)
         /\ Told \o Ahead \o Out \in Seq(Items) /\ Told \o Ahead \o Out \o InRing \in Seq(Items)

(* They may be grouped in any way. *)
LEMMA PartsInRow == Parts => InRow
<1> SUFFICES ASSUME Parts PROVE InRow
  OBVIOUS
<1>1. Row(Items, Told, Ahead, Out, InRing, Dropped)
  BY Regroup DEF Parts
<1>2. Stream = Told \o Ahead \o Out \o InRing \o Dropped
  BY StreamIs
<1> QED
  BY <1>1, <1>2 DEF Row, InRow

(* Both of the present state. *)
LEMMA RowNow == Inv => Parts /\ InRow
  BY InvParts, PartsInRow

(* Both of the next one. *)
LEMMA RowNext == Inv' => Parts' /\ InRow'
  BY InvParts, PartsInRow, PTL

(* The stream of the next state, part by part. *)
LEMMA StreamNext == Stream' = Told' \o Ahead' \o Out' \o InRing' \o Dropped'
  BY DEF Stream, Told, Ahead, Out, Dropped

(* A step that changes no part of the stream. *)
LEMMA QuietFifo ==
  ASSUME UNCHANGED <<Told, Ahead, Out, InRing, overflow>>
  PROVE  UNCHANGED Fifo!fifoVars
<1>1. Dropped' = Dropped
  BY DEF Dropped
<1>2. Stream' = Stream
  BY <1>1, StreamIs, StreamNext
<1> QED
  BY <1>2 DEF Fifo!fifoVars

(* The ring's contents follow from its words and its oldest slot. *)
LEMMA InRingSame ==
  ASSUME UNCHANGED <<buffer, Oldest>>, Removing' <=> Removing
  PROVE  InRing' = InRing
<1>1. \A k : Place(k)' = Place(k)
  BY DEF Place
<1>2. \A q : Slot(q)' = Slot(q) /\ (Complete(q)' <=> Complete(q))
  BY DEF Slot, Complete
<1> HIDE DEF Place, Slot, Complete
<1> QED
  BY <1>1, <1>2 DEF InRing

(* What is stored last in a slot is appended to the ring. *)
LEMMA RingGrows ==
  ASSUME Inv, Inv', NEW i \in Places, StoreWord(i)
  PROVE  IF wleft' = {} THEN InRing' = Append(InRing, wmsg) ELSE InRing' = InRing
<1>1. PICK n \in 0..Most : Ring(n)
  BY DEF Inv, RingOK
<1>2. Local /\ n \in Nat /\ TypeOK /\ WriterAt /\ wmsg \in Messages
  BY RingTypes DEF Inv, Local, TypeOK
<1>3. /\ IF wleft' = {}
         THEN n + 1 \in 0..Most' /\ Ring(n + 1)' /\ Slot(tail)' = Encode(wmsg)
         ELSE n \in 0..Most' /\ Ring(n)'
      /\ At(Oldest, n) = tail /\ Oldest' = Oldest
      /\ \A k \in 0..(n - 1) : Slot(At(Oldest, k))' = Slot(At(Oldest, k))
  BY <1>1, <1>2, StoreRing
<1>4. InRing = RingOf(n) /\ InRing \in Seq(Messages) /\ Len(InRing) = n
  BY <1>1, <1>2, InRingNow DEF Reading
<1>5. RingOf(n)' = RingOf(n)
  BY <1>2, <1>3, RingOfSame
<1>6. ASSUME wleft' # {} PROVE InRing' = InRing
  <2>1. InRing' = RingOf(n)'
    BY <1>2, <1>3, <1>6, InRingNext DEF Reading, Inv
  <2> QED
    BY <1>4, <1>5, <2>1
<1>7. ASSUME wleft' = {} PROVE InRing' = Append(InRing, wmsg)
  <2>1. InRing' = RingOf(n + 1)' /\ InRing' \in Seq(Messages) /\ Len(InRing') = n + 1
    <3>1. n + 1 \in Nat /\ n + 1 \in 0..Most' /\ Ring(n + 1)' /\ TypeOK' /\ WriterAt'
      BY <1>2, <1>3, <1>7 DEF Inv
    <3> QED
      BY <3>1, InRingNext DEF Reading
  <2>2. /\ Append(InRing, wmsg) \in Seq(Messages) /\ Len(Append(InRing, wmsg)) = n + 1
        /\ \A k \in 1..n : Append(InRing, wmsg)[k] = InRing[k]
        /\ Append(InRing, wmsg)[n + 1] = wmsg
    BY <1>2, <1>4, AppendProperties
  <2>3. \A k \in 1..n : InRing'[k] = InRing[k]
    <3>1. \A k \in 1..n : k \in 1..(n + 1)
      BY <1>2
    <3>2. \A k \in 1..n : RingOf(n + 1)'[k] = RingOf(n)'[k]
      BY <3>1 DEF RingOf
    <3> QED
      BY <1>4, <1>5, <2>1, <3>2
  <2>4. InRing'[n + 1] = wmsg
    <3>1. n + 1 \in 1..(n + 1) /\ n + 1 - 1 = n
      BY <1>2
    <3>2. RingOf(n + 1)'[n + 1] = Decode(Slot(At(Oldest, n))')
      BY <3>1 DEF RingOf
    <3>3. Slot(At(Oldest, n))' = Encode(wmsg)
      BY <1>3, <1>7 DEF StoreWord
    <3>4. Decode(Encode(wmsg)) = wmsg
      BY <1>2, DecodeEncode, PmQueueAssumption
    <3> QED
      BY <2>1, <3>2, <3>3, <3>4
  <2>5. \A k \in 1..Len(InRing') : InRing'[k] = Append(InRing, wmsg)[k]
    <3>1. \A k \in 1..(n + 1) : k \in 1..n \/ k = n + 1
      BY <1>2
    <3> QED
      BY <2>1, <2>2, <2>3, <2>4, <3>1
  <2> QED
    BY <2>1, <2>2, <2>5, SeqEqual
<1> QED
  BY <1>6, <1>7

(* What the reader takes comes from the ring's front. *)
LEMMA RingShrinks ==
  ASSUME Inv, Inv', Take
  PROVE  InRing = <<msg'>> \o InRing' /\ msg' \in Messages
<1>1. PICK n \in 0..Most : Ring(n)
  BY DEF Inv, RingOK
<1>2. Local /\ n \in Nat /\ TypeOK /\ WriterAt
  BY RingTypes DEF Inv, Local
<1>3. /\ n - 1 \in 0..Most' /\ Ring(n - 1)' /\ n \in 1..NumMsgs
      /\ At(Oldest, 0) = head /\ \A k \in 0..(n - 2) : At(Oldest, k + 1) = At(Oldest', k)
  BY <1>1, <1>2, TakeRing
<1>4. InRing = RingOf(n) /\ InRing \in Seq(Messages) /\ Len(InRing) = n
  BY <1>1, <1>2, InRingNow DEF Reading
<1>5. InRing' = RingOf(n - 1)' /\ InRing' \in Seq(Messages) /\ Len(InRing') = n - 1
  <2>1. n - 1 \in Nat /\ TypeOK' /\ WriterAt'
    BY <1>3 DEF Inv
  <2> QED
    BY <1>3, <2>1, InRingNext DEF Reading
<1>6. buffer' = buffer /\ msg' = Decode(Slot(head))
  BY DEF Take
<1>7. msg' = RingOf(n)[1]
  <2>1. 1 \in 1..n /\ 1 - 1 = 0
    BY <1>3
  <2> QED
    BY <1>3, <1>6, <2>1 DEF RingOf
<1>8. msg' \in Messages
  <2>1. 1 \in 1..Len(InRing)
    BY <1>3, <1>4
  <2> QED
    BY <1>4, <1>7, <2>1, ElementOfSeq
<1> DEFINE r == InRing'
           s == <<msg'>> \o r
<1>9. /\ s \in Seq(Messages) /\ Len(s) = 1 + Len(r)
      /\ \A i \in 1..(1 + Len(r)) : s[i] = IF i <= 1 THEN msg' ELSE r[i - 1]
  <2>1. <<msg'>> \in Seq(Messages) /\ Len(<<msg'>>) = 1 /\ <<msg'>>[1] = msg'
    BY <1>8
  <2>2. r \in Seq(Messages)
    BY <1>5
  <2> DEFINE o == <<msg'>>
  <2> HIDE DEF r, o
  <2>3. /\ o \o r \in Seq(Messages) /\ Len(o \o r) = Len(o) + Len(r)
        /\ \A i \in 1..(Len(o) + Len(r)) : (o \o r)[i] = IF i <= Len(o) THEN o[i] ELSE r[i - Len(o)]
    BY <2>1, <2>2, ConcatProperties DEF o
  <2>4. Len(o) = 1 /\ o[1] = msg' /\ Len(r) \in Nat
    BY <2>1, <2>2, LenProperties DEF o
  <2>5. \A i \in 1..(1 + Len(r)) : i <= 1 => i = 1
    BY <2>4
  <2> QED
    BY <2>3, <2>4, <2>5 DEF o
<1>10. ASSUME NEW i \in 1..n PROVE InRing[i] = s[i]
  <2>1. CASE i = 1
    <3>1. 1 \in 1..(1 + Len(r)) /\ 1 <= 1
      BY <1>3, <1>5
    <3>2. s[1] = msg'
      BY <1>9, <3>1
    <3> QED
      BY <1>4, <1>7, <2>1, <3>2
  <2>2. CASE i # 1
    <3>1. i \in 1..(1 + Len(r)) /\ ~(i <= 1) /\ i - 1 \in 1..(n - 1) /\ i - 2 \in 0..(n - 2)
          /\ i - 1 - 1 = i - 2 /\ i - 2 + 1 = i - 1
      BY <1>2, <1>5, <2>2
    <3>2. s[i] = r[i - 1]
      BY <1>9, <3>1
    <3>3. r[i - 1] = Decode(Slot(At(Oldest, i - 2))')
      BY <1>5, <3>1 DEF RingOf
    <3>4. RingOf(n)[i] = Decode(Slot(At(Oldest, i - 1)))
      BY DEF RingOf
    <3>5. At(Oldest, i - 1) = At(Oldest', i - 2)
      BY <1>3, <3>1
    <3>6. Slot(At(Oldest, i - 2))' = Slot(At(Oldest, i - 1))
      BY <1>6, <3>5 DEF Slot
    <3> QED
      BY <1>4, <3>2, <3>3, <3>4, <3>6
  <2> QED
    BY <2>1, <2>2
<1>11. Len(s) = n
  BY <1>2, <1>5, <1>9
<1>12. InRing = s
  <2> HIDE DEF s
  <2> QED
    BY <1>4, <1>9, <1>10, <1>11, SeqEqual
<1> QED
  BY <1>8, <1>12

(* A word that is zeroed changes no message of the ring. *)
LEMMA RingStays ==
  ASSUME Inv, Inv', NEW i \in Places, ZeroWord(i)
  PROVE  InRing' = InRing
<1>1. PICK n \in 0..Most : Ring(n)
  BY DEF Inv, RingOK
<1>2. Local /\ n \in Nat /\ TypeOK /\ WriterAt
  BY RingTypes DEF Inv, Local
<1>3. /\ n \in 0..Most' /\ Ring(n)' /\ Oldest' = Oldest
      /\ \A k \in 0..(n - 1) : Slot(At(Oldest, k))' = Slot(At(Oldest, k))
  BY <1>1, <1>2, ZeroRing
<1>4. InRing = RingOf(n)
  BY <1>1, <1>2, InRingNow DEF Reading
<1>5. InRing' = RingOf(n)'
  BY <1>2, <1>3, InRingNext DEF Reading, Inv
<1>6. RingOf(n)' = RingOf(n)
  BY <1>2, <1>3, RingOfSame
<1> QED
  BY <1>4, <1>5, <1>6

(* What is appended to the last part but one, or is the last part, is      *)
(* appended to the row.                                                    *)
LEMMA RowGrows ==
  ASSUME NEW S, NEW x \in Seq(S), NEW r \in Seq(S), NEW w \in S
  PROVE  /\ x \o Append(r, w) \o <<>> = Append(x \o r \o <<>>, w)
         /\ x \o <<w>> = Append(x \o <<>>, w)
<1>1. x \o <<>> = x /\ x \o <<w>> = Append(x, w)
  BY ConcatEmptySeq, AppendIsConcat
<1>2. x \o r \in Seq(S) /\ <<w>> \in Seq(S) /\ Append(r, w) \in Seq(S)
  BY ConcatProperties, AppendProperties
<1>3. x \o r \o <<>> = x \o r
  <2> DEFINE y == x \o r
  <2>1. y \in Seq(S)
    BY <1>2
  <2> HIDE DEF y
  <2>2. y \o <<>> = y
    BY <2>1, ConcatEmptySeq
  <2> QED
    BY <2>2 DEF y
<1>4. x \o Append(r, w) \o <<>> = x \o Append(r, w)
  <2> DEFINE y == x \o Append(r, w)
  <2>1. y \in Seq(S)
    BY <1>2, ConcatProperties
  <2> HIDE DEF y
  <2>2. y \o <<>> = y
    BY <2>1, ConcatEmptySeq
  <2> QED
    BY <2>2 DEF y
<1>5. x \o Append(r, w) = Append(x \o r, w)
  <2>1. Append(r, w) = r \o <<w>>
    BY AppendIsConcat
  <2>2. Append(x \o r, w) = (x \o r) \o <<w>>
    <3> DEFINE y == x \o r
    <3>1. y \in Seq(S)
      BY <1>2
    <3> HIDE DEF y
    <3>2. Append(y, w) = y \o <<w>>
      BY <3>1, AppendIsConcat
    <3> QED
      BY <3>2 DEF y
  <2>3. (x \o r) \o <<w>> = x \o (r \o <<w>>)
    <3>1. Regroups(S)
      BY Associative
    <3> QED
      BY <1>2, <3>1, Zenon DEF Regroups
  <2> QED
    BY <2>1, <2>2, <2>3
<1> QED
  BY <1>1, <1>3, <1>4, <1>5

(* Every step of the writer is one of the fifo or does not show. *)
LEMMA WriterFifo ==
  ASSUME Inv, Inv', WriterStep
  PROVE  [Fifo!FifoNext]_(Fifo!fifoVars)
<1>1. UNCHANGED <<Told, Ahead, Out>>
  <2>1. UNCHANGED <<peeked, reader>>
    BY DEF WriterStep, Refuse, Enqueue, TestFree, DropMessage, StoreWord, Enqueued, SetOverflow,
           vars
  <2> QED
    BY <2>1 DEF peeked, reader, Told, Ahead, Out, Removing
<1>2. Parts /\ InRow /\ Parts' /\ Local /\ Gap \in Items /\ Messages \subseteq Items
  BY RowNow, RowNext DEF Inv, Local, Items
<1> DEFINE x == Told \o Ahead \o Out
<1>3. x \in Seq(Items) /\ x \o InRing \in Seq(Items) /\ InRing \in Seq(Items)
  BY <1>2 DEF InRow, Parts
<1>4. Stream = x \o InRing \o Dropped /\ Stream' = x \o InRing' \o Dropped'
  BY <1>1, StreamIs, StreamNext
<1> HIDE DEF x
<1>5. ASSUME NEW i \in Places, StoreWord(i) PROVE [Fifo!FifoNext]_(Fifo!fifoVars)
  <2>1. overflow = 0 /\ overflow' = 0 /\ wmsg \in Messages
    BY <1>2, <1>5 DEF StoreWord, Local, WriterAt, TypeOK
  <2>2. CASE wleft' # {}
    BY <1>1, <1>5, <2>1, <2>2, RingGrows, QuietFifo
  <2>3. CASE wleft' = {}
    <3>1. InRing' = Append(InRing, wmsg)
      BY <1>5, <2>3, RingGrows
    <3>2. Dropped = <<>> /\ Dropped' = <<>>
      BY <2>1 DEF Dropped
    <3>3. x \o Append(InRing, wmsg) \o <<>> = Append(x \o InRing \o <<>>, wmsg)
      BY <1>2, <1>3, <2>1, RowGrows
    <3>4. Stream' = Append(Stream, wmsg)
      BY <1>4, <3>1, <3>2, <3>3
    <3>5. Cardinality(Fifo!Waiting) < NumMsgs + 1
      <4>1. PICK n \in 0..Most : Ring(n)
        BY DEF Inv, RingOK
      <4>2. n < Most
        BY <1>2, <1>5, <4>1, StoreRing
      <4> QED
        BY <2>1, <4>1, <4>2, RoomForOne
    <3> QED
      <4>1. Fifo!Put(wmsg)
        <5>1. Fifo!Cardinality(Fifo!Waiting) < NumMsgs + 1
          BY <3>5, SameCardinality
        <5> QED
          BY <2>1, <3>4, <5>1 DEF Fifo!Put
      <4> QED
        BY <2>1, <4>1 DEF Fifo!FifoNext
  <2> QED
    BY <2>2, <2>3
<1>6. ASSUME ~\E i \in Places : StoreWord(i) PROVE InRing' = InRing
  <2>1. UNCHANGED <<buffer, head, reader>>
    BY <1>2, <1>6, WriterLocal
  <2>2. UNCHANGED <<buffer, Oldest>> /\ (Removing' <=> Removing)
    BY <2>1 DEF reader, Oldest, Removing
  <2> QED
    BY <2>2, InRingSame
<1>7. CASE DropMessage \/ SetOverflow
  <2>1. overflow = 0 /\ overflow' = tail + 1 /\ tail \in SlotStarts
    BY <1>2, <1>7 DEF DropMessage, SetOverflow, Local, WriterAt, TypeOK
  <2>2. overflow' # 0
    BY <2>1, SlotWords, Sizes
  <2>3. InRing' = InRing
    <3>1. ~\E i \in Places : StoreWord(i)
      BY <1>7, <2>1, <2>2 DEF StoreWord
    <3> QED
      BY <1>6, <3>1
  <2>4. Dropped = <<>> /\ Dropped' = <<Gap>>
    BY <2>1, <2>2 DEF Dropped
  <2>5. Stream' = Append(Stream, Gap)
    <3> DEFINE y == x \o InRing
    <3>1. y \in Seq(Items)
      BY <1>3
    <3>2. Stream = y \o <<>> /\ Stream' = y \o <<Gap>>
      BY <1>4, <2>3, <2>4
    <3> HIDE DEF y
    <3>3. y \o <<Gap>> = Append(y \o <<>>, Gap)
      BY <1>2, <3>1, EmptySeq, RowGrows
    <3> QED
      BY <3>2, <3>3
  <2> QED
    BY <2>1, <2>2, <2>5 DEF Fifo!FifoNext, Fifo!Drop
<1>8. CASE Refuse \/ (\E m \in Messages : Enqueue(m)) \/ TestFree \/ Enqueued
  <2>1. ~\E i \in Places : StoreWord(i)
    <3>1. wpc = "store" => wleft = {}
      BY <1>8 DEF Refuse, Enqueue, TestFree, Enqueued
    <3> QED
      BY <3>1 DEF StoreWord
  <2>2. overflow' = overflow
    BY <1>8 DEF Refuse, Enqueue, TestFree, Enqueued, vars
  <2> QED
    BY <1>1, <1>6, <2>1, <2>2, QuietFifo
<1> QED
  BY <1>5, <1>7, <1>8 DEF WriterStep

(* The reader is given the first of the stream, when the queue is not      *)
(* reopened by it.                                                         *)
LEMMA GiveFirst ==
  ASSUME NEW x \in Items, NEW r \in Seq(Items), Stream = <<x>> \o r, Stream' = r,
         UNCHANGED overflow, overflow # 0 => r # <<>>
  PROVE  Fifo!FifoNext
<1>1. /\ Stream # <<>> /\ Tail(Stream) = r /\ (r # <<>> => Stream # <<Gap>>)
  BY TakenOff
<1>2. (overflow' # 0) = (overflow # 0 /\ Stream # <<Gap>>)
  BY <1>1
<1> QED
  BY <1>1, <1>2 DEF Fifo!FifoNext, Fifo!Give

(* The row without its empty parts. *)
LEMMA ShortRow ==
  ASSUME Parts
  PROVE  /\ \A s \in Seq(Items) : <<>> \o s = s /\ s \o <<>> = s
         /\ InRing \o Dropped \in Seq(Items) /\ (Dropped # <<>> => InRing \o Dropped # <<>>)
         /\ \A s \in Seq(Items) :
              /\ s \o (InRing \o Dropped) \in Seq(Items)
              /\ Dropped # <<>> => s \o (InRing \o Dropped) # <<>>
         /\ \A s, t \in Seq(Items) :
              /\ t \o (s \o (InRing \o Dropped)) \in Seq(Items)
              /\ Dropped # <<>> => t \o (s \o (InRing \o Dropped)) # <<>>
<1>1. \A s \in Seq(Items) : <<>> \o s = s /\ s \o <<>> = s
  BY ConcatEmptySeq
<1>2. ASSUME NEW s \in Seq(Items), NEW t \in Seq(Items)
      PROVE  s \o t \in Seq(Items) /\ (t # <<>> => s \o t # <<>>)
  BY ConcatProperties, ConcatEqualIffEmpty
<1> DEFINE rd == InRing \o Dropped
<1>3. rd \in Seq(Items) /\ (Dropped # <<>> => rd # <<>>)
  BY <1>2 DEF Parts
<1> HIDE DEF rd
<1>4. \A s \in Seq(Items) : s \o rd \in Seq(Items) /\ (Dropped # <<>> => s \o rd # <<>>)
  BY <1>2, <1>3
<1>5. \A s, t \in Seq(Items) :
        t \o (s \o rd) \in Seq(Items) /\ (Dropped # <<>> => t \o (s \o rd) # <<>>)
  BY <1>2, <1>4
<1> QED
  BY <1>1, <1>3, <1>4, <1>5 DEF rd

(* The steps of the reader that leave the words alone. *)
LEMMA SameWords ==
  ASSUME Inv, ReaderStep, ~Take, ~\E i \in Places : ZeroWord(i)
  PROVE  InRing' = InRing /\ ~Removing /\ ~Removing'
<1>1. UNCHANGED buffer /\ Oldest' = Oldest
  <2>1. Local /\ RingOK
    BY DEF Inv, Local
  <2>2. PICK n \in 0..Most : Ring(n)
    BY DEF Inv, RingOK
  <2> QED
    BY <2>1, <2>2, ReaderRing, ReaderLocal
<1>2. ~Removing
  BY DEF Removing, ReaderStep, DequeuePeekedOverflow, DequeuePeeked, Call, CheckOverflow,
         CheckEmptied, Acknowledge, TestWord, Dequeued, QueueEmpty
<1>3. ~Removing'
  BY DEF Removing, ReaderStep, DequeuePeekedOverflow, DequeuePeeked, Call, CheckOverflow,
         CheckEmptied, Acknowledge, TestWord, Dequeued, QueueEmpty
<1> QED
  BY <1>1, <1>2, <1>3, InRingSame

(* A reader that is in a call has nothing peeked at, and Pm_Dequeue is not *)
(* called with an overflow put aside.                                      *)
LEMMA InCall ==
  ASSUME Inv, rpc # "idle"
  PROVE  Ahead = <<>> /\ ~peek_flag /\ (rop = "dequeue" => Told = <<>>)
BY DEF Inv, ReaderAt, Ahead, Told

(* Taking a message moves it, in the stream, from the ring to the reader.  *)
LEMMA TakeFifo ==
  ASSUME Inv, Inv', Take
  PROVE  UNCHANGED Fifo!fifoVars
<1>1. Parts /\ InRow /\ Parts' /\ InRow'
  BY RowNow, RowNext
<1>2. /\ rpc = "take" /\ rpc' = "zero" /\ rleft' = Places
      /\ UNCHANGED <<overflow, peek, peek_flag, peek_overflow>>
  BY DEF Take, peeked
<1>3. Told' = Told /\ Ahead' = Ahead /\ Dropped' = Dropped /\ Out = <<>> /\ Out' = <<msg'>>
  <2>1. Removing'
    BY <1>2, Sizes DEF Removing
  <2> QED
    BY <1>2, <2>1 DEF Told, Ahead, Dropped, Out, Removing
<1>4. InRing = <<msg'>> \o InRing' /\ msg' \in Items
  BY RingShrinks DEF Items
<1>5. <<>> \o (InRing \o Dropped) = InRing \o Dropped
  BY <1>1, ShortRow
<1> DEFINE m == <<msg'>>
           r == InRing'
<1>6. m \in Seq(Items) /\ r \in Seq(Items) /\ Dropped \in Seq(Items)
  BY <1>1, <1>4 DEF Parts
<1>7. InRing = m \o r
  BY <1>4
<1>8. Stream = Told \o (Ahead \o (InRing \o Dropped))
  BY <1>1, <1>3, <1>5 DEF InRow
<1>9. Stream' = Told \o (Ahead \o (m \o (r \o Dropped)))
  BY <1>1, <1>3 DEF InRow
<1> HIDE DEF m, r
<1>10. m \o r \o Dropped = m \o (r \o Dropped)
  <2>1. Regroups(Items)
    BY Associative
  <2> QED
    BY <1>6, <2>1, Zenon DEF Regroups
<1>11. Stream' = Stream
  BY <1>7, <1>8, <1>9, <1>10
<1> QED
  BY <1>2, <1>11 DEF Fifo!fifoVars

(* The last word that is zeroed, whichever it is, lets the reader go with  *)
(* the message; the others do not show.                                    *)
LEMMA ZeroFifo ==
  ASSUME Inv, Inv', NEW i \in Places, ZeroWord(i)
  PROVE  [Fifo!FifoNext]_(Fifo!fifoVars)
<1>1. Parts /\ InRow /\ Parts' /\ InRow'
  BY RowNow, RowNext
<1>2. /\ rpc = "zero" /\ rpc' = "zero" /\ i \in rleft
      /\ UNCHANGED <<overflow, peek, peek_flag, peek_overflow, rop, msg>>
  BY DEF ZeroWord, peeked
<1>3. Told' = Told /\ Ahead' = Ahead /\ Dropped' = Dropped /\ InRing' = InRing
  BY <1>2, RingStays DEF Told, Ahead, Dropped
<1>4. Removing /\ Out = <<msg>>
  BY <1>2 DEF Removing, Out
<1>5. CASE Removing' \/ rop = "peek"
  <2>1. Out' = Out
    BY <1>2, <1>4, <1>5 DEF Out
  <2> QED
    BY <1>2, <1>3, <2>1, QuietFifo
<1>6. CASE ~Removing' /\ rop # "peek"
  <2>1. Out' = <<>>
    BY <1>2, <1>6 DEF Out
  <2>2. Ahead = <<>> /\ Told = <<>> /\ msg \in Items
    <3>1. rop = "dequeue" /\ msg \in Messages
      BY <1>2, <1>6 DEF Inv, TypeOK, ReaderAt
    <3> QED
      BY <1>2, <3>1, InCall DEF Items
  <2> DEFINE rd == InRing \o Dropped
  <2>3. rd \in Seq(Items) /\ (Dropped # <<>> => rd # <<>>) /\ <<msg>> \o rd \in Seq(Items)
        /\ \A s \in Seq(Items) : <<>> \o s = s
    <3>1. <<msg>> \in Seq(Items)
      BY <2>2
    <3> QED
      BY <1>1, <3>1, ShortRow
  <2>4. Stream = <<>> \o (<<>> \o (<<msg>> \o rd))
    BY <1>1, <1>4, <2>2 DEF InRow
  <2>5. Stream' = <<>> \o (<<>> \o (<<>> \o rd))
    BY <1>1, <1>3, <2>1, <2>2 DEF InRow
  <2> HIDE DEF rd
  <2>6. Stream = <<msg>> \o rd /\ Stream' = rd
    BY <2>3, <2>4, <2>5
  <2>7. overflow # 0 => rd # <<>>
    BY <1>1, <2>3 DEF Parts
  <2>8. Fifo!FifoNext
    BY <1>2, <2>2, <2>3, <2>6, <2>7, GiveFirst
  <2> QED
    BY <2>8
<1> QED
  BY <1>5, <1>6

(* Every other step of the reader is one of the fifo or does not show. *)
LEMMA ReaderFifo ==
  ASSUME Inv, Inv', ReaderStep, ~Take, ~\E i \in Places : ZeroWord(i)
  PROVE  [Fifo!FifoNext]_(Fifo!fifoVars)
<1>1. Parts /\ InRow /\ Parts' /\ InRow'
  BY RowNow, RowNext
<1>2. InRing' = InRing /\ ~Removing /\ ~Removing'
  BY SameWords
<1> DEFINE rd == InRing \o Dropped
<1>3. /\ \A s \in Seq(Items) : <<>> \o s = s /\ s \o <<>> = s
      /\ rd \in Seq(Items) /\ Out \o rd \in Seq(Items) /\ Ahead \o (Out \o rd) \in Seq(Items)
      /\ overflow # 0 => /\ rd # <<>> /\ Out \o rd # <<>> /\ Ahead \o (Out \o rd) # <<>>
      /\ <<>> \in Seq(Items)
  <2>1. Out \in Seq(Items) /\ Ahead \in Seq(Items) /\ (overflow # 0 => Dropped # <<>>)
    BY <1>1 DEF Parts
  <2> QED
    BY <1>1, <2>1, ShortRow, EmptySeq
<1>4. Stream = Told \o (Ahead \o (Out \o rd)) /\ (overflow' = overflow => Dropped' = Dropped)
  BY <1>1 DEF InRow, Dropped
<1>5. overflow' = overflow => Stream' = Told' \o (Ahead' \o (Out' \o rd))
  BY <1>1, <1>2, <1>4 DEF InRow
<1> HIDE DEF rd
<1>6. CASE DequeuePeekedOverflow
  <2>1. /\ peek_overflow /\ ~peek_overflow'
        /\ UNCHANGED <<overflow, peek, peek_flag, rpc, rop, rleft, msg>>
    BY <1>6 DEF DequeuePeekedOverflow
  <2>2. Told = <<Gap>> /\ Told' = <<>> /\ Ahead' = Ahead /\ Out' = Out
    BY <2>1, <1>2 DEF Told, Ahead, Out
  <2> DEFINE r == Ahead \o (Out \o rd)
  <2>3. r \in Seq(Items) /\ (overflow # 0 => r # <<>>) /\ <<>> \o r = r
    BY <1>3
  <2>4. Stream = <<Gap>> \o r /\ Stream' = <<>> \o r
    BY <1>4, <1>5, <2>1, <2>2
  <2> HIDE DEF r
  <2>5. Gap \in Items
    BY DEF Items
  <2>6. Fifo!FifoNext
    BY <2>1, <2>3, <2>4, <2>5, GiveFirst
  <2> QED
    BY <2>6
<1>7. CASE DequeuePeeked
  <2>1. /\ ~peek_overflow /\ ~peek_overflow' /\ peek_flag /\ ~peek_flag' /\ rpc = "idle"
        /\ UNCHANGED <<overflow, peek, rpc>>
    BY <1>7 DEF DequeuePeeked
  <2>2. Told = <<>> /\ Told' = <<>> /\ Ahead = <<peek>> /\ Ahead' = <<>>
        /\ Out = <<>> /\ Out' = <<>> /\ peek \in Items
    BY <2>1, <1>2 DEF Told, Ahead, Out, Inv, ReaderAt, Items
  <2>3. <<peek>> \o rd \in Seq(Items)
    BY <1>3, <2>2
  <2>4. Stream = <<peek>> \o rd
    BY <1>3, <1>4, <2>2, <2>3
  <2>5. Stream' = rd
    BY <1>3, <1>5, <2>1, <2>2
  <2>6. Fifo!FifoNext
    BY <1>3, <2>1, <2>2, <2>4, <2>5, GiveFirst
  <2> QED
    BY <2>6
<1>8. CASE Acknowledge
  <2>1. /\ rpc = "lost" /\ rpc' = "idle" /\ overflow' = 0
        /\ peek_overflow' = (peek_overflow \/ rop = "peek")
        /\ UNCHANGED <<peek, peek_flag>>
    BY <1>8 DEF Acknowledge, reader
  <2>0. head \in SlotStarts /\ 0 \in Places
    BY Sizes DEF Inv, TypeOK
  <2>2. overflow # 0 /\ buffer[head] = 0 /\ rop \in {"dequeue", "peek"}
    <3>1. head + 1 # 0
      BY <2>0, SlotWords
    <3> QED
      BY <2>1, <3>1 DEF Inv, ReaderAt, TypeOK
  <2>3. InRing = <<>>
    <3>1. 0 \in Places /\ head + 0 = head
      BY <2>0, SlotWords
    <3> QED
      BY <2>1, <2>2, <3>1, NoneWaits
  <2>4. /\ Dropped = <<Gap>> /\ Dropped' = <<>> /\ Out = <<>> /\ Out' = <<>>
        /\ Ahead = <<>> /\ Ahead' = <<>>
    BY <2>1, <2>2, <1>2, InCall DEF Dropped, Out, Ahead
  <2>5. <<Gap>> \in Seq(Items)
    BY DEF Items
  <2>6. Stream = Told \o <<Gap>>
    BY <1>3, <1>4, <2>3, <2>4, <2>5 DEF rd
  <2>7. Stream' = Told' /\ Told' \in Seq(Items)
    <3>1. Stream' = Told' \o (<<>> \o (<<>> \o (<<>> \o <<>>))) /\ Told' \in Seq(Items)
      BY <1>1, <1>2, <2>3, <2>4 DEF InRow, Parts
    <3> QED
      BY <1>3, <3>1
  <2>8. CASE rop = "dequeue"
    <3>1. Told = <<>> /\ Told' = <<>>
      BY <2>1, <2>8, InCall DEF Told
    <3>2. Stream = <<Gap>> /\ Stream' = <<>>
      BY <1>3, <2>5, <2>6, <2>7, <3>1
    <3>3. Fifo!Give
      <4>1. <<Gap>> # <<>> /\ Tail(<<Gap>>) = <<>>
        OBVIOUS
      <4>2. (overflow' # 0) = (overflow # 0 /\ Stream # <<Gap>>)
        BY <2>1, <3>2
      <4> QED
        BY <3>2, <4>1, <4>2 DEF Fifo!Give
    <3> QED
      BY <3>3 DEF Fifo!FifoNext
  <2>9. CASE rop = "peek"
    <3>1. Told' = <<Gap>> /\ Told \in {<<>>, <<Gap>>}
      BY <2>1, <2>9 DEF Told
    <3>2. Stream \in {<<Gap>>, <<Gap, Gap>>}
      <4>1. <<Gap>> \o <<Gap>> = <<Gap, Gap>>
        <5> DEFINE s == <<Gap>> \o <<Gap>>
                   t == <<Gap, Gap>>
                   o == <<Gap>>
        <5>1. t \in Seq(Items) /\ Len(t) = 2 /\ t[1] = Gap /\ t[2] = Gap
          BY <2>5 DEF Items
        <5>2. o \in Seq(Items) /\ Len(o) = 1 /\ o[1] = Gap
          BY <2>5
        <5> HIDE DEF o, t
        <5>3. s \in Seq(Items) /\ Len(s) = 2 /\ s[1] = Gap /\ s[2] = Gap
          <6>1. o \o o \in Seq(Items) /\ Len(o \o o) = Len(o) + Len(o)
                /\ \A i \in 1..(Len(o) + Len(o)) :
                     (o \o o)[i] = IF i <= Len(o) THEN o[i] ELSE o[i - Len(o)]
            BY <5>2, ConcatProperties
          <6> QED
            BY <5>2, <6>1 DEF o
        <5> HIDE DEF s
        <5>4. s = t
          <6>1. \A i \in 1..Len(s) : i = 1 \/ i = 2
            BY <5>3
          <6> QED
            BY <5>1, <5>3, <6>1, SeqEqual
        <5> QED
          BY <5>4 DEF s, t
      <4>2. <<>> \o <<Gap>> = <<Gap>>
        BY <1>3, <2>5
      <4> QED
        BY <2>6, <3>1, <4>1, <4>2
    <3>3. Fifo!LookAhead
      <4>1. (overflow' # 0) = FALSE
        BY <2>1
      <4> QED
        BY <2>2, <2>7, <3>1, <3>2, <4>1 DEF Fifo!LookAhead
    <3> QED
      BY <3>3 DEF Fifo!FifoNext
  <2> QED
    BY <2>2, <2>8, <2>9
<1>9. CASE Dequeued
  <2>1. /\ rpc = "zero" /\ rpc' = "idle" /\ UNCHANGED <<overflow, peek_overflow, rop, msg>>
        /\ IF rop = "peek" THEN peek' = msg /\ peek_flag' = TRUE
                           ELSE UNCHANGED <<peek, peek_flag>>
    BY <1>9 DEF Dequeued
  <2>2. Told' = Told /\ Ahead = <<>> /\ Out' = <<>>
    BY <2>1, <1>2, InCall DEF Told, Out
  <2>3. CASE rop = "peek"
    <3>1. Out = <<msg>> /\ Ahead' = <<msg>>
      BY <2>1, <2>3 DEF Out, Ahead
    <3>2. Stream = Told \o (<<msg>> \o rd) /\ Stream' = Told \o (<<msg>> \o rd)
      <4>1. Stream = Told \o (<<>> \o (<<msg>> \o rd)) /\ <<msg>> \o rd \in Seq(Items)
        BY <1>3, <1>4, <2>2, <3>1
      <4>2. Stream' = Told \o (<<msg>> \o (<<>> \o rd))
        BY <1>5, <2>1, <2>2, <3>1
      <4> QED
        BY <1>3, <4>1, <4>2
    <3> QED
      BY <2>1, <3>2 DEF Fifo!fifoVars
  <2>4. CASE rop # "peek"
    <3>1. Out = <<>> /\ Ahead' = Ahead
      BY <1>2, <2>1, <2>2, <2>4, InCall DEF Out, Ahead
    <3> QED
      BY <1>2, <2>1, <2>2, <3>1, QuietFifo
  <2> QED
    BY <2>3, <2>4
<1>10. CASE (\E op \in {"dequeue", "peek"} : Call(op)) \/ CheckOverflow \/ CheckEmptied
            \/ TestWord \/ QueueEmpty
  <2>1. UNCHANGED <<overflow, peeked>> /\ rpc # "zero" /\ rpc' # "zero"
    BY <1>10 DEF Call, CheckOverflow, CheckEmptied, TestWord, QueueEmpty
  <2>2. UNCHANGED <<Told, Ahead, Out>>
    BY <1>2, <2>1 DEF peeked, Told, Ahead, Out
  <2> QED
    BY <1>2, <2>1, <2>2, QuietFifo
<1> QED
  BY <1>6, <1>7, <1>8, <1>9, <1>10 DEF ReaderStep

(* The empty queue is the empty fifo. *)
LEMMA InitFifo == Init => Fifo!Empty
<1> SUFFICES ASSUME Init PROVE Fifo!Empty
  OBVIOUS
<1>1. Inv
  BY InitInv
<1>2. 0 \in Places /\ head + 0 = head /\ 0 \in 0..(len - 1)
  BY Sizes DEF Init
<1>3. buffer[head] = 0 /\ rpc # "zero" /\ overflow = 0
  BY <1>2 DEF Init
<1>4. InRing = <<>>
  BY <1>1, <1>2, <1>3, NoneWaits
<1>5. Told = <<>> /\ Ahead = <<>> /\ Out = <<>> /\ Dropped = <<>>
  BY DEF Init, Told, Ahead, Out, Dropped, Removing
<1>6. Stream = <<>> \o (<<>> \o (<<>> \o (<<>> \o <<>>)))
  BY <1>1, <1>4, <1>5, RowNow DEF InRow
<1>7. <<>> \o <<>> = <<>>
  OBVIOUS
<1> QED
  BY <1>3, <1>6, <1>7 DEF Fifo!Empty

(* IsFifo, for every size, every message and every order in which stores   *)
(* become visible: Pm_Enqueue, Pm_Dequeue and Pm_QueuePeek hand every      *)
(* message over complete, once and in order, and tell of each gap where it *)
(* is.                                                                     *)
THEOREM QueueIsFifo == Spec => IsFifo
<1>1. Inv /\ Inv' /\ [Next]_vars => [Fifo!FifoNext]_(Fifo!fifoVars)
  <2> SUFFICES ASSUME Inv, Inv', [Next]_vars PROVE [Fifo!FifoNext]_(Fifo!fifoVars)
    OBVIOUS
  <2>1. CASE WriterStep
    BY <2>1, WriterFifo
  <2>2. CASE ReaderStep
    BY <2>2, TakeFifo, ZeroFifo, ReaderFifo
  <2>3. CASE UNCHANGED vars
    <3>1. UNCHANGED <<buffer, head, overflow, peek, peek_flag, peek_overflow,
                      rpc, rop, rleft, msg>>
      BY <2>3 DEF vars, reader, peeked
    <3>2. UNCHANGED <<Told, Ahead, Out, Oldest>> /\ (Removing' <=> Removing)
      BY <3>1 DEF Told, Ahead, Out, Oldest, Removing
    <3> QED
      BY <3>1, <3>2, InRingSame, QuietFifo
  <2> QED
    BY <2>1, <2>2, <2>3 DEF Next
<1> QED
  BY <1>1, InitFifo, QueueInv, PTL DEF Spec, IsFifo, Fifo!FifoSpec
=============================================================================
