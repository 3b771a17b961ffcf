---------------------------- MODULE PmInputProofs -----------------------------
(***************************************************************************)
(* Theorems about PmInput: for a queue of any capacity, any short messages *)
(* and sysexes, in any buffers, with any filters and any number of sysexes *)
(* that are cut off.                                                       *)
(***************************************************************************)
EXTENDS PmInput, SequenceTheorems, FiniteSetTheorems, TLAPS

Bytes == 0..255
Words == {w \in Seq(Bytes) : Word(w)}

Types ==
  /\ stream \in Seq(Words \cup {Gap})
  /\ wire \in Seq(Bytes) /\ data \in Seq(Bytes)
  /\ sysex_message \in Seq(Bytes) /\ Len(sysex_message) < 4
  /\ closed \in BOOLEAN /\ sysex_in_progress \in BOOLEAN
  /\ bytewise \in BOOLEAN /\ polled \in BOOLEAN
  /\ cuts \in 0..MaxCuts

(* Unless one was cut off, a sysex in progress has its EOX to come, behind *)
(* everything else that does; so only its own EOX or a word of it that is  *)
(* lost ends it, and leaves sysex_message empty.                           *)
Framing ==
  /\ cuts = 0 => /\ wire # <<>> => Last(wire) = MIDI_EOX
                 /\ wire = <<>> /\ data # <<>> => Last(data) = MIDI_EOX
                 /\ sysex_in_progress => wire # <<>> \/ data # <<>>
                 /\ sysex_message # <<>> => sysex_in_progress
  /\ bytewise => sysex_in_progress /\ data # <<>>

IInv == Types /\ Framing /\ PollIsKept

-----------------------------------------------------------------------------
(* Sequences. *)

(* One byte is taken off the front. *)
LEMMA TailIs ==
  ASSUME NEW S, NEW s \in Seq(S), s # <<>>
  PROVE  /\ Len(s) \in Nat \ {0} /\ Head(s) \in S /\ Head(s) = s[1]
         /\ Tail(s) \in Seq(S) /\ Len(Tail(s)) = Len(s) - 1
         /\ IF Tail(s) = <<>> THEN Head(s) = Last(s) ELSE Last(Tail(s)) = Last(s)
<1>1. Len(s) \in Nat \ {0}
  BY EmptySeq, LenProperties
<1>2. /\ Head(s) \in S /\ Tail(s) \in Seq(S) /\ Len(Tail(s)) = Len(s) - 1
      /\ \A i \in 1..Len(Tail(s)) : Tail(s)[i] = s[i + 1]
  BY HeadTailProperties
<1>3. Head(s) = s[1]
  BY <1>1
<1> DEFINE t == Tail(s)
<1>6. t \in Seq(S) /\ Len(t) = Len(s) - 1 /\ \A i \in 1..Len(t) : t[i] = s[i + 1]
  BY <1>2
<1> HIDE DEF t
<1>4. ASSUME t = <<>> PROVE Head(s) = Last(s)
  <2>1. Len(t) = 0
    BY <1>4
  <2>2. Len(s) = 1
    BY <1>1, <1>6, <2>1
  <2> QED
    BY <1>3, <1>4, <2>2 DEF t, Last
<1>5. ASSUME t # <<>> PROVE Last(t) = Last(s)
  <2>1. Len(t) \in Nat \ {0}
    BY <1>5, <1>6, EmptySeq, LenProperties
  <2>2. Len(t) \in 1..Len(t) /\ Len(t) + 1 = Len(s)
    BY <1>1, <1>6, <2>1
  <2>3. t[Len(t)] = s[Len(s)]
    BY <1>6, <2>2
  <2> QED
    BY <1>5, <2>3 DEF t, Last
<1>7. IF t = <<>> THEN Head(s) = Last(s) ELSE Last(t) = Last(s)
  BY <1>4, <1>5
<1> QED
  BY <1>1, <1>3, <1>6, <1>7, <1>2 DEF t

(* A sequence is cut in two. *)
LEMMA CutIs ==
  ASSUME NEW S, NEW s \in Seq(S), NEW n \in 1..Len(s)
  PROVE  /\ SubSeq(s, 1, n) \in Seq(S) /\ Len(SubSeq(s, 1, n)) = n
         /\ \A i \in 1..n : SubSeq(s, 1, n)[i] = s[i]
         /\ SubSeq(s, n + 1, Len(s)) \in Seq(S)
         /\ Len(SubSeq(s, n + 1, Len(s))) = Len(s) - n
         /\ IF SubSeq(s, n + 1, Len(s)) = <<>>
            THEN n = Len(s) /\ Last(SubSeq(s, 1, n)) = Last(s)
            ELSE Last(SubSeq(s, n + 1, Len(s))) = Last(s)
<1>1. Len(s) \in Nat /\ n \in Nat /\ n >= 1 /\ n <= Len(s)
  BY LenProperties
<1>2. \A i \in 1..Len(s) : s[i] \in S
  BY ElementOfSeq
<1> DEFINE a == SubSeq(s, 1, n)
           b == SubSeq(s, n + 1, Len(s))
<1>3. a \in Seq(S) /\ Len(a) = n /\ \A i \in 1..n : a[i] = s[i]
  <2>1. \A i \in 1..n : s[i] \in S
    BY <1>1, <1>2
  <2>2. 1 \in Int /\ n \in Int
    BY <1>1
  <2>3. /\ a \in Seq(S) /\ Len(a) = (IF 1 <= n THEN n - 1 + 1 ELSE 0)
        /\ \A i \in 1..(n - 1 + 1) : a[i] = s[1 + i - 1]
    BY <2>1, <2>2, SubSeqProperties
  <2>4. n - 1 + 1 = n /\ \A i \in 1..n : 1 + i - 1 = i
    BY <1>1
  <2> HIDE DEF a
  <2> QED
    BY <1>1, <2>3, <2>4
<1>4. b \in Seq(S) /\ Len(b) = Len(s) - n /\ \A i \in 1..(Len(s) - n) : b[i] = s[n + i]
  <2>1. \A i \in (n + 1)..Len(s) : s[i] \in S
    BY <1>1, <1>2
  <2>2. n + 1 \in Int /\ Len(s) \in Int
    BY <1>1
  <2>3. /\ b \in Seq(S) /\ Len(b) = (IF n + 1 <= Len(s) THEN Len(s) - (n + 1) + 1 ELSE 0)
        /\ \A i \in 1..(Len(s) - (n + 1) + 1) : b[i] = s[n + 1 + i - 1]
    BY <2>1, <2>2, SubSeqProperties
  <2> DEFINE l == Len(s)
             m == Len(s) - (n + 1) + 1
  <2>5. Len(b) = (IF n + 1 <= l THEN m ELSE 0) /\ \A i \in 1..m : b[i] = s[n + 1 + i - 1]
    BY <2>3
  <2>6. m = l - n /\ l \in Nat /\ (~(n + 1 <= l) => l - n = 0)
    BY <1>1
  <2> HIDE DEF b, l, m
  <2>7. Len(b) = l - n
    BY <2>5, <2>6
  <2>8. ASSUME NEW i \in 1..(l - n) PROVE b[i] = s[n + i]
    <3>1. n + 1 + i - 1 = n + i /\ i \in 1..m
      BY <1>1, <2>6
    <3> QED
      BY <2>5, <3>1
  <2> QED
    BY <2>3, <2>7, <2>8 DEF l
<1> HIDE DEF a, b
<1>5. IF b = <<>> THEN n = Len(s) /\ Last(a) = Last(s) ELSE Last(b) = Last(s)
  <2>1. CASE b = <<>>
    <3>1. Len(b) = 0
      BY <2>1
    <3>2. n = Len(s) /\ n \in 1..n
      BY <1>1, <1>4, <3>1
    <3> QED
      BY <1>3, <2>1, <3>2 DEF Last
  <2>2. CASE b # <<>>
    <3>1. Len(b) \in Nat \ {0}
      BY <1>4, <2>2, EmptySeq, LenProperties
    <3>2. Len(b) \in 1..(Len(s) - n) /\ n + Len(b) = Len(s)
      BY <1>1, <1>4, <3>1
    <3> QED
      BY <1>4, <2>2, <3>2 DEF Last
  <2> QED
    BY <2>1, <2>2
<1> QED
  BY <1>3, <1>4, <1>5 DEF a, b

(* A byte is inserted before the last one. *)
LEMMA Inserted ==
  ASSUME NEW S, NEW d \in Seq(S), NEW k \in 1..Len(d), NEW e \in S
  PROVE  /\ InsertAt(d, k, e) \in Seq(S) /\ InsertAt(d, k, e) # <<>>
         /\ Last(InsertAt(d, k, e)) = Last(d)
<1>1. Len(d) \in Nat /\ k \in Nat /\ k >= 1 /\ k <= Len(d) /\ \A i \in 1..Len(d) : d[i] \in S
  BY LenProperties, ElementOfSeq
<1> DEFINE p == SubSeq(d, 1, k - 1)
           q == SubSeq(d, k, Len(d))
           o == <<e>>
           po == p \o o
           r == po \o q
<1>2. p \in Seq(S)
  <2>1. \A i \in 1..(k - 1) : d[i] \in S
    BY <1>1
  <2>2. 1 \in Int /\ k - 1 \in Int
    BY <1>1
  <2> QED
    BY <2>1, <2>2, SubSeqProperties
<1>3. q \in Seq(S) /\ Len(q) \in Nat \ {0} /\ q[Len(q)] = d[Len(d)]
  <2>1. \A i \in k..Len(d) : d[i] \in S
    BY <1>1
  <2>2. k \in Int /\ Len(d) \in Int
    BY <1>1
  <2> DEFINE m == Len(d) - k + 1
  <2>3. /\ q \in Seq(S) /\ Len(q) = (IF k <= Len(d) THEN m ELSE 0)
        /\ \A i \in 1..m : q[i] = d[k + i - 1]
    BY <2>1, <2>2, SubSeqProperties
  <2>4. m \in Nat \ {0} /\ m \in 1..m /\ k + m - 1 = Len(d)
    BY <1>1
  <2> HIDE DEF q, m
  <2> QED
    BY <1>1, <2>3, <2>4
<1>4. o \in Seq(S) /\ Len(o) = 1
  OBVIOUS
<1> HIDE DEF p, q, o
<1>5. po \in Seq(S)
  BY <1>2, <1>4, ConcatProperties
<1>6. Len(po) \in Nat
  BY <1>5, LenProperties
<1> HIDE DEF po
<1>7. /\ r \in Seq(S) /\ Len(r) = Len(po) + Len(q)
      /\ \A i \in 1..(Len(po) + Len(q)) : r[i] = IF i <= Len(po) THEN po[i] ELSE q[i - Len(po)]
  BY <1>3, <1>5, ConcatProperties
<1> HIDE DEF r
<1>8. Len(r) \in 1..(Len(po) + Len(q)) /\ ~(Len(r) <= Len(po)) /\ Len(r) - Len(po) = Len(q)
  BY <1>3, <1>6, <1>7
<1>9. r[Len(r)] = d[Len(d)]
  BY <1>3, <1>7, <1>8
<1>10. r # <<>>
  <2>1. Len(r) # 0
    BY <1>8
  <2> QED
    BY <2>1
<1>11. InsertAt(d, k, e) = r
  BY DEF InsertAt, r, po, p, q, o
<1> QED
  BY <1>7, <1>9, <1>10, <1>11 DEF Last

Items == Words \cup {Gap}

(* A word that is put behind the others leaves the first one first. *)
LEMMA Behind ==
  ASSUME NEW s \in Seq(Items), NEW w \in Items
  PROVE  /\ Append(s, w) \in Seq(Items) /\ Append(s, w) # <<>>
         /\ s # <<>> => Head(Append(s, w)) = Head(s)
BY AppendProperties, HeadTailAppend

-----------------------------------------------------------------------------
(* What the calls of the driver do to the queue and to the word. *)

QueueKept ==
  /\ stream' \in Seq(Items) /\ closed' \in BOOLEAN
  /\ HasData => HasData'

(* Enqueueing a word never takes a message away from the client. *)
LEMMA EnqueueIs ==
  ASSUME Types, NEW w \in Words, Enqueue(w)
  PROVE  QueueKept
<1>1. stream \in Seq(Items) /\ closed \in BOOLEAN /\ w \in Items /\ Gap \in Items
  BY DEF Types, Items
<1>2. CASE UNCHANGED fifoVars
  BY <1>1, <1>2 DEF fifoVars, QueueKept, HasData
<1>3. CASE Drop
  BY <1>1, <1>3, Behind DEF Drop, QueueKept, HasData
<1>4. CASE Put(w)
  BY <1>1, <1>4, Behind DEF Put, QueueKept, HasData
<1> QED
  BY <1>2, <1>3, <1>4 DEF Enqueue

Received ==
  /\ QueueKept
  /\ sysex_message' \in Seq(Bytes) /\ Len(sysex_message') < 4
  /\ sysex_in_progress' \in BOOLEAN /\ (sysex_in_progress' => sysex_in_progress)

(* The elements of a sequence of bytes are bytes. *)
LEMMA BytesOf ==
  ASSUME NEW s \in Seq(Bytes)
  PROVE  ToSet(s) \subseteq 0..255
<1>1. \A i \in DOMAIN s : s[i] \in Bytes
  BY LenProperties, ElementOfSeq
<1> QED
  BY <1>1 DEF ToSet, Bytes

(* A byte makes a word of at most four, with those before it. *)
LEMMA WordIs ==
  ASSUME Types, NEW b \in Bytes
  PROVE  /\ Append(sysex_message, b) \in Words
         /\ Append(sysex_message, b) \in Seq(Bytes)
         /\ Len(Append(sysex_message, b)) # 4 => Len(Append(sysex_message, b)) < 4
<1> DEFINE w == Append(sysex_message, b)
<1>1. w \in Seq(Bytes) /\ w # <<>> /\ Len(w) = Len(sysex_message) + 1
  BY AppendProperties DEF Types
<1>2. Len(sysex_message) \in Nat /\ Len(sysex_message) < 4
  BY LenProperties DEF Types
<1> HIDE DEF w
<1>3. Len(w) \in Nat /\ Len(w) <= 4 /\ (Len(w) # 4 => Len(w) < 4)
  BY <1>1, <1>2
<1>4. ToSet(w) \subseteq 0..255
  BY <1>1, BytesOf
<1>5. w \in Words
  BY <1>1, <1>3, <1>4 DEF Words, Word
<1> QED
  BY <1>1, <1>3, <1>5 DEF w

(* A byte of a sysex: what is left of a word belongs to a sysex that goes  *)
(* on, since a word that is lost is flushed.                               *)
LEMMA PackIs ==
  ASSUME Types, sysex_in_progress, NEW b \in Bytes, Pack(b)
  PROVE  Received /\ (sysex_message' # <<>> => sysex_in_progress')
<1> DEFINE w == Append(sysex_message, b)
<1>1. w \in Words /\ w \in Seq(Bytes) /\ (Len(w) # 4 => Len(w) < 4)
  BY WordIs
<1>2. IF Len(w) = 4 THEN Flush(w)
      ELSE sysex_message' = w /\ UNCHANGED <<fifoVars, sysex_in_progress>>
  BY DEF Pack
<1> HIDE DEF w
<1>3. CASE Len(w) = 4
  <2>1. Enqueue(w) /\ sysex_message' = <<>>
        /\ sysex_in_progress' = (sysex_in_progress /\ ~Overflows)
    BY <1>2, <1>3 DEF Flush
  <2>2. QueueKept
    BY <1>1, <2>1, EnqueueIs
  <2>3. <<>> \in Seq(Bytes) /\ Len(<<>>) = 0
    BY EmptySeq
  <2> QED
    BY <2>1, <2>2, <2>3 DEF Received, Types
<1>4. CASE Len(w) # 4
  <2>1. sysex_message' = w /\ UNCHANGED <<stream, closed, sysex_in_progress>>
    BY <1>2, <1>4 DEF fifoVars
  <2>2. QueueKept
    BY <2>1 DEF Types, QueueKept, HasData, Items
  <2> QED
    BY <1>1, <1>4, <2>1, <2>2 DEF Received, Types
<1> QED
  BY <1>3, <1>4

(* A word by itself does not touch the one that is being packed. *)
LEMMA DeliverIs ==
  ASSUME Types, NEW w \in Words, Deliver(w)
  PROVE  Received /\ sysex_message' = sysex_message
<1>1. /\ Enqueue(w) /\ sysex_message' = sysex_message
      /\ sysex_in_progress' = (sysex_in_progress /\ ~Overflows)
  BY DEF Deliver
<1>2. QueueKept
  BY <1>1, EnqueueIs
<1> QED
  BY <1>1, <1>2 DEF Received, Types

(* Nothing is received: the message is filtered out, or dropped. *)
LEMMA NothingIs ==
  ASSUME Types, UNCHANGED <<fifoVars, sysex_message>>, sysex_in_progress' \in BOOLEAN,
         sysex_in_progress' => sysex_in_progress
  PROVE  Received
<1>1. QueueKept
  BY DEF Types, QueueKept, HasData, Items, fifoVars
<1> QED
  BY <1>1 DEF Received, Types

(* A message that is no real-time message ends a sysex in progress and     *)
(* leaves what there is of its word; no other message does.                *)
LEMMA ShortIs ==
  ASSUME Types, NEW m \in Words, m[1] \in Bytes, pm_read_short(m)
  PROVE  /\ Received
         /\ (sysex_in_progress => is_real_time(m[1])) =>
              (sysex_message' # <<>> => sysex_in_progress' \/ ~sysex_in_progress)
         /\ ~sysex_in_progress => sysex_message' = sysex_message
<1> DEFINE b == m[1]
           f == Filtered(b)
           r == is_real_time(b)
<1> USE DEF pm_read_short
<1> HIDE DEF f, r
<1>1. CASE f
  <2>1. UNCHANGED <<fifoVars, sysex_in_progress, sysex_message>>
    BY <1>1 DEF f
  <2> QED
    BY <2>1, NothingIs DEF Types
<1>2. CASE ~f /\ sysex_in_progress /\ r
  <2>1. Pack(b)
    BY <1>2 DEF f, r
  <2> QED
    BY <1>2, <2>1, PackIs
<1>3. CASE ~f /\ sysex_in_progress /\ ~r
  <2>1. sysex_in_progress' = FALSE /\ UNCHANGED <<fifoVars, sysex_message>>
    BY <1>3 DEF f, r
  <2>2. Received
    BY <2>1, NothingIs
  <2> QED
    BY <1>3, <2>1, <2>2 DEF r
<1>4. CASE ~f /\ ~sysex_in_progress
  <2>1. Deliver(m)
    BY <1>4 DEF f, r
  <2> QED
    BY <1>4, <2>1, DeliverIs
<1> QED
  BY <1>1, <1>2, <1>3, <1>4

-----------------------------------------------------------------------------
(* The steps.  Each keeps IInv. *)

(* At first nothing has been received, or is to come. *)
LEMMA InitInv == Init => IInv
<1> SUFFICES ASSUME Init PROVE IInv
  OBVIOUS
<1>1. /\ stream = <<>> /\ wire = <<>> /\ data = <<>> /\ sysex_message = <<>>
      /\ closed = FALSE /\ bytewise = FALSE /\ sysex_in_progress = FALSE
      /\ polled = FALSE /\ cuts = 0
  BY DEF Init, Empty
<1>2. /\ stream \in Seq(Words \cup {Gap}) /\ wire \in Seq(Bytes) /\ data \in Seq(Bytes)
      /\ sysex_message \in Seq(Bytes) /\ Len(sysex_message) < 4
  BY <1>1, EmptySeq
<1>3. cuts \in 0..MaxCuts
  BY <1>1, PmInputAssumption
<1>4. Types
  BY <1>1, <1>2, <1>3 DEF Types
<1> QED
  BY <1>1, <1>4 DEF IInv, Framing, PollIsKept

(* A sysex ends with its EOX. *)
LEMMA FramedIs ==
  ASSUME NEW s \in Sysexes
  PROVE  Framed(s) \in Seq(Bytes) /\ Framed(s) # <<>> /\ Last(Framed(s)) = MIDI_EOX
<1> DEFINE a == <<MIDI_SYSEX>>
           z == <<MIDI_EOX>>
           as == a \o s
           f == as \o z
<1>1. a \in Seq(Bytes) /\ z \in Seq(Bytes) /\ Len(z) = 1 /\ z[1] = MIDI_EOX
  BY DEF MIDI_SYSEX, MIDI_EOX, Bytes
<1>2. s \in Seq(Bytes)
  <2>1. s \in Seq(1..127)
    BY PmInputAssumption
  <2>2. Len(s) \in Nat /\ DOMAIN s = 1..Len(s) /\ \A i \in 1..Len(s) : s[i] \in Bytes
    BY <2>1, LenProperties, ElementOfSeq DEF Bytes
  <2>3. s \in [1..Len(s) -> Bytes]
    BY <2>1, <2>2
  <2> QED
    BY <2>2, <2>3
<1> HIDE DEF a, z
<1>3. as \in Seq(Bytes)
  BY <1>1, <1>2, ConcatProperties
<1>4. Len(as) \in Nat
  BY <1>3, LenProperties
<1> HIDE DEF as
<1>5. /\ f \in Seq(Bytes) /\ Len(f) = Len(as) + Len(z)
      /\ \A i \in 1..(Len(as) + Len(z)) : f[i] = IF i <= Len(as) THEN as[i] ELSE z[i - Len(as)]
  BY <1>1, <1>3, ConcatProperties
<1> HIDE DEF f
<1>6. Len(f) \in 1..(Len(as) + Len(z)) /\ ~(Len(f) <= Len(as)) /\ Len(f) - Len(as) = 1
  <2> DEFINE k == Len(as)
             l == Len(f)
  <2>1. l = k + 1 /\ Len(z) = 1 /\ k \in Nat
    BY <1>1, <1>4, <1>5
  <2> HIDE DEF k, l
  <2>2. l \in 1..(k + 1) /\ ~(l <= k) /\ l - k = 1
    BY <2>1
  <2> QED
    BY <2>1, <2>2 DEF k, l
<1>7. f[Len(f)] = MIDI_EOX
  BY <1>1, <1>5, <1>6
<1>8. f # <<>>
  <2>1. Len(f) # 0
    BY <1>6
  <2> QED
    BY <2>1
<1>9. Framed(s) = f
  BY DEF Framed, f, as, a, z
<1> QED
  BY <1>5, <1>7, <1>8, <1>9 DEF Last

(* A sysex starts on its way, its EOX behind everything. *)
LEMMA StartSysexInv ==
  ASSUME IInv, NEW s \in Sysexes, StartSysex(s)
  PROVE  IInv'
<1>1. wire = <<>> /\ data = <<>> /\ wire' = Framed(s)
      /\ UNCHANGED <<stream, closed, data, bytewise, sysex_in_progress, sysex_message,
                     cuts, filters, polled, sysex>>
  BY DEF StartSysex, fifoVars, client
<1>2. wire' \in Seq(Bytes) /\ wire' # <<>> /\ Last(wire') = MIDI_EOX
  BY <1>1, FramedIs
<1> QED
  BY <1>1, <1>2 DEF IInv, Types, Framing, PollIsKept, HasData

(* After the first cut nothing is asked of a sysex any more. *)
LEMMA CutInv ==
  ASSUME IInv, Cut
  PROVE  IInv'
<1>1. cuts < MaxCuts /\ cuts' = cuts + 1 /\ wire' = <<>>
      /\ UNCHANGED <<stream, closed, data, bytewise, sysex_in_progress, sysex_message,
                     filters, polled, sysex>>
  BY DEF Cut, fifoVars, client
<1>2. cuts' \in 0..MaxCuts /\ cuts' # 0 /\ wire' \in Seq(Bytes)
  BY <1>1, PmInputAssumption, EmptySeq DEF IInv, Types
<1> QED
  BY <1>1, <1>2 DEF IInv, Types, Framing, PollIsKept, HasData

(* The types and the poll, when the driver has received something. *)
LEMMA ReceivedTypes ==
  ASSUME IInv, Received, wire' \in Seq(Bytes), data' \in Seq(Bytes),
         bytewise' \in BOOLEAN, UNCHANGED <<cuts, polled>>
  PROVE  Types' /\ PollIsKept'
BY DEF IInv, Types, Received, QueueKept, PollIsKept, Items

(* A short message is a word. *)
LEMMA WordsOfShorts ==
  ASSUME NEW m \in Shorts
  PROVE  m \in Words /\ m[1] \in Bytes
<1>1. m \in Seq(1..255) /\ m # <<>> /\ Len(m) <= 3
  BY PmInputAssumption
<1>2. Len(m) \in Nat \ {0} /\ DOMAIN m = 1..Len(m) /\ \A i \in 1..Len(m) : m[i] \in Bytes
  BY <1>1, EmptySeq, LenProperties, ElementOfSeq DEF Bytes
<1>3. m \in [1..Len(m) -> Bytes]
  BY <1>1, <1>2
<1>4. m \in Seq(Bytes)
  BY <1>2, <1>3
<1>5. ToSet(m) \subseteq 0..255
  BY <1>4, BytesOf
<1>6. Len(m) <= 4
  BY <1>1, <1>2
<1>7. m[1] \in Bytes
  BY <1>2
<1> QED
  BY <1>1, <1>4, <1>5, <1>6, <1>7 DEF Words, Word

(* Unless a sysex was cut off, none is in progress when a message comes    *)
(* that ends one: the driver has passed its EOX on before.                 *)
LEMMA ShortInv ==
  ASSUME IInv, NEW m \in Shorts, Short(m)
  PROVE  IInv'
<1>1. data = <<>> /\ (wire = <<>> \/ m \in Realtime) /\ pm_read_short(m)
      /\ UNCHANGED <<wire, data, bytewise, cuts, filters, polled, sysex>>
  BY DEF Short, client
<1>2. m \in Words /\ m[1] \in Bytes
  BY WordsOfShorts
<1>3. /\ Received
      /\ (sysex_in_progress => is_real_time(m[1])) =>
           (sysex_message' # <<>> => sysex_in_progress' \/ ~sysex_in_progress)
      /\ ~sysex_in_progress => sysex_message' = sysex_message
  <2>1. Types
    BY DEF IInv
  <2> QED
    BY <1>1, <1>2, <2>1, ShortIs
<1>4. Types' /\ PollIsKept'
  <2>1. wire' \in Seq(Bytes) /\ data' \in Seq(Bytes) /\ bytewise' \in BOOLEAN
        /\ UNCHANGED <<cuts, polled>>
    BY <1>1 DEF IInv, Types
  <2> QED
    BY <1>3, <2>1, ReceivedTypes
<1>5. Framing'
  <2>1. ~bytewise'
    BY <1>1 DEF IInv, Framing
  <2>2. ASSUME cuts = 0 PROVE sysex_in_progress => m \in Realtime
    BY <1>1, <2>2 DEF IInv, Framing
  <2>3. m \in Realtime => is_real_time(m[1])
    BY DEF Realtime
  <2>4. ASSUME cuts = 0 PROVE sysex_message' # <<>> => sysex_in_progress'
    <3>1. sysex_message # <<>> => sysex_in_progress
      BY <2>4 DEF IInv, Framing
    <3> QED
      BY <1>3, <2>2, <2>3, <2>4, <3>1
  <2>5. sysex_in_progress' => sysex_in_progress
    BY <1>3 DEF Received
  <2> QED
    BY <1>1, <2>1, <2>4, <2>5 DEF IInv, Framing
<1> QED
  BY <1>4, <1>5 DEF IInv

(* The driver gets a part of the sysex, a clock byte before its last byte  *)
(* or not.                                                                 *)
LEMMA BufferInv ==
  ASSUME IInv, NEW n \in 1..Len(wire), NEW clock \in 0..Len(wire), Buffer(n, clock)
  PROVE  IInv'
<1> DEFINE d == SubSeq(wire, 1, n)
           r == SubSeq(wire, n + 1, Len(wire))
<1>1. data = <<>> /\ wire' = r
      /\ data' = (IF clock \in 1..n THEN InsertAt(d, clock, MIDI_CLOCK) ELSE d)
      /\ UNCHANGED <<stream, closed, bytewise, sysex_in_progress, sysex_message, cuts,
                     filters, polled, sysex>>
  BY DEF Buffer, fifoVars, client
<1>2. /\ d \in Seq(Bytes) /\ Len(d) = n /\ r \in Seq(Bytes)
      /\ IF r = <<>> THEN Last(d) = Last(wire) ELSE Last(r) = Last(wire)
  <2>1. wire \in Seq(Bytes)
    BY DEF IInv, Types
  <2> QED
    BY <2>1, CutIs
<1>3. wire # <<>> /\ n \in Nat /\ n >= 1
  <2>1. Len(wire) \in Nat
    BY LenProperties DEF IInv, Types
  <2>2. Len(wire) # 0 /\ n \in Nat /\ n >= 1
    BY <2>1
  <2> QED
    BY <2>2
<1>4. d # <<>>
  <2>1. Len(d) # 0
    BY <1>2, <1>3
  <2> HIDE DEF d
  <2> QED
    BY <2>1
<1> HIDE DEF d, r
<1>5. data' \in Seq(Bytes) /\ data' # <<>> /\ Last(data') = Last(d)
  <2>1. CASE clock \in 1..n
    <3>1. MIDI_CLOCK \in Bytes /\ clock \in 1..Len(d)
      BY <1>2, <2>1 DEF MIDI_CLOCK, Bytes
    <3> QED
      BY <1>1, <1>2, <2>1, <3>1, Inserted
  <2>2. CASE clock \notin 1..n
    BY <1>1, <1>2, <1>4, <2>2
  <2> QED
    BY <2>1, <2>2
<1>6. ~bytewise
  BY <1>1 DEF IInv, Framing
<1>7. cuts = 0 => Last(wire) = MIDI_EOX
  BY <1>3 DEF IInv, Framing
<1>8. Types' /\ PollIsKept'
  BY <1>1, <1>2, <1>5 DEF IInv, Types, PollIsKept, HasData
<1>9. Framing'
  BY <1>1, <1>2, <1>5, <1>6, <1>7 DEF IInv, Framing
<1> QED
  BY <1>8, <1>9 DEF IInv

(* A single byte is a word. *)
LEMMA ByteIsWord ==
  ASSUME NEW b \in Bytes
  PROVE  <<b>> \in Words /\ <<b>>[1] = b
<1>1. <<b>> \in Seq(Bytes) /\ <<b>> # <<>> /\ Len(<<b>>) <= 4 /\ <<b>>[1] = b
  OBVIOUS
<1>2. ToSet(<<b>>) \subseteq 0..255
  BY <1>1, BytesOf
<1> QED
  BY <1>1, <1>2 DEF Words, Word

(* A byte is passed over, or begins a sysex, which its EOX will end. *)
LEMMA SeekSysexInv ==
  ASSUME IInv, SeekSysex
  PROVE  IInv'
<1> DEFINE b == Head(data)
<1>1. data # <<>> /\ ~sysex_in_progress
      /\ UNCHANGED <<wire, bytewise, cuts, filters, polled, sysex>>
  BY DEF SeekSysex, client
<1>2. /\ b \in Bytes /\ Tail(data) \in Seq(Bytes)
      /\ IF Tail(data) = <<>> THEN b = Last(data) ELSE Last(Tail(data)) = Last(data)
  <2>1. data \in Seq(Bytes)
    BY DEF IInv, Types
  <2> QED
    BY <1>1, <2>1, TailIs
<1>3. ~bytewise
  BY <1>1 DEF IInv, Framing
<1>4. CASE b = MIDI_SYSEX /\ b \notin filters
  <2>1. sysex_in_progress' = TRUE /\ UNCHANGED <<stream, closed, data, sysex_message>>
    BY <1>4 DEF SeekSysex, fifoVars
  <2> QED
    BY <1>1, <1>3, <2>1 DEF IInv, Types, Framing, PollIsKept, HasData
<1>5. CASE ~(b = MIDI_SYSEX /\ b \notin filters)
  <2>1. /\ data' = Tail(data)
        /\ IF IsStatus(b) /\ b # MIDI_EOX THEN pm_read_short(<<b>>)
           ELSE UNCHANGED <<fifoVars, sysex_in_progress, sysex_message>>
    BY <1>5 DEF SeekSysex
  <2> HIDE DEF b
  <2>2. Received /\ sysex_message' = sysex_message
    <3>1. Types
      BY DEF IInv
    <3>2. CASE IsStatus(b) /\ b # MIDI_EOX
      <4>1. pm_read_short(<<b>>)
        BY <2>1, <3>2
      <4>2. <<b>> \in Words /\ <<b>>[1] \in Bytes
        BY <1>2, ByteIsWord
      <4> QED
        BY <1>1, <3>1, <4>1, <4>2, ShortIs
    <3>3. CASE ~(IsStatus(b) /\ b # MIDI_EOX)
      <4>1. UNCHANGED <<fifoVars, sysex_in_progress, sysex_message>>
        BY <2>1, <3>3
      <4> QED
        BY <3>1, <4>1, NothingIs DEF Types
    <3> QED
      BY <3>2, <3>3
  <2>3. Types' /\ PollIsKept'
    <3>1. wire' \in Seq(Bytes) /\ data' \in Seq(Bytes) /\ bytewise' \in BOOLEAN
          /\ UNCHANGED <<cuts, polled>>
      BY <1>1, <1>2, <2>1 DEF IInv, Types
    <3> QED
      BY <2>2, <3>1, ReceivedTypes
  <2>4. ~sysex_in_progress'
    BY <1>1, <2>2 DEF Received
  <2>5. Framing'
    BY <1>1, <1>2, <1>3, <2>1, <2>2, <2>4 DEF IInv, Framing
  <2> QED
    BY <2>3, <2>5 DEF IInv
<1> QED
  BY <1>4, <1>5

(* Four bytes of data never hold the EOX. *)
LEMMA CopyWordInv ==
  ASSUME IInv, CopyWord
  PROVE  IInv'
<1> DEFINE w == SubSeq(data, 1, 4)
           r == SubSeq(data, 5, Len(data))
<1>1. sysex_in_progress /\ ~bytewise /\ sysex_message = <<>> /\ Len(data) >= 4
      /\ ~IsStatus(data[4]) /\ Deliver(w) /\ data' = r
      /\ UNCHANGED <<wire, bytewise, cuts, filters, polled, sysex>>
  BY DEF CopyWord, CanCopyWord, client
<1>2. /\ w \in Seq(Bytes) /\ Len(w) = 4 /\ r \in Seq(Bytes)
      /\ IF r = <<>> THEN Len(data) = 4 ELSE Last(r) = Last(data)
  <2>1. data \in Seq(Bytes) /\ Len(data) \in Nat
    BY LenProperties DEF IInv, Types
  <2>2. 4 \in 1..Len(data) /\ 4 + 1 = 5
    BY <1>1, <2>1
  <2>3. /\ SubSeq(data, 1, 4) \in Seq(Bytes) /\ Len(SubSeq(data, 1, 4)) = 4
        /\ SubSeq(data, 4 + 1, Len(data)) \in Seq(Bytes)
        /\ IF SubSeq(data, 4 + 1, Len(data)) = <<>> THEN 4 = Len(data)
           ELSE Last(SubSeq(data, 4 + 1, Len(data))) = Last(data)
    BY <2>1, <2>2, CutIs
  <2> QED
    BY <2>2, <2>3
<1> HIDE DEF w, r
<1>3. w \in Words
  <2>1. Len(w) # 0 /\ Len(w) <= 4
    BY <1>2
  <2>2. w # <<>>
    BY <2>1
  <2>3. ToSet(w) \subseteq 0..255
    BY <1>2, BytesOf
  <2> QED
    BY <1>2, <2>1, <2>2, <2>3 DEF Words, Word
<1>4. Received /\ sysex_message' = sysex_message
  <2>1. Types
    BY DEF IInv
  <2> QED
    BY <1>1, <1>3, <2>1, DeliverIs
<1>5. Types' /\ PollIsKept'
  <2>1. wire' \in Seq(Bytes) /\ data' \in Seq(Bytes) /\ bytewise' \in BOOLEAN
        /\ UNCHANGED <<cuts, polled>>
    BY <1>1, <1>2 DEF IInv, Types
  <2> QED
    BY <1>4, <2>1, ReceivedTypes
<1>6. data # <<>>
  <2>1. Len(data) # 0
    BY <1>1
  <2> QED
    BY <2>1
<1>7. ASSUME cuts = 0, wire = <<>> PROVE r # <<>> /\ Last(r) = MIDI_EOX
  <2>1. Last(data) = MIDI_EOX
    BY <1>6, <1>7 DEF IInv, Framing
  <2>2. ASSUME r = <<>> PROVE FALSE
    <3>1. data[4] = MIDI_EOX
      BY <1>2, <2>1, <2>2 DEF Last
    <3> QED
      BY <1>1, <3>1 DEF IsStatus, MIDI_EOX
  <2> QED
    BY <1>2, <2>1, <2>2
<1>8. Framing'
  BY <1>1, <1>4, <1>7 DEF IInv, Framing
<1> QED
  BY <1>5, <1>8 DEF IInv

(* The EOX, which no filter takes out, is the last byte of the sysex: no   *)
(* byte is left of it, nor of its last word.                               *)
LEMMA CopyByteInv ==
  ASSUME IInv, CopyByte
  PROVE  IInv'
<1> DEFINE b == Head(data)
           w == Append(sysex_message, b)
           f == Filtered(b)
<1>1. data # <<>> /\ sysex_in_progress /\ data' = Tail(data)
      /\ UNCHANGED <<wire, cuts, filters, polled, sysex>>
  BY DEF CopyByte, client
<1>5. b = MIDI_EOX => ~f
  BY DEF Filtered, is_real_time, MIDI_EOX, MIDI_SYSEX
<1>2. /\ f => UNCHANGED <<fifoVars, sysex_in_progress, sysex_message>>
      /\ ~f /\ b = MIDI_EOX => /\ Enqueue(w)
                               /\ sysex_message' = <<>>
                               /\ sysex_in_progress' = FALSE
      /\ ~f /\ b # MIDI_EOX => Pack(b)
  <2>1. ASSUME f PROVE UNCHANGED <<fifoVars, sysex_in_progress, sysex_message>>
    BY <1>5, <2>1 DEF CopyByte
  <2>2. ASSUME ~f, b = MIDI_EOX
        PROVE  Enqueue(w) /\ sysex_message' = <<>> /\ sysex_in_progress' = FALSE
    BY <2>2 DEF CopyByte
  <2>3. ASSUME ~f, b # MIDI_EOX PROVE Pack(b)
    BY <2>3 DEF CopyByte
  <2> QED
    BY <2>1, <2>2, <2>3
<1>3. bytewise' = (data' # <<>> /\ (f \/ sysex_message' # <<>>))
  BY DEF CopyByte
<1>4. /\ b \in Bytes /\ Tail(data) \in Seq(Bytes)
      /\ IF Tail(data) = <<>> THEN b = Last(data) ELSE Last(Tail(data)) = Last(data)
  <2>1. data \in Seq(Bytes)
    BY DEF IInv, Types
  <2> QED
    BY <1>1, <2>1, TailIs
<1>6. Types /\ w \in Words
  <2>1. Types
    BY DEF IInv
  <2> QED
    BY <1>4, <2>1, WordIs
<1> HIDE DEF b, w, f
<1>7. /\ Received
      /\ sysex_message' # <<>> => sysex_in_progress' \/ sysex_message' = sysex_message
      /\ f \/ sysex_message' # <<>> => sysex_in_progress'
      /\ b = MIDI_EOX => ~sysex_in_progress'
  <2>1. CASE f
    <3>1. UNCHANGED <<fifoVars, sysex_in_progress, sysex_message>> /\ b # MIDI_EOX
      BY <1>2, <1>5, <2>1
    <3>2. Received
      BY <1>6, <3>1, NothingIs DEF Types
    <3> QED
      BY <1>1, <3>1, <3>2
  <2>2. CASE ~f /\ b = MIDI_EOX
    <3>1. Enqueue(w) /\ sysex_message' = <<>> /\ sysex_in_progress' = FALSE
      BY <1>2, <2>2
    <3>2. QueueKept
      BY <1>6, <3>1, EnqueueIs
    <3>3. <<>> \in Seq(Bytes) /\ Len(<<>>) < 4
      BY EmptySeq
    <3>4. Received
      BY <3>1, <3>2, <3>3 DEF Received
    <3> QED
      BY <2>2, <3>1, <3>4
  <2>3. CASE ~f /\ b # MIDI_EOX
    <3>1. Pack(b)
      BY <1>2, <2>3
    <3>2. Received /\ (sysex_message' # <<>> => sysex_in_progress')
      BY <1>1, <1>4, <1>6, <3>1, PackIs
    <3> QED
      BY <2>3, <3>2
  <2> QED
    BY <2>1, <2>2, <2>3
<1>8. Types' /\ PollIsKept'
  <2>1. wire' \in Seq(Bytes) /\ data' \in Seq(Bytes) /\ UNCHANGED <<cuts, polled>>
    BY <1>1, <1>4, <1>6 DEF Types
  <2>2. bytewise' \in BOOLEAN
    BY <1>3
  <2> QED
    BY <1>7, <2>1, <2>2, ReceivedTypes
<1>9. Framing'
  <2>1. bytewise' => sysex_in_progress' /\ data' # <<>>
    BY <1>3, <1>7
  <2>2. ASSUME cuts = 0
        PROVE  /\ wire' # <<>> => Last(wire') = MIDI_EOX
               /\ wire' = <<>> /\ data' # <<>> => Last(data') = MIDI_EOX
               /\ sysex_in_progress' => wire' # <<>> \/ data' # <<>>
    <3>1. wire = <<>> => Last(data) = MIDI_EOX
      BY <1>1, <2>2 DEF IInv, Framing
    <3>2. wire' # <<>> => Last(wire') = MIDI_EOX
      BY <1>1, <2>2 DEF IInv, Framing
    <3> QED
      BY <1>1, <1>4, <1>7, <3>1, <3>2
  <2>3. sysex_message' # <<>> => sysex_in_progress'
    BY <1>7
  <2> QED
    BY <1>1, <2>1, <2>2, <2>3 DEF Framing
<1> QED
  BY <1>8, <1>9 DEF IInv

(* The client. *)

(* A filter is only looked at when a byte is received. *)
LEMMA SetFilterInv ==
  ASSUME IInv, NEW f \in Filters, SetFilter(f)
  PROVE  IInv'
BY DEF SetFilter, fifoVars, driver, client, IInv, Types, Framing, PollIsKept, HasData

(* The answer of a Pm_Poll is true when it is given. *)
LEMMA PollInv ==
  ASSUME IInv, Poll
  PROVE  IInv'
<1>1. polled' = HasData /\ UNCHANGED <<stream, closed, driver>>
  BY DEF Poll, PollAnswer, fifoVars
<1>2. polled' \in BOOLEAN /\ PollIsKept'
  BY <1>1 DEF HasData, PollIsKept
<1> QED
  BY <1>1, <1>2 DEF IInv, Types, Framing, driver

(* After a Pm_Read no answer is relied on any more. *)
LEMMA ReadInv ==
  ASSUME IInv, Read
  PROVE  IInv'
<1>1. polled' = FALSE /\ UNCHANGED driver
  BY DEF Read
<1>2. stream' \in Seq(Items) /\ closed' \in BOOLEAN
  <2>1. stream \in Seq(Items) /\ closed \in BOOLEAN
    BY DEF IInv, Types, Items
  <2>2. CASE stream = <<>>
    BY <2>1, <2>2 DEF Read, fifoVars
  <2>3. CASE stream # <<>>
    <3>1. Give
      BY <2>3 DEF Read
    <3>2. Tail(stream) \in Seq(Items)
      BY <2>1, <2>3, TailIs
    <3> QED
      BY <2>1, <3>1, <3>2 DEF Give
  <2> QED
    BY <2>2, <2>3
<1> QED
  BY <1>1, <1>2 DEF IInv, Types, Framing, PollIsKept, driver, Items

-----------------------------------------------------------------------------
(* IInv is an invariant of the driver and the client, in any interleaving. *)
THEOREM Spec_IInv == Spec => []IInv
<1>1. Init => IInv
  BY InitInv
<1>2. IInv /\ [Next]_vars => IInv'
  <2> SUFFICES ASSUME IInv, [Next]_vars PROVE IInv'
    OBVIOUS
  <2>1. ASSUME NEW s \in Sysexes, StartSysex(s) PROVE IInv'
    BY <2>1, StartSysexInv
  <2>2. CASE Cut
    BY <2>2, CutInv
  <2>3. ASSUME NEW m \in Shorts, Short(m) PROVE IInv'
    BY <2>3, ShortInv
  <2>4. ASSUME NEW n \in 1..Len(wire), NEW clock \in 0..Len(wire), Buffer(n, clock)
        PROVE  IInv'
    BY <2>4, BufferInv
  <2>5. CASE SeekSysex
    BY <2>5, SeekSysexInv
  <2>6. CASE CopyWord
    BY <2>6, CopyWordInv
  <2>7. CASE CopyByte
    BY <2>7, CopyByteInv
  <2>8. ASSUME NEW f \in Filters, SetFilter(f) PROVE IInv'
    BY <2>8, SetFilterInv
  <2>9. CASE Poll
    BY <2>9, PollInv
  <2>10. CASE Read
    BY <2>10, ReadInv
  <2>11. CASE UNCHANGED vars
    BY <2>11 DEF vars, driver, client, IInv, Types, Framing, PollIsKept, HasData
  <2> QED
    BY <2>1, <2>2, <2>3, <2>4, <2>5, <2>6, <2>7, <2>8, <2>9, <2>10, <2>11
    DEF Next, DriverStep
<1> QED
  BY <1>1, <1>2, PTL DEF Spec

(* Whatever comes over the cable, and however it is cut: every message for *)
(* the client fits the four bytes of a PmEvent, the word being packed has  *)
(* less, and it belongs to a sysex in progress unless one was cut off.     *)
THEOREM MessagesFit == Spec => []TypeOK
<1>1. IInv => TypeOK
  <2> SUFFICES ASSUME IInv PROVE TypeOK
    OBVIOUS
  <2>1. ASSUME NEW i \in DOMAIN stream PROVE stream[i] = Gap \/ Word(stream[i])
    <3>1. stream[i] \in Words \cup {Gap}
      BY LenProperties, ElementOfSeq DEF IInv, Types
    <3> QED
      BY <3>1 DEF Words
  <2>2. ASSUME sysex_message # <<>>
        PROVE  /\ Word(sysex_message) /\ Len(sysex_message) < 4
               /\ sysex_in_progress \/ cuts > 0
    <3>1. sysex_message \in Seq(Bytes) /\ Len(sysex_message) < 4 /\ cuts \in 0..MaxCuts
      BY DEF IInv, Types
    <3>2. Len(sysex_message) \in Nat
      BY <3>1, LenProperties
    <3>3. Word(sysex_message)
      <4>1. ToSet(sysex_message) \subseteq 0..255
        BY <3>1, BytesOf
      <4>2. Len(sysex_message) <= 4
        BY <3>1, <3>2
      <4> QED
        BY <2>2, <4>1, <4>2 DEF Word
    <3>4. cuts = 0 \/ cuts > 0
      BY <3>1, PmInputAssumption
    <3> QED
      BY <2>2, <3>1, <3>3, <3>4 DEF IInv, Framing
  <2> QED
    BY <2>1, <2>2 DEF IInv, Types, Framing, TypeOK
<1> QED
  BY <1>1, Spec_IInv, PTL

(* Nothing that the driver receives or drops between the client's Pm_Poll  *)
(* and its Pm_Read takes away the message that Pm_Poll has promised.       *)
THEOREM PollsAreKept == Spec => []PollIsKept
<1>1. IInv => PollIsKept
  BY DEF IInv
<1> QED
  BY <1>1, Spec_IInv, PTL

-----------------------------------------------------------------------------
(* What the client makes of the words: Plain(w), byte by byte.             *)
UpTo(K, i) == {j \in K : j <= i}

(* The elements of a set of numbers are counted up, each with its place. *)
LEMMA PlacesOf ==
  ASSUME NEW K \in SUBSET Nat, IsFiniteSet(K)
  PROVE  /\ \A i \in K : Cardinality(UpTo(K, i)) \in 1..Cardinality(K)
         /\ \A i, j \in K : Cardinality(UpTo(K, i)) = Cardinality(UpTo(K, j)) => i = j
         /\ \A k \in 1..Cardinality(K) : \E i \in K : Cardinality(UpTo(K, i)) = k
<1> DEFINE n == Cardinality(K)
           c(i) == Cardinality(UpTo(K, i))
<1>1. n \in Nat
  BY FS_CardinalityType
<1>2. ASSUME NEW i \in K PROVE IsFiniteSet(UpTo(K, i)) /\ c(i) \in 1..n
  <2>1. UpTo(K, i) \in SUBSET K
    BY DEF UpTo
  <2>2. IsFiniteSet(UpTo(K, i)) /\ c(i) <= n
    BY <2>1, FS_Subset
  <2>3. c(i) \in Nat
    BY <2>2, FS_CardinalityType
  <2>4. i \in UpTo(K, i)
    BY DEF UpTo
  <2>5. c(i) # 0
    BY <2>2, <2>4, FS_EmptySet
  <2> QED
    BY <1>1, <2>2, <2>3, <2>5
<1>3. ASSUME NEW i \in K, NEW j \in K, c(i) = c(j), i < j PROVE FALSE
  <2>0. i \in Nat /\ j \in Nat /\ K \subseteq Nat
    OBVIOUS
  <2>1. UpTo(K, i) \in SUBSET UpTo(K, j)
    <3>1. ASSUME NEW k \in K, k <= i PROVE k <= j
      BY <1>3, <2>0, <3>1
    <3> QED
      BY <3>1 DEF UpTo
  <2>2. j \in UpTo(K, j) /\ j \notin UpTo(K, i)
    BY <1>3, <2>0 DEF UpTo
  <2>3. UpTo(K, j) = UpTo(K, i)
    BY <1>2, <1>3, <2>1, FS_Subset
  <2> QED
    BY <2>2, <2>3
<1>4. ASSUME NEW i \in K, NEW j \in K, c(i) = c(j) PROVE i = j
  <2>1. i \in Nat /\ j \in Nat
    OBVIOUS
  <2>2. ~(i < j) /\ ~(j < i)
    BY <1>3, <1>4
  <2> QED
    BY <2>1, <2>2
<1> DEFINE f == [i \in K |-> c(i)]
<1>5. f \in Injection(K, 1..n)
  <2>1. f \in [K -> 1..n]
    BY <1>2
  <2>2. \A i, j \in K : f[i] = f[j] => i = j
    BY <1>4
  <2> QED
    BY <2>1, <2>2 DEF Injection, IsInjective
<1>6. IsFiniteSet(1..n) /\ Cardinality(1..n) = n
  <2>1. 1 \in Int /\ n \in Int /\ (IF 1 > n THEN 0 ELSE n - 1 + 1) = n
    BY <1>1
  <2> QED
    BY <2>1, FS_Interval
<1> HIDE DEF f
<1>7. f \in Surjection(K, 1..n)
  BY <1>5, <1>6, FS_Injection
<1>8. ASSUME NEW k \in 1..n PROVE \E i \in K : c(i) = k
  <2>1. PICK i \in K : f[i] = k
    BY <1>7 DEF Surjection
  <2>2. f[i] = c(i)
    BY DEF f
  <2> QED
    BY <2>1, <2>2
<1> QED
  BY <1>2, <1>4, <1>8

(* The places of the bytes that are kept. *)
LEMMA KeptIs ==
  ASSUME NEW w \in Seq(Bytes)
  PROVE  /\ Kept(w) = {i \in 1..Len(w) : ~is_real_time(w[i])}
         /\ Kept(w) \in SUBSET Nat /\ IsFiniteSet(Kept(w))
         /\ Cardinality(Kept(w)) \in Nat
<1>1. Len(w) \in Nat /\ DOMAIN w = 1..Len(w)
  BY LenProperties
<1>2. Kept(w) = {i \in 1..Len(w) : ~is_real_time(w[i])}
  BY <1>1 DEF Kept
<1>3. Kept(w) \in SUBSET Nat /\ \A i \in Kept(w) : i <= Len(w)
  BY <1>1, <1>2
<1>4. IsFiniteSet(Kept(w))
  BY <1>1, <1>3, FS_BoundedSetOfNaturals
<1> QED
  BY <1>2, <1>3, <1>4, FS_CardinalityType

(* A sequence holds the bytes of w that are kept, each at its place. *)
LEMMA PlainIs ==
  ASSUME NEW w \in Seq(Bytes), NEW t \in Seq(Bytes),
         Len(t) = Cardinality(Kept(w)),
         \A i \in Kept(w) : t[Cardinality(UpTo(Kept(w), i))] = w[i]
  PROVE  Plain(w) = t
<1> DEFINE K == Kept(w)
           n == Cardinality(K)
           c(i) == Cardinality(UpTo(K, i))
           at(k) == CHOOSE i \in K : c(i) = k
<1>1. K \in SUBSET Nat /\ IsFiniteSet(K) /\ n \in Nat
  BY KeptIs
<1>2. \A k \in 1..n : \E i \in K : c(i) = k
  BY <1>1, PlacesOf
<1>3. Plain(w) = [k \in 1..n |-> w[at(k)]]
  BY DEF Plain, UpTo
<1>4. ASSUME NEW k \in 1..n PROVE w[at(k)] = t[k]
  <2>1. at(k) \in K /\ c(at(k)) = k
    BY <1>2
  <2> QED
    BY <2>1
<1>5. t = [k \in 1..n |-> t[k]]
  BY LenProperties
<1> QED
  BY <1>3, <1>4, <1>5

(* Nothing is left of nothing. *)
LEMMA PlainOfEmpty == Plain(<<>>) = <<>>
<1>1. Kept(<<>>) = {}
  BY DEF Kept
<1>2. <<>> \in Seq(Bytes) /\ Len(<<>>) = 0
  BY EmptySeq
<1>3. Cardinality({}) = 0
  BY FS_EmptySet
<1> QED
  BY <1>1, <1>2, <1>3, PlainIs

(* Nothing is taken out of a sequence without real-time bytes. *)
LEMMA PlainOfPlain ==
  ASSUME NEW w \in Seq(Bytes), \A i \in 1..Len(w) : ~is_real_time(w[i])
  PROVE  Plain(w) = w
<1>1. Len(w) \in Nat
  BY LenProperties
<1>2. Kept(w) = 1..Len(w)
  BY KeptIs
<1>3. ASSUME NEW n \in Nat PROVE Cardinality(1..n) = n
  <2>1. 1 \in Int /\ n \in Int /\ (IF 1 > n THEN 0 ELSE n - 1 + 1) = n
    OBVIOUS
  <2> QED
    BY <2>1, FS_Interval
<1>4. ASSUME NEW i \in 1..Len(w) PROVE Cardinality(UpTo(1..Len(w), i)) = i
  <2>1. UpTo(1..Len(w), i) = 1..i /\ i \in Nat
    BY <1>1 DEF UpTo
  <2> QED
    BY <1>3, <2>1
<1> QED
  BY <1>1, <1>2, <1>3, <1>4, PlainIs

(* A real-time byte by itself is taken out. *)
LEMMA PlainOfByte ==
  ASSUME NEW b \in Bytes
  PROVE  Plain(<<b>>) = IF is_real_time(b) THEN <<>> ELSE <<b>>
<1> DEFINE w == <<b>>
<1>1. w \in Seq(Bytes) /\ Len(w) = 1 /\ w[1] = b
  OBVIOUS
<1> HIDE DEF w
<1>2. CASE is_real_time(b)
  <2>1. Kept(w) = {}
    BY <1>1, <1>2, KeptIs
  <2>2. <<>> \in Seq(Bytes) /\ Len(<<>>) = 0
    BY EmptySeq
  <2>3. Cardinality({}) = 0
    BY FS_EmptySet
  <2>4. Plain(w) = <<>>
    BY <1>1, <2>1, <2>2, <2>3, PlainIs
  <2> QED
    BY <1>2, <2>4 DEF w
<1>3. CASE ~is_real_time(b)
  <2>1. Plain(w) = w
    BY <1>1, <1>3, PlainOfPlain
  <2> QED
    BY <1>3, <2>1 DEF w
<1> QED
  BY <1>2, <1>3

(* A set is moved up by n: it has as many elements. *)
LEMMA MovedUp ==
  ASSUME NEW L \in SUBSET Nat, IsFiniteSet(L), NEW n \in Nat
  PROVE  LET M == {n + l : l \in L}
         IN  IsFiniteSet(M) /\ Cardinality(M) = Cardinality(L)
<1> DEFINE M == {n + l : l \in L}
           f == [l \in L |-> n + l]
<1>1. f \in [L -> M] /\ \A l \in L : f[l] = n + l
  OBVIOUS
<1>2. \A a, b \in L : a \in Nat /\ b \in Nat /\ (n + a = n + b => a = b)
  OBVIOUS
<1>3. \A m \in M : \E l \in L : m = n + l
  OBVIOUS
<1> HIDE DEF f, M
<1>4. f \in Injection(L, M)
  BY <1>1, <1>2 DEF Injection, IsInjective
<1>5. f \in Surjection(L, M)
  BY <1>1, <1>3 DEF Surjection
<1>6. ExistsBijection(L, M)
  BY <1>4, <1>5 DEF ExistsBijection, Bijection
<1>7. IsFiniteSet(M) /\ Cardinality(M) = Cardinality(L)
  BY <1>6, FS_Bijection
<1> QED
  BY <1>7 DEF M

(* What is kept of w, and where. *)
LEMMA PlainHas ==
  ASSUME NEW w \in Seq(Bytes)
  PROVE  /\ Plain(w) \in Seq(Bytes) /\ Len(Plain(w)) = Cardinality(Kept(w))
         /\ \A i \in Kept(w) : Plain(w)[Cardinality(UpTo(Kept(w), i))] = w[i]
         /\ \A k \in 1..Len(Plain(w)) : \E i \in Kept(w) : Plain(w)[k] = w[i]
<1> DEFINE K == Kept(w)
           n == Cardinality(K)
           c(i) == Cardinality(UpTo(K, i))
           at(k) == CHOOSE i \in K : c(i) = k
           t == [k \in 1..n |-> w[at(k)]]
<1>1. K = {i \in 1..Len(w) : ~is_real_time(w[i])} /\ K \in SUBSET Nat /\ IsFiniteSet(K) /\ n \in Nat
  BY KeptIs
<1>2. /\ \A i \in K : c(i) \in 1..n
      /\ \A i, j \in K : c(i) = c(j) => i = j
      /\ \A k \in 1..n : \E i \in K : c(i) = k
  BY <1>1, PlacesOf
<1>3. Plain(w) = t
  BY DEF Plain, UpTo
<1>4. ASSUME NEW k \in 1..n PROVE at(k) \in K /\ c(at(k)) = k /\ w[at(k)] \in Bytes
  <2>1. at(k) \in K /\ c(at(k)) = k
    BY <1>2
  <2>2. at(k) \in 1..Len(w)
    BY <1>1, <2>1
  <2> QED
    BY <2>1, <2>2, ElementOfSeq
<1>5. t \in [1..n -> Bytes] /\ \A k \in 1..n : t[k] = w[at(k)]
  BY <1>4
<1>6. t \in Seq(Bytes) /\ Len(t) = n
  <2> HIDE DEF t, n
  <2> QED
    BY <1>1, <1>5
<1>7. ASSUME NEW i \in K PROVE t[c(i)] = w[i]
  <2>1. c(i) \in 1..n
    BY <1>2
  <2>2. at(c(i)) = i
    BY <1>2, <1>4, <2>1
  <2> QED
    BY <1>5, <2>1, <2>2
<1>8. ASSUME NEW k \in 1..n PROVE \E i \in K : t[k] = w[i]
  BY <1>4, <1>5
<1> HIDE DEF t
<1> QED
  BY <1>3, <1>6, <1>7, <1>8

(* What is kept of two sequences, one after the other, is what is kept of  *)
(* each.                                                                   *)
LEMMA PlainOfConcat ==
  ASSUME NEW s \in Seq(Bytes), NEW t \in Seq(Bytes)
  PROVE  s \o t \in Seq(Bytes) /\ Plain(s \o t) = Plain(s) \o Plain(t)
<1> DEFINE w == s \o t
           n == Len(s)
           K == Kept(s)
           L == Kept(t)
           M == {n + l : l \in L}
           p == Plain(s)
           q == Plain(t)
           r == p \o q
<1>1. /\ w \in Seq(Bytes) /\ Len(w) = n + Len(t) /\ n \in Nat /\ Len(t) \in Nat
      /\ \A i \in 1..(n + Len(t)) : w[i] = IF i <= n THEN s[i] ELSE t[i - n]
  BY ConcatProperties, LenProperties
<1>2. K = {i \in 1..n : ~is_real_time(s[i])} /\ K \in SUBSET Nat /\ IsFiniteSet(K)
      /\ Cardinality(K) \in Nat
  BY KeptIs
<1>3. L = {i \in 1..Len(t) : ~is_real_time(t[i])} /\ L \in SUBSET Nat /\ IsFiniteSet(L)
      /\ Cardinality(L) \in Nat
  BY KeptIs
<1>4. IsFiniteSet(M) /\ Cardinality(M) = Cardinality(L)
  BY <1>1, <1>3, MovedUp
<1>5. /\ p \in Seq(Bytes) /\ Len(p) = Cardinality(K)
      /\ \A i \in K : p[Cardinality(UpTo(K, i))] = s[i]
  BY PlainHas
<1>6. /\ q \in Seq(Bytes) /\ Len(q) = Cardinality(L)
      /\ \A i \in L : q[Cardinality(UpTo(L, i))] = t[i]
  BY PlainHas
<1>7. /\ r \in Seq(Bytes) /\ Len(r) = Len(p) + Len(q)
      /\ \A i \in 1..(Len(p) + Len(q)) : r[i] = IF i <= Len(p) THEN p[i] ELSE q[i - Len(p)]
  BY <1>5, <1>6, ConcatProperties
<1>8. Kept(w) = {i \in 1..Len(w) : ~is_real_time(w[i])}
  BY <1>1, KeptIs
<1> HIDE DEF w, p, q, r, n, K, L
<1>9. Kept(w) = K \cup M
  <2>1. ASSUME NEW i \in Kept(w) PROVE i \in K \cup M
    <3>1. i \in 1..(n + Len(t)) /\ ~is_real_time(w[i])
      BY <1>1, <1>8
    <3>2. CASE i <= n
      BY <1>1, <1>2, <3>1, <3>2
    <3>3. CASE ~(i <= n)
      <4>1. i - n \in 1..Len(t) /\ i = n + (i - n) /\ w[i] = t[i - n]
        BY <1>1, <3>1, <3>3
      <4>2. i - n \in L
        BY <1>3, <3>1, <4>1
      <4> QED
        BY <4>1, <4>2
    <3> QED
      BY <3>2, <3>3
  <2>2. ASSUME NEW i \in K PROVE i \in Kept(w)
    <3>1. i \in 1..n /\ ~is_real_time(s[i])
      BY <1>2
    <3>2. i \in 1..(n + Len(t)) /\ i <= n
      BY <1>1, <3>1
    <3>3. w[i] = s[i]
      BY <1>1, <3>2
    <3> QED
      BY <1>1, <1>8, <3>1, <3>2, <3>3
  <2>3. ASSUME NEW l \in L PROVE n + l \in Kept(w)
    <3>1. l \in 1..Len(t) /\ ~is_real_time(t[l])
      BY <1>3
    <3>2. n + l \in 1..(n + Len(t)) /\ ~(n + l <= n) /\ (n + l) - n = l
      BY <1>1, <3>1
    <3>3. w[n + l] = t[l]
      BY <1>1, <3>2
    <3> QED
      BY <1>1, <1>8, <3>1, <3>2, <3>3
  <2> QED
    BY <2>1, <2>2, <2>3
<1>10. ASSUME NEW i \in K PROVE i \in Nat /\ i <= n
  BY <1>1, <1>2
<1>11. ASSUME NEW l \in L PROVE l \in Nat /\ l >= 1
  BY <1>1, <1>3
<1>12. K \cap M = {}
  <2>1. ASSUME NEW i \in K, NEW l \in L, i = n + l PROVE FALSE
    BY <1>1, <1>10, <1>11, <2>1
  <2> QED
    BY <2>1
<1>13. ASSUME NEW S, NEW T, IsFiniteSet(S), IsFiniteSet(T), S \cap T = {}
       PROVE  Cardinality(S \cup T) = Cardinality(S) + Cardinality(T)
  <2>1. Cardinality(S \cup T) = Cardinality(S) + Cardinality(T) - Cardinality(S \cap T)
    BY <1>13, FS_Union
  <2>2. Cardinality(S) \in Nat /\ Cardinality(T) \in Nat /\ Cardinality({}) = 0
    BY <1>13, FS_CardinalityType, FS_EmptySet
  <2>3. Cardinality(S \cap T) = 0
    BY <1>13, <2>2, Zenon
  <2>4. \A x, y \in Nat : x + y - 0 = x + y
    OBVIOUS
  <2> QED
    BY <2>1, <2>2, <2>3, <2>4, Zenon
<1>14. Len(r) = Cardinality(Kept(w))
  <2>1. Cardinality(K \cup M) = Cardinality(K) + Cardinality(M)
    BY <1>2, <1>4, <1>12, <1>13, Zenon
  <2> QED
    BY <1>4, <1>5, <1>6, <1>7, <1>9, <2>1, Zenon
<1>15. ASSUME NEW i \in K PROVE r[Cardinality(UpTo(Kept(w), i))] = w[i]
  <2>1. UpTo(Kept(w), i) = UpTo(K, i)
    <3>1. ASSUME NEW l \in L PROVE ~(n + l <= i)
      BY <1>1, <1>10, <1>11
    <3> QED
      BY <1>9, <3>1 DEF UpTo
  <2>2. Cardinality(UpTo(K, i)) \in 1..Cardinality(K)
    BY <1>2, PlacesOf
  <2> DEFINE k == Cardinality(UpTo(K, i))
  <2>3. k \in 1..Len(p) /\ Len(q) \in Nat /\ Len(p) \in Nat
    BY <1>2, <1>3, <1>5, <1>6, <2>2
  <2>6. p[k] = s[i]
    BY <1>5
  <2> HIDE DEF k
  <2>4. r[k] = p[k]
    BY <1>7, <2>3
  <2>5. w[i] = s[i]
    <3>1. i \in 1..n /\ i \in 1..(n + Len(t)) /\ i <= n
      BY <1>1, <1>2
    <3> QED
      BY <1>1, <3>1
  <2> QED
    BY <2>1, <2>4, <2>5, <2>6 DEF k
<1>16. ASSUME NEW l \in L PROVE r[Cardinality(UpTo(Kept(w), n + l))] = w[n + l]
  <2> DEFINE V == UpTo(L, l)
             W == {n + v : v \in V}
             k == Cardinality(V)
  <2>1. UpTo(Kept(w), n + l) = K \cup W
    <3>1. \A i \in K : i <= n + l
      BY <1>1, <1>10, <1>11
    <3>2. \A j \in L : n + j <= n + l <=> j <= l
      BY <1>1, <1>11
    <3> QED
      BY <1>9, <3>1, <3>2 DEF UpTo
  <2>2. V \in SUBSET L /\ V \in SUBSET Nat
    BY <1>3 DEF UpTo
  <2>3. IsFiniteSet(V)
    BY <1>3, <2>2, FS_Subset
  <2>4. IsFiniteSet(W) /\ Cardinality(W) = k
    <3> HIDE DEF V
    <3> QED
      BY <1>1, <2>2, <2>3, MovedUp
  <2>5. K \cap W = {}
    BY <1>12, <2>2
  <2>6. Cardinality(K \cup W) = Len(p) + k
    BY <1>2, <1>5, <1>13, <2>4, <2>5
  <2>7. k \in 1..Len(q)
    BY <1>3, <1>6, PlacesOf
  <2>8. q[k] = t[l]
    BY <1>6
  <2>9. Len(p) \in Nat /\ Len(q) \in Nat
    BY <1>2, <1>3, <1>5, <1>6
  <2> HIDE DEF k, V, W
  <2>10. r[Len(p) + k] = q[k]
    <3>1. Len(p) + k \in 1..(Len(p) + Len(q)) /\ ~(Len(p) + k <= Len(p)) /\ (Len(p) + k) - Len(p) = k
      BY <2>7, <2>9
    <3> QED
      BY <1>7, <3>1
  <2>11. w[n + l] = t[l]
    <3>1. n + l \in 1..(n + Len(t)) /\ ~(n + l <= n) /\ (n + l) - n = l
      BY <1>1, <1>3
    <3> QED
      BY <1>1, <3>1
  <2> QED
    BY <2>1, <2>6, <2>8, <2>10, <2>11
<1>17. Plain(w) = r
  <2>1. \A i \in Kept(w) : r[Cardinality(UpTo(Kept(w), i))] = w[i]
    BY <1>9, <1>15, <1>16
  <2> QED
    BY <1>1, <1>7, <1>14, <2>1, PlainIs
<1> QED
  BY <1>1, <1>17 DEF w, r, p, q

(* Three sequences of bytes, one after the other. *)
LEMMA JoinedBytes ==
  ASSUME NEW s \in Seq(Bytes), NEW t \in Seq(Bytes), NEW u \in Seq(Bytes)
  PROVE  (s \o t) \o u = s \o (t \o u)
BY ConcatAssociative

-----------------------------------------------------------------------------
(* What the client has of a sysex when it has read a word, or has been     *)
(* told of words that were dropped; and which of these are the beginning   *)
(* of one that was sent, or such a beginning that is broken off.           *)
After(s, w) == IF w = Gap THEN <<>> ELSE Assembled(s, w)
Broken(s)   == s \notin {<<>>, <<MIDI_SYSEX>>} /\ Last(s) # MIDI_EOX
Begun(s)    == s = <<>> \/ \E f \in Sysexes, q \in Seq(Bytes) : s \o q = Framed(f)

(* A sequence is its first byte and the rest. *)
LEMMA FirstAndRest ==
  ASSUME NEW w \in Seq(Bytes), w # <<>>
  PROVE  /\ Head(w) \in Bytes /\ Head(w) = w[1] /\ Tail(w) \in Seq(Bytes)
         /\ w = <<Head(w)>> \o Tail(w)
         /\ Plain(w) = (IF is_real_time(Head(w)) THEN <<>> ELSE <<Head(w)>>) \o Plain(Tail(w))
<1> DEFINE h == <<Head(w)>>
           t == Tail(w)
           c == h \o t
<1>1. Len(w) \in Nat \ {0} /\ Head(w) \in Bytes /\ Head(w) = w[1] /\ t \in Seq(Bytes)
      /\ Len(t) = Len(w) - 1
  BY TailIs
<1>2. \A i \in 1..Len(t) : t[i] = w[i + 1]
  BY HeadTailProperties
<1>3. h \in Seq(Bytes) /\ Len(h) = 1 /\ h[1] = w[1]
  BY <1>1
<1>10. Plain(h) = IF is_real_time(Head(w)) THEN <<>> ELSE <<Head(w)>>
  BY <1>1, PlainOfByte
<1> HIDE DEF h, t
<1>4. /\ c \in Seq(Bytes) /\ Len(c) = Len(h) + Len(t)
      /\ \A i \in 1..(Len(h) + Len(t)) : c[i] = IF i <= Len(h) THEN h[i] ELSE t[i - Len(h)]
  BY <1>1, <1>3, ConcatProperties
<1> HIDE DEF c
<1>5. Len(c) = Len(w)
  BY <1>1, <1>3, <1>4
<1>6. ASSUME NEW i \in 1..Len(w) PROVE c[i] = w[i]
  <2>1. i \in 1..(1 + Len(t)) /\ i \in Nat /\ i >= 1
    BY <1>1
  <2>2. CASE i = 1
    BY <1>3, <1>4, <2>1, <2>2
  <2>3. CASE i # 1
    <3>1. ~(i <= 1) /\ i - 1 \in 1..Len(t) /\ (i - 1) + 1 = i
      BY <1>1, <2>1, <2>3
    <3>2. c[i] = t[i - 1]
      BY <1>3, <1>4, <2>1, <3>1
    <3> QED
      BY <1>2, <3>1, <3>2
  <2> QED
    BY <2>2, <2>3
<1>7. c = w
  BY <1>4, <1>5, <1>6, SeqEqual
<1>8. Plain(c) = Plain(h) \o Plain(t)
  BY <1>1, <1>3, PlainOfConcat DEF c
<1> QED
  BY <1>1, <1>7, <1>8, <1>10 DEF c, h, t

(* The bytes of a sysex: its start first, its EOX last, data between. *)
LEMMA FramedHas ==
  ASSUME NEW f \in Sysexes
  PROVE  /\ Framed(f) \in Seq(Bytes) /\ Len(Framed(f)) \in Nat /\ Framed(f)[1] = MIDI_SYSEX
         /\ 1 <= Len(Framed(f))
         /\ \A i \in 1..Len(Framed(f)) : /\ Framed(f)[i] \in 1..127 \cup {MIDI_SYSEX, MIDI_EOX}
                                         /\ Framed(f)[i] = MIDI_SYSEX => i = 1
<1> DEFINE a == <<MIDI_SYSEX>>
           z == <<MIDI_EOX>>
           as == a \o f
           F == as \o z
<1>1. /\ a \in Seq(Bytes) /\ Len(a) = 1 /\ a[1] = MIDI_SYSEX
      /\ z \in Seq(Bytes) /\ Len(z) = 1 /\ z[1] = MIDI_EOX
  BY DEF MIDI_SYSEX, MIDI_EOX, Bytes
<1>2. f \in Seq(Bytes) /\ Len(f) \in Nat /\ \A i \in 1..Len(f) : f[i] \in 1..127
  <2>1. f \in Seq(1..127)
    BY PmInputAssumption
  <2>2. Len(f) \in Nat /\ \A i \in 1..Len(f) : f[i] \in 1..127
    BY <2>1, LenProperties, ElementOfSeq
  <2>3. 1..127 \subseteq Bytes
    BY DEF Bytes
  <2> QED
    BY <2>1, <2>2, <2>3, SeqMonotonic
<1> HIDE DEF a, z
<1>3. /\ as \in Seq(Bytes) /\ Len(as) = 1 + Len(f)
      /\ \A i \in 1..(1 + Len(f)) : as[i] = IF i <= 1 THEN a[i] ELSE f[i - 1]
  <2>1. /\ as \in Seq(Bytes) /\ Len(as) = Len(a) + Len(f)
        /\ \A i \in 1..(Len(a) + Len(f)) : as[i] = IF i <= Len(a) THEN a[i] ELSE f[i - Len(a)]
    BY <1>1, <1>2, ConcatProperties
  <2> HIDE DEF as
  <2> QED
    BY <1>1, <2>1
<1> HIDE DEF as
<1>4. /\ F \in Seq(Bytes) /\ Len(F) = Len(as) + 1
      /\ \A i \in 1..(Len(as) + 1) : F[i] = IF i <= Len(as) THEN as[i] ELSE z[i - Len(as)]
  <2>1. /\ F \in Seq(Bytes) /\ Len(F) = Len(as) + Len(z)
        /\ \A i \in 1..(Len(as) + Len(z)) : F[i] = IF i <= Len(as) THEN as[i] ELSE z[i - Len(as)]
    BY <1>1, <1>3, ConcatProperties
  <2> HIDE DEF F
  <2> QED
    BY <1>1, <2>1
<1>5. Framed(f) = F
  BY DEF Framed, F, as, a, z
<1> DEFINE n == Len(f)
<1> HIDE DEF F
<1>6. Len(F) = n + 2 /\ n \in Nat /\ Len(as) = n + 1
  <2>1. n \in Nat /\ Len(as) = 1 + n
    BY <1>2, <1>3
  <2> HIDE DEF n
  <2> QED
    BY <1>4, <2>1
<1>7. ASSUME NEW i \in 1..(n + 2)
      PROVE  F[i] = IF i = 1 THEN MIDI_SYSEX ELSE IF i = n + 2 THEN MIDI_EOX ELSE f[i - 1]
  <2> HIDE DEF n
  <2>1. i \in Nat /\ i >= 1 /\ i <= n + 2
    BY <1>6
  <2> USE <2>1
  <2>2. CASE i = n + 2
    <3>1. i \in 1..(n + 1 + 1) /\ ~(i <= n + 1) /\ i - (n + 1) = 1 /\ i # 1
      BY <1>6, <2>1, <2>2
    <3> QED
      BY <1>1, <1>4, <1>6, <2>2, <3>1
  <2>3. CASE i # n + 2
    <3>1. i \in 1..(n + 1 + 1) /\ i <= n + 1 /\ i \in 1..(1 + n)
      BY <1>6, <2>1, <2>3
    <3>2. F[i] = as[i]
      BY <1>4, <1>6, <3>1
    <3>3. as[i] = IF i <= 1 THEN a[i] ELSE f[i - 1]
      BY <1>3, <3>1 DEF n
    <3>4. i <= 1 <=> i = 1
      BY <2>1
    <3> QED
      BY <1>1, <2>3, <3>2, <3>3, <3>4
  <2> QED
    BY <2>2, <2>3
<1>8. ASSUME NEW i \in 1..(n + 2)
      PROVE  F[i] \in 1..127 \cup {MIDI_SYSEX, MIDI_EOX} /\ (F[i] = MIDI_SYSEX => i = 1)
  <2>1. CASE i = 1 \/ i = n + 2
    BY <1>7, <2>1 DEF MIDI_SYSEX, MIDI_EOX
  <2>2. CASE i # 1 /\ i # n + 2
    <3>1. i - 1 \in 1..n
      <4> HIDE DEF n
      <4> QED
        BY <1>6, <2>2
    <3>2. f[i - 1] \in 1..127
      BY <1>2, <3>1
    <3>3. F[i] = f[i - 1]
      BY <1>7, <2>2
    <3>4. \A b \in 1..127 : b # MIDI_SYSEX
      BY DEF MIDI_SYSEX
    <3> QED
      BY <3>2, <3>3, <3>4
  <2> QED
    BY <2>1, <2>2
<1> HIDE DEF n
<1>9. 1 \in 1..(n + 2) /\ 1 <= Len(F) /\ Len(F) \in Nat
  BY <1>6
<1> QED
  BY <1>4, <1>5, <1>6, <1>7, <1>8, <1>9

(* A byte of a part of a sysex is one of its bytes. *)
LEMMA PartOf ==
  ASSUME NEW f \in Sysexes, NEW p \in Seq(Bytes), NEW x \in Seq(Bytes), p \o x = Framed(f),
         NEW i \in 1..Len(x)
  PROVE  /\ x[i] \in 1..127 \cup {MIDI_SYSEX, MIDI_EOX} /\ ~is_real_time(x[i])
         /\ x[i] = MIDI_SYSEX => p = <<>> /\ i = 1
<1> DEFINE F == Framed(f)
           k == Len(p) + i
<1>1. /\ Len(F) = Len(p) + Len(x) /\ Len(p) \in Nat /\ Len(x) \in Nat
      /\ \A j \in 1..(Len(p) + Len(x)) : F[j] = IF j <= Len(p) THEN p[j] ELSE x[j - Len(p)]
  BY ConcatProperties, LenProperties
<1>2. \A j \in 1..Len(F) : /\ F[j] \in 1..127 \cup {MIDI_SYSEX, MIDI_EOX}
                           /\ F[j] = MIDI_SYSEX => j = 1
  BY FramedHas
<1> HIDE DEF F
<1>3. k \in 1..Len(F) /\ ~(k <= Len(p)) /\ k - Len(p) = i /\ i \in Nat /\ i >= 1
  BY <1>1
<1>4. x[i] = F[k]
  BY <1>1, <1>3
<1>5. k = 1 => Len(p) = 0 /\ i = 1
  BY <1>1, <1>3
<1>6. Len(p) = 0 => p = <<>>
  BY EmptySeq
<1>7. x[i] \in 1..127 \cup {MIDI_SYSEX, MIDI_EOX} /\ (x[i] = MIDI_SYSEX => p = <<>> /\ i = 1)
  BY <1>2, <1>3, <1>4, <1>5, <1>6
<1>8. ~is_real_time(x[i])
  <2>1. \A b \in 1..127 \cup {MIDI_SYSEX, MIDI_EOX} : ~is_real_time(b)
    BY DEF is_real_time, MIDI_SYSEX, MIDI_EOX
  <2> QED
    BY <1>7, <2>1
<1> QED
  BY <1>7, <1>8

(* All of its bytes. *)
LEMMA PartHas ==
  ASSUME NEW f \in Sysexes, NEW p \in Seq(Bytes), NEW x \in Seq(Bytes), p \o x = Framed(f)
  PROVE  \A i \in 1..Len(x) : /\ x[i] \in 1..127 \cup {MIDI_SYSEX, MIDI_EOX}
                              /\ x[i] = MIDI_SYSEX => p = <<>>
<1> SUFFICES ASSUME NEW i \in 1..Len(x)
             PROVE  /\ x[i] \in 1..127 \cup {MIDI_SYSEX, MIDI_EOX}
                    /\ x[i] = MIDI_SYSEX => p = <<>>
  OBVIOUS
<1>1. x[i] \in 1..127 \cup {MIDI_SYSEX, MIDI_EOX}
  BY PartOf
<1>2. x[i] = MIDI_SYSEX => p = <<>>
  BY PartOf
<1> QED
  BY <1>1, <1>2

(* A word of a sysex goes on with what there is of it. *)
LEMMA AfterMore ==
  ASSUME NEW f \in Sysexes, NEW z \in Seq(Bytes), z # <<>>, NEW w \in Words,
         NEW y \in Seq(Bytes), z \o (Plain(w) \o y) = Framed(f)
  PROVE  After(z, w) = z \o Plain(w)
<1> DEFINE b == Head(w)
           r == Plain(Tail(w))
<1>1. w \in Seq(Bytes) /\ w # <<>> /\ w # Gap
  BY PmInputAssumption DEF Words, Word, Bytes
<1>2. Plain(w) \in Seq(Bytes)
  BY <1>1, PlainHas
<1>3. b \in Bytes /\ Tail(w) \in Seq(Bytes)
      /\ Plain(w) = (IF is_real_time(b) THEN <<>> ELSE <<b>>) \o r
  BY <1>1, FirstAndRest
<1>4. r \in Seq(Bytes)
  BY <1>3, PlainHas
<1> HIDE DEF b, r
<1>5. b # MIDI_SYSEX /\ ~(IsStatus(b) /\ b < MIDI_EOX)
  <2>1. CASE is_real_time(b)
    BY <1>3, <2>1 DEF is_real_time, MIDI_SYSEX, MIDI_EOX, Bytes
  <2>2. CASE ~is_real_time(b)
    <3> DEFINE x == <<b>> \o (r \o y)
    <3>1. <<b>> \in Seq(Bytes) /\ r \o y \in Seq(Bytes) /\ x \in Seq(Bytes)
      BY <1>3, <1>4, ConcatProperties
    <3>2. Plain(w) \o y = x
      BY <1>3, <1>4, <2>2, <3>1, ConcatAssociative
    <3>3. Len(x) = Len(<<b>>) + Len(r \o y) /\ Len(<<b>>) = 1 /\ Len(r \o y) \in Nat
      BY <3>1, ConcatProperties, LenProperties
    <3>4. \A i \in 1..(Len(<<b>>) + Len(r \o y)) :
            x[i] = IF i <= Len(<<b>>) THEN <<b>>[i] ELSE (r \o y)[i - Len(<<b>>)]
      BY <3>1, ConcatProperties
    <3> HIDE DEF x
    <3>5. 1 \in 1..Len(x) /\ x[1] = b
      BY <3>3, <3>4
    <3>8. z \o x = Framed(f)
      BY <3>2
    <3>9. x[1] \in 1..127 \cup {MIDI_SYSEX, MIDI_EOX} /\ (x[1] = MIDI_SYSEX => z = <<>>)
      <4>1. x \in Seq(Bytes)
        BY <3>1
      <4>2. \A i \in 1..Len(x) : /\ x[i] \in 1..127 \cup {MIDI_SYSEX, MIDI_EOX}
                                 /\ x[i] = MIDI_SYSEX => z = <<>>
        BY <3>8, <4>1, PartHas, Zenon
      <4> QED
        BY <3>5, <4>2, Zenon
    <3>6. b \in 1..127 \cup {MIDI_SYSEX, MIDI_EOX} /\ b # MIDI_SYSEX
      BY <3>5, <3>9
    <3>7. \A c \in 1..127 \cup {MIDI_EOX} : ~(IsStatus(c) /\ c < MIDI_EOX)
      BY DEF IsStatus, MIDI_EOX
    <3> QED
      BY <3>6, <3>7
  <2> QED
    BY <2>1, <2>2
<1>6. CASE Plain(w) = <<>>
  <2>1. After(z, w) = z
    BY <1>1, <1>6 DEF After, Assembled
  <2>2. z \o <<>> = z
    BY ConcatEmptySeq
  <2> QED
    BY <1>6, <2>1, <2>2
<1>7. CASE Plain(w) # <<>>
  <2>1. Head(w) # MIDI_SYSEX /\ ~(IsStatus(Head(w)) /\ Head(w) < MIDI_EOX)
    BY <1>5 DEF b
  <2> QED
    BY <1>1, <1>7, <2>1 DEF After, Assembled
<1> QED
  BY <1>6, <1>7

(* The first word of a sysex begins it. *)
LEMMA AfterStart ==
  ASSUME NEW z, NEW w \in Words, Head(w) = MIDI_SYSEX
  PROVE  After(z, w) = Plain(w) /\ Plain(w) # <<>>
<1>1. w \in Seq(Bytes) /\ w # <<>> /\ w # Gap
  BY PmInputAssumption DEF Words, Word, Bytes
<1>2. ~is_real_time(Head(w))
  BY DEF is_real_time, MIDI_SYSEX
<1>3. Tail(w) \in Seq(Bytes) /\ Plain(w) = <<Head(w)>> \o Plain(Tail(w)) /\ Head(w) \in Bytes
  BY <1>1, <1>2, FirstAndRest
<1>4. Plain(Tail(w)) \in Seq(Bytes) /\ <<Head(w)>> \in Seq(Bytes) /\ <<Head(w)>> # <<>>
  <2>1. Plain(Tail(w)) \in Seq(Bytes)
    BY <1>3, PlainHas
  <2>2. \A b \in Bytes : <<b>> \in Seq(Bytes) /\ <<b>> # <<>>
    OBVIOUS
  <2> QED
    BY <1>3, <2>1, <2>2
<1>5. Plain(w) # <<>>
  BY <1>3, <1>4, ConcatEqualIffEmpty
<1> QED
  BY <1>1, <1>5 DEF After, Assembled

(* A real-time message leaves it as it is. *)
LEMMA AfterRealtime ==
  ASSUME NEW z, NEW b \in Bytes, is_real_time(b)
  PROVE  After(z, <<b>>) = z
<1>1. <<b>> # Gap
  <2>1. <<b>> \in Seq(0..255)
    BY DEF Bytes
  <2> QED
    BY <2>1, PmInputAssumption
<1>2. Plain(<<b>>) = <<>>
  BY PlainOfByte
<1> QED
  BY <1>1, <1>2 DEF After, Assembled

(* Any other message ends it. *)
LEMMA AfterOther ==
  ASSUME NEW z, NEW w \in Words, IsStatus(w[1]), w[1] < MIDI_EOX, w[1] # MIDI_SYSEX
  PROVE  After(z, w) = <<>>
<1>1. w \in Seq(Bytes) /\ w # <<>> /\ w # Gap
  BY PmInputAssumption DEF Words, Word, Bytes
<1>2. Head(w) = w[1] /\ Head(w) \in Bytes
  BY <1>1, FirstAndRest
<1>3. ~is_real_time(Head(w))
  BY <1>2 DEF is_real_time, MIDI_EOX, Bytes
<1>4. Tail(w) \in Seq(Bytes) /\ Plain(w) = <<Head(w)>> \o Plain(Tail(w))
  BY <1>1, <1>3, FirstAndRest
<1>5. Plain(Tail(w)) \in Seq(Bytes) /\ <<Head(w)>> \in Seq(Bytes) /\ <<Head(w)>> # <<>>
  <2>1. Plain(Tail(w)) \in Seq(Bytes)
    BY <1>4, PlainHas
  <2>2. \A b \in Bytes : <<b>> \in Seq(Bytes) /\ <<b>> # <<>>
    OBVIOUS
  <2> QED
    BY <1>2, <2>1, <2>2
<1>6. Plain(w) # <<>>
  BY <1>4, <1>5, ConcatEqualIffEmpty
<1> QED
  BY <1>1, <1>2, <1>6 DEF After, Assembled

-----------------------------------------------------------------------------
(* What the client has of a sysex before each message in the queue. *)
Reads(a, x, st) ==
  /\ a \in Seq(Seq(Bytes)) /\ Len(a) = Len(st) + 1 /\ a[1] = x
  /\ \A i \in 1..Len(st) : a[i + 1] = After(a[i], st[i])
  /\ \A i \in 1..Len(st) :
       Broken(a[i]) => st[i] = Gap \/ \E q \in Seq(Bytes) : a[i + 1] = a[i] \o q
  /\ \A i \in 1..Len(a) : Begun(a[i])

(* What the driver has still to pass on, and how the client will go on     *)
(* with it when it has s: with the rest of the same sysex, or from the     *)
(* start of one; with nothing of a sysex that is not in progress.          *)
Packing == sysex_message \o data
Coming  == Plain(Packing) \o wire

Sending(s, going, packing, coming) ==
  /\ going => \E f \in Sysexes, p \in Seq(Bytes) :
                /\ p \o coming = Framed(f)
                /\ \/ p = s /\ p # <<>>
                   \/ /\ p = <<>> /\ ~Broken(s)
                      /\ packing # <<>> /\ Head(packing) = MIDI_SYSEX
  /\ ~going => /\ ~Broken(s)
               /\ coming = <<>> \/ \E f \in Sysexes, p \in Seq(Bytes) : p \o coming = Framed(f)

Line ==
  \E a : /\ Reads(a, sysex, stream)
         /\ Sending(a[Len(stream) + 1], sysex_in_progress, Packing, Coming)

ClosedGap == closed => stream # <<>> /\ Last(stream) = Gap

SysexInv ==
  /\ ClosedGap
  /\ filters \subseteq 128..255 /\ sysex \in Seq(Bytes)
  /\ cuts = 0 => Line

(* A message is added at the end of the queue. *)
LEMMA ReadsMore ==
  ASSUME NEW S, NEW st \in Seq(S), NEW m \in S, NEW a, NEW x, Reads(a, x, st),
         After(a[Len(st) + 1], m) \in Seq(Bytes), Begun(After(a[Len(st) + 1], m)),
         Broken(a[Len(st) + 1]) =>
           m = Gap \/ \E q \in Seq(Bytes) : After(a[Len(st) + 1], m) = a[Len(st) + 1] \o q
  PROVE  LET t == Append(st, m)
         IN  \E c : Reads(c, x, t) /\ c[Len(t) + 1] = After(a[Len(st) + 1], m)
<1> DEFINE t == Append(st, m)
           n == Len(st)
           e == After(a[n + 1], m)
           c == Append(a, e)
<1>1. n \in Nat /\ t \in Seq(S) /\ Len(t) = n + 1
      /\ (\A i \in 1..n : t[i] = st[i]) /\ t[n + 1] = m
  BY AppendProperties, LenProperties
<1>2. a \in Seq(Seq(Bytes)) /\ Len(a) = n + 1 /\ e \in Seq(Bytes)
  BY DEF Reads
<1>3. /\ c \in Seq(Seq(Bytes)) /\ Len(c) = Len(a) + 1
      /\ \A i \in 1..Len(a) : c[i] = a[i]
      /\ c[Len(a) + 1] = e
  BY <1>2, AppendProperties
<1> HIDE DEF t, n, c, e
<1>4. Len(c) = Len(t) + 1 /\ (\A i \in 1..(n + 1) : c[i] = a[i]) /\ c[n + 2] = e
  BY <1>1, <1>2, <1>3
<1>5. c[1] = x
  <2>1. 1 \in 1..(n + 1)
    BY <1>1
  <2> QED
    BY <1>4, <2>1 DEF Reads
<1>6. e = After(c[n + 1], m) /\ c[n + 1] = a[n + 1]
  <2>1. n + 1 \in 1..(n + 1)
    BY <1>1
  <2> QED
    BY <1>4, <2>1 DEF e
<1>7. ASSUME NEW i \in 1..Len(t)
      PROVE  /\ c[i + 1] = After(c[i], t[i])
             /\ Broken(c[i]) => t[i] = Gap \/ \E q \in Seq(Bytes) : c[i + 1] = c[i] \o q
  <2>1. CASE i = n + 1
    <3>1. i + 1 = n + 2
      BY <1>1, <2>1
    <3>2. t[i] = m /\ c[i] = a[n + 1] /\ c[i + 1] = e
      BY <1>1, <1>4, <1>6, <2>1, <3>1
    <3>3. c[i + 1] = After(c[i], t[i])
      BY <1>6, <2>1, <3>2
    <3>4. Broken(c[i]) => t[i] = Gap \/ \E q \in Seq(Bytes) : c[i + 1] = c[i] \o q
      BY <3>2 DEF n, e
    <3> QED
      BY <3>3, <3>4
  <2>2. CASE i # n + 1
    <3>1. i \in 1..n /\ i \in 1..(n + 1) /\ i + 1 \in 1..(n + 1)
      BY <1>1, <2>2
    <3>2. t[i] = st[i] /\ c[i] = a[i] /\ c[i + 1] = a[i + 1]
      BY <1>1, <1>4, <3>1
    <3> QED
      BY <3>1, <3>2 DEF Reads, n
  <2> QED
    BY <2>1, <2>2
<1>8. ASSUME NEW i \in 1..Len(c) PROVE Begun(c[i])
  <2>1. i \in 1..(n + 2)
    BY <1>1, <1>4
  <2>2. CASE i = n + 2
    BY <1>4, <2>2 DEF e, n
  <2>3. CASE i # n + 2
    <3>1. i \in 1..(n + 1)
      BY <1>1, <2>1, <2>3
    <3> QED
      BY <1>2, <1>4, <3>1 DEF Reads
  <2> QED
    BY <2>2, <2>3
<1>9. Reads(c, x, t)
  BY <1>3, <1>4, <1>5, <1>7, <1>8 DEF Reads
<1>10. Len(t) + 1 = n + 2
  BY <1>1
<1>11. c[Len(t) + 1] = After(a[Len(st) + 1], m)
  BY <1>4, <1>10 DEF e, n
<1> QED
  BY <1>9, <1>11 DEF t

(* The first message is read. *)
LEMMA ReadsOn ==
  ASSUME NEW S, NEW st \in Seq(S), st # <<>>, NEW a, NEW x, Reads(a, x, st)
  PROVE  LET c == Tail(a)
         IN  /\ Reads(c, After(x, Head(st)), Tail(st))
             /\ c[Len(Tail(st)) + 1] = a[Len(st) + 1]
<1> DEFINE c == Tail(a)
           t == Tail(st)
           n == Len(t)
<1>1. /\ Len(st) \in Nat \ {0} /\ Head(st) = st[1] /\ t \in Seq(S) /\ Len(t) = Len(st) - 1
      /\ \A i \in 1..Len(t) : t[i] = st[i + 1]
  BY TailIs, HeadTailProperties
<1>2. a \in Seq(Seq(Bytes)) /\ Len(a) = Len(st) + 1 /\ a[1] = x
  BY DEF Reads
<1>3. a # <<>>
  <2>1. Len(a) # 0
    BY <1>1, <1>2
  <2> QED
    BY <2>1
<1>4. /\ c \in Seq(Seq(Bytes)) /\ Len(c) = Len(a) - 1
      /\ \A i \in 1..Len(c) : c[i] = a[i + 1]
  BY <1>2, <1>3, HeadTailProperties
<1> HIDE DEF c, t
<1>5. n \in Nat /\ Len(st) = n + 1 /\ Len(c) = n + 1 /\ Len(a) = n + 2
  BY <1>1, <1>2, <1>4
<1> HIDE DEF n
<1>6. c[1] = After(x, Head(st))
  <2>1. 1 \in 1..Len(c) /\ 1 \in 1..Len(st) /\ 1 + 1 = 2
    BY <1>5
  <2>2. a[1 + 1] = After(a[1], st[1])
    BY <2>1 DEF Reads
  <2> QED
    BY <1>1, <1>2, <1>4, <2>1, <2>2
<1>7. ASSUME NEW i \in 1..n
      PROVE  /\ c[i + 1] = After(c[i], t[i])
             /\ Broken(c[i]) => t[i] = Gap \/ \E q \in Seq(Bytes) : c[i + 1] = c[i] \o q
  <2>1. i \in 1..Len(t) /\ i \in 1..Len(c) /\ i + 1 \in 1..Len(c) /\ i + 1 \in 1..Len(st)
    BY <1>5 DEF n
  <2>2. t[i] = st[i + 1] /\ c[i] = a[i + 1] /\ c[i + 1] = a[i + 1 + 1]
    BY <1>1, <1>4, <2>1
  <2>3. /\ a[i + 1 + 1] = After(a[i + 1], st[i + 1])
        /\ Broken(a[i + 1]) => st[i + 1] = Gap \/ \E q \in Seq(Bytes) : a[i + 1 + 1] = a[i + 1] \o q
    BY <2>1 DEF Reads
  <2> QED
    BY <2>2, <2>3
<1>8. ASSUME NEW i \in 1..Len(c) PROVE Begun(c[i])
  <2>1. i + 1 \in 1..Len(a)
    BY <1>5
  <2> QED
    BY <1>4, <2>1 DEF Reads
<1>9. Reads(c, After(x, Head(st)), t)
  BY <1>4, <1>5, <1>6, <1>7, <1>8 DEF Reads, n
<1>10. c[Len(t) + 1] = a[Len(st) + 1]
  <2>1. n + 1 \in 1..Len(c) /\ n + 1 + 1 = n + 2
    BY <1>5
  <2>2. c[n + 1] = a[n + 1 + 1]
    BY <1>4, <2>1
  <2> QED
    BY <1>5, <2>2 DEF n
<1> QED
  BY <1>9, <1>10 DEF c, t

(* Two sequences, one after the other. *)
LEMMA HeadOfConcat ==
  ASSUME NEW s \in Seq(Bytes), NEW t \in Seq(Bytes)
  PROVE  /\ s # <<>> => s \o t # <<>> /\ Head(s \o t) = Head(s)
         /\ s = <<>> => s \o t = t
<1>1. s = <<>> => s \o t = t
  BY ConcatEmptySeq
<1>2. ASSUME s # <<>> PROVE s \o t # <<>> /\ Head(s \o t) = Head(s)
  <2> DEFINE c == s \o t
  <2>1. /\ Len(s) \in Nat \ {0} /\ Len(t) \in Nat /\ c \in Seq(Bytes) /\ Len(c) = Len(s) + Len(t)
        /\ \A i \in 1..(Len(s) + Len(t)) : c[i] = IF i <= Len(s) THEN s[i] ELSE t[i - Len(s)]
        /\ Head(s) = s[1]
    BY <1>2, TailIs, ConcatProperties, LenProperties
  <2> HIDE DEF c
  <2>2. Len(c) # 0 /\ 1 \in 1..(Len(s) + Len(t)) /\ 1 <= Len(s)
    BY <2>1
  <2>3. c # <<>> /\ c[1] = s[1]
    BY <2>1, <2>2
  <2>4. Head(c) = c[1]
    BY <2>1, <2>3, TailIs
  <2> QED
    BY <2>1, <2>3, <2>4 DEF c
<1> QED
  BY <1>1, <1>2

(* The bytes to come, without the real-time bytes among them, part by part. *)
LEMMA ComingIs ==
  ASSUME NEW s \in Seq(Bytes), NEW d \in Seq(Bytes), NEW r \in Seq(Bytes)
  PROVE  Plain(s \o d) \o r = Plain(s) \o (Plain(d) \o r)
<1>1. s \o d \in Seq(Bytes) /\ Plain(s \o d) = Plain(s) \o Plain(d)
  BY PlainOfConcat
<1>2. Plain(s) \in Seq(Bytes) /\ Plain(d) \in Seq(Bytes)
  BY PlainHas
<1>4. (Plain(s) \o Plain(d)) \o r = Plain(s) \o (Plain(d) \o r)
  <2> DEFINE v == Plain(s)
             w == Plain(d)
  <2>1. v \in Seq(Bytes) /\ w \in Seq(Bytes)
    BY <1>2
  <2> HIDE DEF v, w
  <2>2. (v \o w) \o r = v \o (w \o r)
    BY <2>1, JoinedBytes, Zenon
  <2> QED
    BY <2>2 DEF v, w
<1> QED
  BY <1>1, <1>4

(* A byte is added to a word: it stays unless it is a real-time byte. *)
LEMMA PlainOfAppend ==
  ASSUME NEW s \in Seq(Bytes), NEW b \in Bytes
  PROVE  /\ Append(s, b) = s \o <<b>> /\ Append(s, b) \in Seq(Bytes) /\ <<b>> \in Seq(Bytes)
         /\ Plain(Append(s, b)) = Plain(s) \o (IF is_real_time(b) THEN <<>> ELSE <<b>>)
<1>1. Append(s, b) = s \o <<b>> /\ <<b>> \in Seq(Bytes)
  BY AppendIsConcat
<1>2. s \o <<b>> \in Seq(Bytes) /\ Plain(s \o <<b>>) = Plain(s) \o Plain(<<b>>)
  BY <1>1, PlainOfConcat
<1> QED
  BY <1>1, <1>2, PlainOfByte

-----------------------------------------------------------------------------
(* A word is put into the queue, or dropped. *)
LEMMA EnqueueLine ==
  ASSUME Types, ClosedGap, NEW w \in Words, Enqueue(w),
         NEW a, Reads(a, sysex, stream), NEW z, z = a[Len(stream) + 1],
         After(z, w) \in Seq(Bytes), Begun(After(z, w)),
         Broken(z) => \E q \in Seq(Bytes) : After(z, w) = z \o q
  PROVE  \E c : /\ Reads(c, sysex, stream')
                /\ c[Len(stream') + 1] = IF Overflows THEN <<>> ELSE After(z, w)
<1>1. stream \in Seq(Items) /\ w \in Items /\ Gap \in Items
  BY DEF Types, Items
<1>2. CASE closed
  <2>1. stream' = stream
    BY <1>2 DEF Enqueue, fifoVars
  <2>2. stream # <<>> /\ Last(stream) = Gap /\ Len(stream) \in Nat \ {0}
    BY <1>1, <1>2, TailIs DEF ClosedGap
  <2>3. stream[Len(stream)] = Gap /\ Len(stream) \in 1..Len(stream)
    BY <2>2 DEF Last
  <2>4. a[Len(stream) + 1] = After(a[Len(stream)], stream[Len(stream)])
    BY <2>3 DEF Reads
  <2>5. a[Len(stream) + 1] = <<>>
    BY <2>3, <2>4 DEF After
  <2> QED
    BY <1>2, <2>1, <2>5 DEF Overflows
<1>3. CASE ~closed /\ Full
  <2>1. stream' = Append(stream, Gap)
    BY <1>3 DEF Enqueue, Drop
  <2>2. After(z, Gap) = <<>> /\ <<>> \in Seq(Bytes) /\ Begun(<<>>)
    BY EmptySeq DEF After, Begun
  <2>3. After(a[Len(stream) + 1], Gap) \in Seq(Bytes) /\ Begun(After(a[Len(stream) + 1], Gap))
    BY <2>2
  <2>4. LET t == Append(stream, Gap)
        IN  \E c : Reads(c, sysex, t) /\ c[Len(t) + 1] = After(a[Len(stream) + 1], Gap)
    BY <1>1, <2>3, ReadsMore
  <2>5. \E c : Reads(c, sysex, stream') /\ c[Len(stream') + 1] = <<>>
    BY <2>1, <2>2, <2>4
  <2> QED
    BY <1>3, <2>5 DEF Overflows
<1>4. CASE ~closed /\ ~Full
  <2>1. stream' = Append(stream, w)
    BY <1>4 DEF Enqueue, Put
  <2>2. LET t == Append(stream, w)
        IN  \E c : Reads(c, sysex, t) /\ c[Len(t) + 1] = After(a[Len(stream) + 1], w)
    BY <1>1, ReadsMore
  <2>3. \E c : Reads(c, sysex, stream') /\ c[Len(stream') + 1] = After(z, w)
    BY <2>1, <2>2
  <2> QED
    BY <1>4, <2>3 DEF Overflows
<1> QED
  BY <1>2, <1>3, <1>4

(* A word of the sysex in progress goes into the queue: what there is of   *)
(* the sysex in the queue goes on, or it is over.                          *)
LEMMA MoveLine ==
  ASSUME Types, ClosedGap, Line, sysex_in_progress, NEW w \in Words, NEW d \in Seq(Bytes),
         Enqueue(w), sysex' = sysex, wire' = wire, sysex_message' = <<>>, data' = d,
         Coming = Plain(w) \o (Plain(d) \o wire),
         Packing # <<>> /\ Head(Packing) = MIDI_SYSEX => Head(w) = MIDI_SYSEX,
         \/ sysex_in_progress' = (~Overflows)
         \/ /\ sysex_in_progress' = FALSE
            /\ \E v \in Seq(Bytes) : Plain(w) = Append(v, MIDI_EOX)
  PROVE  Line'
<1> DEFINE y == Plain(d) \o wire
           n == Len(stream)
<1>1. w \in Seq(Bytes) /\ wire \in Seq(Bytes) /\ d \in Seq(Bytes)
  BY DEF Types, Words
<1>2. Plain(w) \in Seq(Bytes) /\ y \in Seq(Bytes)
  BY <1>1, PlainHas, ConcatProperties
<1>3. Packing' = d /\ Coming' = y
  <2>1. <<>> \o d = d
    BY ConcatEmptySeq
  <2> QED
    BY <2>1 DEF Packing, Coming
<1> HIDE DEF y
<1>4. PICK a : Reads(a, sysex, stream) /\ Sending(a[n + 1], sysex_in_progress, Packing, Coming)
  BY DEF Line
<1> DEFINE z == a[n + 1]
<1>5. PICK f \in Sysexes, p \in Seq(Bytes) :
        /\ p \o Coming = Framed(f)
        /\ \/ p = z /\ p # <<>>
           \/ p = <<>> /\ ~Broken(z) /\ Packing # <<>> /\ Head(Packing) = MIDI_SYSEX
  BY <1>4 DEF Sending
<1> DEFINE e == p \o Plain(w)
<1>6. e \in Seq(Bytes) /\ e \o y = Framed(f)
  <2>0. e \in Seq(Bytes)
    BY <1>2, ConcatProperties
  <2>1. e \o y = p \o (Plain(w) \o y)
    <3> DEFINE v == Plain(w)
    <3>1. v \in Seq(Bytes) /\ y \in Seq(Bytes)
      BY <1>2
    <3> HIDE DEF v
    <3>2. (p \o v) \o y = p \o (v \o y)
      BY <3>1, JoinedBytes, Zenon
    <3> QED
      BY <3>2 DEF v
  <2>2. Plain(w) \o y = Coming
    BY DEF y
  <2> QED
    BY <1>5, <2>0, <2>1, <2>2
<1>7. After(z, w) = e /\ e # <<>> /\ (Broken(z) => \E q \in Seq(Bytes) : e = z \o q)
  <2>1. CASE p = z /\ p # <<>>
    <3>1. z \o (Plain(w) \o y) = Framed(f)
      BY <1>5, <2>1 DEF y
    <3>2. After(z, w) = z \o Plain(w)
      BY <1>2, <2>1, <3>1, AfterMore
    <3>3. p \o Plain(w) # <<>>
      BY <1>2, <2>1, ConcatEqualIffEmpty
    <3> QED
      BY <1>2, <2>1, <3>2, <3>3
  <2>2. CASE p = <<>> /\ ~Broken(z) /\ Packing # <<>> /\ Head(Packing) = MIDI_SYSEX
    <3>1. After(z, w) = Plain(w) /\ Plain(w) # <<>>
      BY <2>2, AfterStart
    <3>2. p \o Plain(w) = Plain(w)
      BY <1>2, <2>2, ConcatEmptySeq
    <3> QED
      BY <2>2, <3>1, <3>2
  <2> QED
    BY <1>5, <2>1, <2>2
<1>8. Begun(e)
  BY <1>2, <1>6 DEF Begun
<1> HIDE DEF e
<1>9. PICK c : Reads(c, sysex, stream') /\ c[Len(stream') + 1] = IF Overflows THEN <<>> ELSE e
  <2>1. Reads(a, sysex, stream) /\ z = a[Len(stream) + 1] /\ After(z, w) \in Seq(Bytes)
        /\ Begun(After(z, w)) /\ (Broken(z) => \E q \in Seq(Bytes) : After(z, w) = z \o q)
    BY <1>4, <1>6, <1>7, <1>8
  <2> QED
    BY <1>7, <2>1, EnqueueLine
<1> DEFINE l == c[Len(stream') + 1]
<1>10. Sending(l, sysex_in_progress', d, y)
  <2>1. ASSUME sysex_in_progress' PROVE l = e /\ e # <<>>
    BY <1>7, <1>9, <2>1
  <2>2. ASSUME ~sysex_in_progress' PROVE ~Broken(l)
    <3>1. ~Broken(<<>>)
      BY DEF Broken
    <3>2. CASE Overflows
      BY <1>9, <3>1, <3>2
    <3>3. CASE ~Overflows
      <4>1. PICK v \in Seq(Bytes) : Plain(w) = Append(v, MIDI_EOX)
        BY <2>2, <3>3
      <4>2. MIDI_EOX \in Bytes
        BY DEF MIDI_EOX, Bytes
      <4> DEFINE x == <<MIDI_EOX>>
      <4>3. Plain(w) = v \o x /\ x \in Seq(Bytes) /\ p \o v \in Seq(Bytes)
        BY <4>1, <4>2, AppendIsConcat, ConcatProperties
      <4>4. e = (p \o v) \o x
        BY <4>3, ConcatAssociative DEF e
      <4>5. e = Append(p \o v, MIDI_EOX)
        BY <4>2, <4>3, <4>4, AppendIsConcat
      <4>6. Last(e) = MIDI_EOX
        <5>1. Len(e) = Len(p \o v) + 1 /\ e[Len(p \o v) + 1] = MIDI_EOX
          BY <4>2, <4>3, <4>5, AppendProperties
        <5> QED
          BY <5>1 DEF Last
      <4> QED
        BY <1>9, <3>3, <4>6 DEF Broken
    <3> QED
      BY <3>2, <3>3
  <2> QED
    BY <1>6, <2>1, <2>2 DEF Sending
<1> QED
  BY <1>3, <1>9, <1>10 DEF Line

(* Nothing goes into the queue, and nothing less is to come. *)
LEMMA KeepLine ==
  ASSUME Line, UNCHANGED <<stream, sysex, sysex_in_progress>>, Coming' = Coming,
         sysex_in_progress /\ Packing # <<>> /\ Head(Packing) = MIDI_SYSEX =>
           Packing' # <<>> /\ Head(Packing') = MIDI_SYSEX
  PROVE  Line'
<1>1. PICK a : /\ Reads(a, sysex, stream)
               /\ Sending(a[Len(stream) + 1], sysex_in_progress, Packing, Coming)
  BY DEF Line
<1>2. Reads(a, sysex', stream')
  BY <1>1
<1>3. Sending(a[Len(stream) + 1], sysex_in_progress', Packing', Coming')
  BY <1>1 DEF Sending
<1> QED
  BY <1>2, <1>3 DEF Line

(* A message goes into the queue while no sysex is in progress. *)
LEMMA OtherLine ==
  ASSUME Types, ClosedGap, Line, ~sysex_in_progress, NEW w \in Words, Enqueue(w),
         sysex' = sysex, sysex_in_progress' = FALSE,
         \A z \in Seq(Bytes) : After(z, w) = z \/ After(z, w) = <<>> \/
              (After(z, w) = <<MIDI_SYSEX>> /\ Begun(<<MIDI_SYSEX>>)),
         Coming' = <<>> \/ \E f \in Sysexes, p \in Seq(Bytes) : p \o Coming' = Framed(f)
  PROVE  Line'
<1> DEFINE n == Len(stream)
<1>1. PICK a : Reads(a, sysex, stream) /\ Sending(a[n + 1], sysex_in_progress, Packing, Coming)
  BY DEF Line
<1> DEFINE z == a[n + 1]
<1>2. ~Broken(z)
  BY <1>1 DEF Sending
<1>3. z \in Seq(Bytes) /\ Begun(z)
  <2>1. n \in Nat /\ a \in Seq(Seq(Bytes)) /\ Len(a) = n + 1
    BY <1>1, LenProperties DEF Reads, Types
  <2>2. n + 1 \in 1..Len(a)
    BY <2>1
  <2> QED
    BY <1>1, <2>1, <2>2, ElementOfSeq DEF Reads
<1>4. /\ After(z, w) \in Seq(Bytes) /\ Begun(After(z, w)) /\ ~Broken(After(z, w))
  <2>1. <<>> \in Seq(Bytes) /\ Begun(<<>>) /\ ~Broken(<<>>)
    BY EmptySeq DEF Begun, Broken
  <2>2. <<MIDI_SYSEX>> \in Seq(Bytes) /\ ~Broken(<<MIDI_SYSEX>>)
    BY DEF Broken, MIDI_SYSEX, Bytes
  <2>3. After(z, w) = z \/ After(z, w) = <<>> \/
          (After(z, w) = <<MIDI_SYSEX>> /\ Begun(<<MIDI_SYSEX>>))
    BY <1>3
  <2> HIDE DEF z
  <2> QED
    BY <1>2, <1>3, <2>1, <2>2, <2>3
<1>5. PICK c : /\ Reads(c, sysex, stream')
               /\ c[Len(stream') + 1] = IF Overflows THEN <<>> ELSE After(z, w)
  BY <1>1, <1>2, <1>4, EnqueueLine
<1>6. ~Broken(c[Len(stream') + 1])
  BY <1>4, <1>5 DEF Broken
<1>7. Sending(c[Len(stream') + 1], sysex_in_progress', Packing', Coming')
  BY <1>6 DEF Sending
<1> QED
  BY <1>5, <1>7 DEF Line

(* A byte of the sysex in progress is packed. *)
LEMMA PackLine ==
  ASSUME Types, ClosedGap, Line, sysex_in_progress, NEW b \in Bytes, Pack(b),
         NEW d \in Seq(Bytes), data' = d, wire' = wire, sysex' = sysex,
         Coming = Plain(Append(sysex_message, b)) \o (Plain(d) \o wire),
         Packing # <<>> /\ Head(Packing) = MIDI_SYSEX =>
           Head(Append(sysex_message, b)) = MIDI_SYSEX
  PROVE  Line'
<1> DEFINE w == Append(sysex_message, b)
<1>1. w \in Words /\ w \in Seq(Bytes) /\ w # <<>>
  BY WordIs, AppendProperties DEF Types
<1>2. IF Len(w) = 4 THEN Flush(w)
      ELSE sysex_message' = w /\ UNCHANGED <<fifoVars, sysex_in_progress>>
  BY DEF Pack
<1> HIDE DEF w
<1>3. CASE Len(w) = 4
  <2>1. Enqueue(w) /\ sysex_message' = <<>>
        /\ sysex_in_progress' = (sysex_in_progress /\ ~Overflows)
    BY <1>2, <1>3 DEF Flush
  <2>2. sysex_in_progress' = (~Overflows)
    BY <2>1
  <2> QED
    BY <1>1, <2>1, <2>2, MoveLine DEF w
<1>4. CASE Len(w) # 4
  <2>1. sysex_message' = w /\ UNCHANGED <<stream, closed, sysex_in_progress>>
    BY <1>2, <1>4 DEF fifoVars
  <2>2. Packing' = w \o d /\ Coming' = Plain(w \o d) \o wire
    BY <2>1 DEF Packing, Coming
  <2>3. Coming' = Coming
    <3>1. wire \in Seq(Bytes)
      BY DEF Types
    <3>2. Plain(w \o d) \o wire = Plain(w) \o (Plain(d) \o wire)
      BY <1>1, <3>1, ComingIs, Zenon
    <3>3. Coming = Plain(w) \o (Plain(d) \o wire)
      BY DEF w
    <3> QED
      BY <2>2, <3>2, <3>3, Zenon
  <2>4. Packing' # <<>> /\ Head(Packing') = Head(w)
    BY <1>1, <2>2, HeadOfConcat
  <2> QED
    BY <2>1, <2>3, <2>4, KeepLine DEF w
<1> QED
  BY <1>3, <1>4

(* The next byte of data. *)
LEMMA NextByte ==
  ASSUME Types, data # <<>>
  PROVE  LET b == Head(data)
             t == Tail(data)
         IN  /\ b \in Bytes /\ t \in Seq(Bytes)
             /\ Append(sysex_message, b) \o t = Packing
             /\ Coming = Plain(Append(sysex_message, b)) \o (Plain(t) \o wire)
             /\ Coming = Plain(sysex_message) \o ((IF is_real_time(b) THEN <<>> ELSE <<b>>) \o (Plain(t) \o wire))
<1> DEFINE b == Head(data)
           t == Tail(data)
           m == sysex_message
           x == IF is_real_time(b) THEN <<>> ELSE <<b>>
<1>1. m \in Seq(Bytes) /\ data \in Seq(Bytes) /\ wire \in Seq(Bytes)
  BY DEF Types
<1>2. b \in Bytes /\ t \in Seq(Bytes) /\ data = <<b>> \o t
  BY <1>1, FirstAndRest
<1>3. /\ Append(m, b) = m \o <<b>> /\ Append(m, b) \in Seq(Bytes) /\ <<b>> \in Seq(Bytes)
      /\ Plain(Append(m, b)) = Plain(m) \o x
  BY <1>1, <1>2, PlainOfAppend
<1>4. x \in Seq(Bytes)
  BY <1>3, EmptySeq
<1> HIDE DEF b, t, m, x
<1>5. Append(m, b) \o t = m \o data
  BY <1>1, <1>2, <1>3, ConcatAssociative
<1>6. /\ Plain(Append(m, b) \o t) \o wire = Plain(Append(m, b)) \o (Plain(t) \o wire)
      /\ Plain(t) \o wire \in Seq(Bytes)
  <2>1. Plain(Append(m, b) \o t) \o wire = Plain(Append(m, b)) \o (Plain(t) \o wire)
    <3> DEFINE w == Append(m, b)
    <3>1. w \in Seq(Bytes)
      BY <1>3
    <3> HIDE DEF w
    <3>2. Plain(w \o t) \o wire = Plain(w) \o (Plain(t) \o wire)
      BY <1>1, <1>2, <3>1, ComingIs
    <3> QED
      BY <3>2 DEF w
  <2>2. Plain(t) \in Seq(Bytes)
    BY <1>2, PlainHas
  <2>3. Plain(t) \o wire \in Seq(Bytes)
    BY <1>1, <2>2, ConcatProperties
  <2> QED
    BY <2>1, <2>3
<1>7. (Plain(m) \o x) \o (Plain(t) \o wire) = Plain(m) \o (x \o (Plain(t) \o wire))
  <2>1. Plain(m) \in Seq(Bytes)
    BY <1>1, PlainHas
  <2> QED
    <3> DEFINE y == Plain(t) \o wire
               n == Plain(m)
    <3>1. y \in Seq(Bytes) /\ n \in Seq(Bytes)
      BY <1>6, <2>1
    <3> HIDE DEF y, n
    <3>2. (n \o x) \o y = n \o (x \o y)
      BY <1>4, <3>1, JoinedBytes, Zenon
    <3> QED
      BY <3>2 DEF y, n
<1>8. Coming = Plain(m \o data) \o wire /\ Packing = m \o data
  BY DEF Coming, Packing, m
<1>9. /\ b \in Bytes /\ t \in Seq(Bytes)
      /\ Append(m, b) \o t = Packing
      /\ Coming = Plain(Append(m, b)) \o (Plain(t) \o wire)
      /\ Coming = Plain(m) \o (x \o (Plain(t) \o wire))
  BY <1>2, <1>3, <1>5, <1>6, <1>7, <1>8
<1> QED
  BY <1>9 DEF b, t, m, x

(* What is still to come is a part of one sysex. *)
LEMMA ComingOf ==
  ASSUME Line, Coming # <<>>
  PROVE  \E f \in Sysexes, p \in Seq(Bytes) : p \o Coming = Framed(f)
BY DEF Line, Sending

-----------------------------------------------------------------------------
(* The steps keep Line, as long as no sysex is cut off. *)

(* A sysex begins: nothing of another is to come. *)
LEMMA StartSysexLine ==
  ASSUME IInv, Line, cuts = 0, NEW s \in Sysexes, StartSysex(s)
  PROVE  Line'
<1>1. wire = <<>> /\ data = <<>> /\ wire' = Framed(s)
      /\ UNCHANGED <<stream, closed, data, sysex_in_progress, sysex_message, sysex>>
  BY DEF StartSysex, fifoVars, client
<1>2. ~sysex_in_progress /\ sysex_message = <<>>
  BY <1>1 DEF IInv, Framing
<1>3. PICK a : /\ Reads(a, sysex, stream)
               /\ Sending(a[Len(stream) + 1], sysex_in_progress, Packing, Coming)
  BY DEF Line
<1>4. Coming' = Framed(s) /\ <<>> \o Coming' = Framed(s) /\ <<>> \in Seq(Bytes)
  <2>1. <<>> \o <<>> = <<>> /\ <<>> \in Seq(Bytes)
    BY ConcatEmptySeq, EmptySeq
  <2>2. Packing' = <<>>
    BY <1>1, <1>2, <2>1 DEF Packing
  <2>3. Coming' = <<>> \o Framed(s)
    BY <1>1, <2>2, PlainOfEmpty DEF Coming
  <2>4. Framed(s) \in Seq(Bytes)
    BY FramedHas
  <2> QED
    BY <2>1, <2>3, <2>4, ConcatEmptySeq
<1>5. Reads(a, sysex', stream')
  BY <1>1, <1>3
<1>6. Sending(a[Len(stream) + 1], sysex_in_progress', Packing', Coming')
  BY <1>1, <1>2, <1>3, <1>4 DEF Sending
<1> QED
  BY <1>1, <1>5, <1>6 DEF Line

(* A short message: real-time if a sysex is on its way. *)
LEMMA ShortLine ==
  ASSUME IInv, ClosedGap, Line, cuts = 0, NEW m \in Shorts, Short(m)
  PROVE  Line'
<1> DEFINE b == m[1]
           f == Filtered(b)
<1>1. data = <<>> /\ (wire = <<>> \/ m \in Realtime) /\ pm_read_short(m)
      /\ UNCHANGED <<wire, data, filters, sysex>>
  BY DEF Short, client
<1>2. m \in Words /\ b \in Bytes
  BY WordsOfShorts
<1>3. Types /\ sysex_message \in Seq(Bytes) /\ wire \in Seq(Bytes)
  BY DEF IInv, Types
<1>4. sysex_in_progress => m \in Realtime
  BY <1>1 DEF IInv, Framing
<1>5. /\ m \in Realtime => is_real_time(b)
      /\ is_real_time(b) => m = <<b>>
      /\ ~is_real_time(b) => IsStatus(m[1]) /\ m[1] < MIDI_EOX /\ m[1] # MIDI_SYSEX
  <2>1. /\ m \in Seq(1..255) /\ IsStatus(m[1]) /\ m[1] \notin {MIDI_SYSEX, MIDI_EOX}
        /\ is_real_time(m[1]) => Len(m) = 1
    BY PmInputAssumption
  <2>2. m = [i \in 1..Len(m) |-> m[i]]
    BY <2>1, LenProperties
  <2>3. is_real_time(b) => m = <<b>>
    BY <2>1, <2>2
  <2>4. ~is_real_time(b) => m[1] < MIDI_EOX
    <3>1. \A c \in Bytes : c # MIDI_EOX /\ ~is_real_time(c) => c < MIDI_EOX
      BY DEF is_real_time, MIDI_EOX, Bytes
    <3> QED
      BY <1>2, <2>1, <3>1
  <2> QED
    BY <2>1, <2>3, <2>4 DEF Realtime
<1> HIDE DEF b, f
<1>6. CASE f
  <2>1. UNCHANGED <<stream, closed, sysex_in_progress, sysex_message>>
    BY <1>1, <1>6 DEF pm_read_short, f, b, fifoVars
  <2> QED
    BY <1>1, <2>1, KeepLine DEF Packing, Coming
<1>7. CASE ~f /\ sysex_in_progress
  <2>1. is_real_time(b)
    BY <1>4, <1>5, <1>7
  <2>2. Pack(b)
    BY <1>1, <1>7, <2>1 DEF pm_read_short, f, b
  <2> DEFINE s == sysex_message
  <2>3. Packing = s /\ Coming = Plain(s) \o wire
    BY <1>1, <1>3, ConcatEmptySeq DEF Packing, Coming
  <2>4. Coming = Plain(Append(s, b)) \o (Plain(<<>>) \o wire)
    <3>1. Plain(Append(s, b)) = Plain(s) \o <<>>
      BY <1>2, <1>3, <2>1, PlainOfAppend
    <3>2. Plain(s) \o <<>> = Plain(s) /\ <<>> \o wire = wire
      BY <1>3, PlainHas, ConcatEmptySeq
    <3> QED
      BY <2>3, <3>1, <3>2, PlainOfEmpty
  <2>5. Packing # <<>> /\ Head(Packing) = MIDI_SYSEX => Head(Append(s, b)) = MIDI_SYSEX
    BY <1>3, <2>3, HeadTailAppend
  <2>6. <<>> \in Seq(Bytes) /\ data' = <<>> /\ wire' = wire /\ sysex' = sysex
    BY <1>1, EmptySeq
  <2> QED
    BY <1>2, <1>3, <1>7, <2>2, <2>4, <2>5, <2>6, PackLine
<1>8. CASE ~f /\ ~sysex_in_progress
  <2>1. Deliver(m)
    BY <1>1, <1>8 DEF pm_read_short, f, b
  <2>2. Enqueue(m) /\ sysex_in_progress' = FALSE /\ sysex_message' = sysex_message
    BY <1>8, <2>1 DEF Deliver
  <2>3. ASSUME NEW z \in Seq(Bytes) PROVE After(z, m) = z \/ After(z, m) = <<>>
    BY <1>2, <1>5, AfterRealtime, AfterOther
  <2>4. Coming' = Coming
    BY <1>1, <2>2 DEF Coming, Packing
  <2>5. Coming' = <<>> \/ \E g \in Sysexes, p \in Seq(Bytes) : p \o Coming' = Framed(g)
    BY <2>4, ComingOf
  <2> QED
    BY <1>1, <1>2, <1>3, <1>8, <2>2, <2>3, <2>5, OtherLine
<1> QED
  BY <1>6, <1>7, <1>8

(* A sequence is cut in two, and is the one part followed by the other. *)
LEMMA CutJoins ==
  ASSUME NEW s \in Seq(Bytes), NEW n \in 1..Len(s)
  PROVE  /\ SubSeq(s, 1, n) \in Seq(Bytes) /\ SubSeq(s, n + 1, Len(s)) \in Seq(Bytes)
         /\ SubSeq(s, 1, n) \o SubSeq(s, n + 1, Len(s)) = s
<1>1. Len(s) \in Nat /\ n \in Nat /\ n >= 1 /\ n <= Len(s)
  BY LenProperties
<1>2. SubSeq(s, 1, n) \in Seq(Bytes) /\ SubSeq(s, n + 1, Len(s)) \in Seq(Bytes)
  BY CutIs
<1>3. 1 \in 1..(Len(s) + 1) /\ n \in (1 - 1)..Len(s) /\ Len(s) \in n..Len(s)
  BY <1>1
<1>4. SubSeq(s, 1, n) \o SubSeq(s, n + 1, Len(s)) = SubSeq(s, 1, Len(s))
  BY <1>3, ConcatAdjacentSubSeq
<1> QED
  BY <1>2, <1>4, SubSeqFull

(* A real-time byte in the middle is taken out. *)
LEMMA PlainInserted ==
  ASSUME NEW d \in Seq(Bytes), NEW k \in 1..Len(d), NEW e \in Bytes, is_real_time(e)
  PROVE  Plain(InsertAt(d, k, e)) = Plain(d)
<1> DEFINE a == SubSeq(d, 1, k - 1)
           b == SubSeq(d, k, Len(d))
           x == <<e>>
<1>1. Len(d) \in Nat /\ k \in Nat /\ k >= 1 /\ k <= Len(d)
  BY LenProperties
<1>2. a \in Seq(Bytes) /\ b \in Seq(Bytes) /\ a \o b = d
  <2>1. \A i \in 1..Len(d) : d[i] \in Bytes
    BY ElementOfSeq
  <2>2. (\A i \in 1..(k - 1) : d[i] \in Bytes) /\ \A i \in k..Len(d) : d[i] \in Bytes
    BY <1>1, <2>1
  <2>3. 1 \in Int /\ k - 1 \in Int /\ k \in Int /\ Len(d) \in Int
    BY <1>1
  <2>4. a \in Seq(Bytes) /\ b \in Seq(Bytes)
    BY <2>2, <2>3, SubSeqProperties
  <2>5. 1 \in 1..(Len(d) + 1) /\ k - 1 \in (1 - 1)..Len(d) /\ Len(d) \in (k - 1)..Len(d)
        /\ (k - 1) + 1 = k
    BY <1>1
  <2>6. SubSeq(d, 1, k - 1) \o SubSeq(d, (k - 1) + 1, Len(d)) = SubSeq(d, 1, Len(d))
    BY <2>5, ConcatAdjacentSubSeq
  <2> QED
    BY <2>4, <2>5, <2>6, SubSeqFull
<1> HIDE DEF a, b
<1>3. x \in Seq(Bytes) /\ a \o x \in Seq(Bytes) /\ (a \o x) \o b \in Seq(Bytes)
  BY <1>2, ConcatProperties
<1>4. Plain((a \o x) \o b) = Plain(a \o x) \o Plain(b)
  BY <1>2, <1>3, PlainOfConcat, Zenon
<1>5. Plain(a \o x) = Plain(a) \o Plain(x)
  BY <1>2, <1>3, PlainOfConcat, Zenon
<1>6. Plain(x) = <<>>
  BY PlainOfByte
<1>7. Plain(a) \o <<>> = Plain(a)
  BY <1>2, PlainHas, ConcatEmptySeq
<1>8. Plain(d) = Plain(a) \o Plain(b)
  BY <1>2, PlainOfConcat, Zenon
<1>9. Plain((a \o x) \o b) = Plain(d)
  BY <1>4, <1>5, <1>6, <1>7, <1>8
<1>10. InsertAt(d, k, e) = (a \o x) \o b
  BY DEF InsertAt, a, b, x
<1> QED
  BY <1>9, <1>10

(* Bytes come into a buffer, with a clock among them: no other byte is new. *)
LEMMA BufferLine ==
  ASSUME IInv, Line, NEW n \in 1..Len(wire), NEW clock \in 0..Len(wire), Buffer(n, clock)
  PROVE  Line'
<1> DEFINE d == SubSeq(wire, 1, n)
           r == SubSeq(wire, n + 1, Len(wire))
           m == sysex_message
           x == data'
<1>1. data = <<>> /\ wire' = r
      /\ x = (IF clock \in 1..n THEN InsertAt(d, clock, MIDI_CLOCK) ELSE d)
      /\ UNCHANGED <<stream, closed, sysex_in_progress, sysex_message, sysex>>
  BY DEF Buffer, fifoVars, client
<1>2. m \in Seq(Bytes) /\ wire \in Seq(Bytes)
  BY DEF IInv, Types
<1>3. d \in Seq(Bytes) /\ r \in Seq(Bytes) /\ d \o r = wire /\ Len(d) = n
      /\ \A i \in 1..n : d[i] = wire[i]
  BY <1>2, CutJoins, CutIs
<1>4. x \in Seq(Bytes)
  <2>1. MIDI_CLOCK \in Bytes
    BY DEF MIDI_CLOCK, Bytes
  <2>2. clock \in 1..n => InsertAt(d, clock, MIDI_CLOCK) \in Seq(Bytes)
    BY <1>3, <2>1, Inserted
  <2> QED
    BY <1>1, <1>3, <2>2
<1>5. Packing = m /\ Coming = Plain(m) \o wire /\ Plain(m) \in Seq(Bytes)
  BY <1>1, <1>2, ConcatEmptySeq, PlainHas DEF Packing, Coming
<1>6. \A i \in 1..Len(wire) : ~is_real_time(wire[i])
  <2>1. wire # <<>>
    <3>1. Len(wire) # 0
      BY <1>2, LenProperties
    <3> QED
      BY <3>1
  <2>2. Coming # <<>>
    BY <1>2, <1>5, <2>1, ConcatEqualIffEmpty
  <2>3. PICK f \in Sysexes, p \in Seq(Bytes) : p \o Coming = Framed(f)
    BY <2>2, ComingOf
  <2>4. p \o Plain(m) \in Seq(Bytes) /\ (p \o Plain(m)) \o wire = p \o (Plain(m) \o wire)
    <3> DEFINE v == Plain(m)
    <3>1. v \in Seq(Bytes)
      BY <1>5
    <3> HIDE DEF v
    <3>2. p \o v \in Seq(Bytes)
      BY <3>1, ConcatProperties
    <3>3. (p \o v) \o wire = p \o (v \o wire)
      <4>1. wire \in Seq(Bytes)
        BY <1>2
      <4> HIDE DEF d, r, x, m
      <4> QED
        BY <3>1, <4>1, JoinedBytes, Zenon
    <3> QED
      BY <3>2, <3>3 DEF v
  <2>5. (p \o Plain(m)) \o wire = Framed(f)
    BY <1>5, <2>3, <2>4
  <2> QED
    BY <1>2, <2>4, <2>5, PartOf
<1> HIDE DEF d, r, x
<1>7. Plain(x) = d
  <2>1. n \in Nat /\ Len(wire) \in Nat /\ n <= Len(wire)
    BY <1>2, LenProperties
  <2>2. \A i \in 1..Len(d) : ~is_real_time(d[i])
    BY <1>3, <1>6, <2>1
  <2>3. Plain(d) = d
    BY <1>3, <2>2, PlainOfPlain
  <2>4. MIDI_CLOCK \in Bytes /\ is_real_time(MIDI_CLOCK)
    BY DEF MIDI_CLOCK, Bytes, is_real_time
  <2>5. clock \in 1..n => Plain(InsertAt(d, clock, MIDI_CLOCK)) = Plain(d)
    BY <1>3, <2>4, PlainInserted
  <2> QED
    BY <1>1, <2>3, <2>5
<1>8. Packing' = m \o x /\ Coming' = Plain(m \o x) \o r
  BY <1>1 DEF Packing, Coming, x
<1>9. Plain(m \o x) \o r = Plain(m) \o (Plain(x) \o r)
  <2>1. m \in Seq(Bytes) /\ x \in Seq(Bytes) /\ r \in Seq(Bytes)
    BY <1>2, <1>3, <1>4
  <2> QED
    BY <2>1, ComingIs, Zenon
<1>10. Coming' = Coming
  BY <1>3, <1>5, <1>7, <1>8, <1>9
<1>11. Packing # <<>> => Packing' # <<>> /\ Head(Packing') = Head(Packing)
  BY <1>2, <1>4, <1>5, <1>8, HeadOfConcat
<1> QED
  BY <1>1, <1>10, <1>11, KeepLine

(* Nothing goes into the queue while no sysex is in progress. *)
LEMMA DropLine ==
  ASSUME Line, ~sysex_in_progress, ~sysex_in_progress', UNCHANGED <<stream, sysex>>,
         Coming' = <<>> \/ \E f \in Sysexes, p \in Seq(Bytes) : p \o Coming' = Framed(f)
  PROVE  Line'
<1>1. PICK a : /\ Reads(a, sysex, stream)
               /\ Sending(a[Len(stream) + 1], sysex_in_progress, Packing, Coming)
  BY DEF Line
<1>2. Reads(a, sysex', stream')
  BY <1>1
<1>3. Sending(a[Len(stream) + 1], sysex_in_progress', Packing', Coming')
  BY <1>1 DEF Sending
<1> QED
  BY <1>2, <1>3 DEF Line

(* A sysex is found, or a byte of one that was lost is left out. *)
LEMMA SeekSysexLine ==
  ASSUME IInv, ClosedGap, Line, cuts = 0, SeekSysex
  PROVE  Line'
<1> DEFINE b == Head(data)
           t == Tail(data)
           x == IF is_real_time(b) THEN <<>> ELSE <<b>>
           y == Plain(t) \o wire
<1>1. data # <<>> /\ ~sysex_in_progress /\ UNCHANGED <<wire, filters, sysex>>
  BY DEF SeekSysex, client
<1>2. Types /\ sysex_message = <<>> /\ data \in Seq(Bytes) /\ wire \in Seq(Bytes)
  BY <1>1 DEF IInv, Types, Framing
<1>3. b \in Bytes /\ t \in Seq(Bytes) /\ Coming = Plain(sysex_message) \o (x \o y)
  BY <1>1, <1>2, NextByte
<1>4. y \in Seq(Bytes)
  <2>1. Plain(t) \in Seq(Bytes)
    BY <1>3, PlainHas
  <2> QED
    BY <1>2, <2>1, ConcatProperties
<1>5. <<b>> \in Seq(Bytes) /\ x \in Seq(Bytes)
  BY <1>3
<1> HIDE DEF x, y
<1>6. Coming = x \o y
  <2>1. x \o y \in Seq(Bytes)
    BY <1>4, <1>5, ConcatProperties
  <2> QED
    BY <1>2, <1>3, <2>1, PlainOfEmpty, ConcatEmptySeq
<1>7. ASSUME ~is_real_time(b)
      PROVE  \E f \in Sysexes, p \in Seq(Bytes) :
               /\ p \o Coming = Framed(f) /\ (p \o <<b>>) \o y = Framed(f)
               /\ p \o <<b>> \in Seq(Bytes)
               /\ b \in 1..127 \cup {MIDI_SYSEX, MIDI_EOX} /\ (b = MIDI_SYSEX => p = <<>>)
  <2>1. x = <<b>>
    BY <1>7 DEF x
  <2> HIDE DEF b
  <2>2. x \o y \in Seq(Bytes) /\ Len(x \o y) = Len(x) + Len(y) /\ Len(y) \in Nat /\ Len(x) = 1
        /\ \A i \in 1..(Len(x) + Len(y)) : (x \o y)[i] = IF i <= Len(x) THEN x[i] ELSE y[i - Len(x)]
    BY <1>4, <1>5, <2>1, ConcatProperties, LenProperties
  <2> DEFINE c == x \o y
  <2> HIDE DEF c
  <2>3. 1 \in 1..Len(c) /\ c[1] = b
    <3>1. Len(c) = 1 + Len(y) /\ c[1] = x[1]
      BY <2>2 DEF c
    <3> QED
      BY <2>1, <2>2, <3>1
  <2>4. c # <<>> /\ c \in Seq(Bytes) /\ Coming = c
    BY <1>6, <2>2, <2>3 DEF c
  <2>5. PICK f \in Sysexes, p \in Seq(Bytes) : p \o Coming = Framed(f)
    BY <2>4, ComingOf
  <2>6. b \in 1..127 \cup {MIDI_SYSEX, MIDI_EOX} /\ (b = MIDI_SYSEX => p = <<>>)
    <3>1. p \o c = Framed(f)
      BY <2>4, <2>5
    <3>2. /\ c[1] \in 1..127 \cup {MIDI_SYSEX, MIDI_EOX} /\ ~is_real_time(c[1])
          /\ c[1] = MIDI_SYSEX => p = <<>> /\ 1 = 1
      BY <2>3, <2>4, <3>1, PartOf, Zenon
    <3> QED
      BY <2>3, <3>2
  <2>7. p \o <<b>> \in Seq(Bytes) /\ (p \o <<b>>) \o y = p \o (<<b>> \o y)
    BY <1>4, <1>5, ConcatProperties, ConcatAssociative
  <2>8. (p \o <<b>>) \o y = Framed(f)
    BY <1>6, <2>1, <2>5, <2>7
  <2> QED
    BY <2>5, <2>6, <2>7, <2>8
<1>8. CASE b = MIDI_SYSEX /\ b \notin filters
  <2>1. sysex_in_progress' = TRUE /\ UNCHANGED <<stream, closed, data, sysex_message>>
    BY <1>8 DEF SeekSysex, fifoVars
  <2>2. ~is_real_time(b)
    BY <1>8 DEF is_real_time, MIDI_SYSEX
  <2>3. PICK f \in Sysexes, p \in Seq(Bytes) : p \o Coming = Framed(f) /\ p = <<>>
    BY <1>7, <1>8, <2>2
  <2>4. PICK a : /\ Reads(a, sysex, stream)
                 /\ Sending(a[Len(stream) + 1], sysex_in_progress, Packing, Coming)
    BY DEF Line
  <2>5. Packing' = Packing /\ Coming' = Coming /\ Packing = data
    BY <1>1, <1>2, <2>1, ConcatEmptySeq DEF Packing, Coming
  <2>6. ~Broken(a[Len(stream) + 1])
    BY <1>1, <2>4 DEF Sending
  <2>7. Sending(a[Len(stream) + 1], sysex_in_progress', Packing', Coming')
    BY <1>1, <1>8, <2>1, <2>3, <2>5, <2>6 DEF Sending
  <2>8. Reads(a, sysex', stream')
    BY <1>1, <2>1, <2>4
  <2> QED
    BY <2>1, <2>7, <2>8 DEF Line
<1>9. CASE ~(b = MIDI_SYSEX /\ b \notin filters)
  <2>1. /\ data' = t
        /\ IF IsStatus(b) /\ b # MIDI_EOX THEN pm_read_short(<<b>>)
           ELSE UNCHANGED <<fifoVars, sysex_in_progress, sysex_message>>
    BY <1>9 DEF SeekSysex
  <2>2. sysex_message' = <<>> => Coming' = y /\ Packing' = t
    BY <1>1, <1>3, <2>1, ConcatEmptySeq DEF Coming, Packing, y
  <2>3. CASE ~(IsStatus(b) /\ b # MIDI_EOX)
    <3>1. UNCHANGED <<stream, sysex_in_progress, sysex_message>>
      BY <2>1, <2>3 DEF fifoVars
    <3>2. ~is_real_time(b)
      <4>1. \A c \in Bytes : ~(IsStatus(c) /\ c # MIDI_EOX) => ~is_real_time(c)
        BY DEF Bytes, IsStatus, MIDI_EOX, is_real_time
      <4> QED
        BY <1>3, <2>3, <4>1
    <3>3. \E f \in Sysexes, p \in Seq(Bytes) : p \o y = Framed(f)
      BY <1>7, <3>2
    <3> QED
      BY <1>1, <1>2, <2>2, <3>1, <3>3, DropLine
  <2>4. CASE IsStatus(b) /\ b # MIDI_EOX
    <3> DEFINE w == <<b>>
    <3>1. pm_read_short(w) /\ w[1] = b /\ Head(w) = b
      BY <2>1, <2>4
    <3>2. w \in Words
      BY <1>3, ByteIsWord
    <3> HIDE DEF w, b
    <3>3. IF Filtered(b) THEN UNCHANGED <<fifoVars, sysex_in_progress, sysex_message>>
          ELSE Deliver(w)
      BY <1>1, <3>1 DEF pm_read_short
    <3>4. CASE is_real_time(b)
      <4>1. Coming = y
        BY <1>4, <1>6, <3>4, ConcatEmptySeq DEF x
      <4>2. CASE Filtered(b)
        <5>1. UNCHANGED <<stream, sysex_in_progress, sysex_message>>
          BY <3>3, <4>2 DEF fifoVars
        <5>2. Coming' = Coming
          BY <1>2, <2>2, <4>1, <5>1
        <5> QED
          BY <1>1, <5>1, <5>2, KeepLine
      <4>3. CASE ~Filtered(b)
        <5>1. Enqueue(w) /\ sysex_in_progress' = FALSE /\ sysex_message' = <<>>
          BY <1>1, <1>2, <3>3, <4>3 DEF Deliver
        <5>2. ASSUME NEW z \in Seq(Bytes) PROVE After(z, w) = z
          BY <1>3, <3>4, AfterRealtime DEF w
        <5>3. Coming' = Coming
          BY <2>2, <4>1, <5>1
        <5>4. Coming' = <<>> \/ \E g \in Sysexes, p \in Seq(Bytes) : p \o Coming' = Framed(g)
          BY <5>3, ComingOf
        <5> QED
          BY <1>1, <1>2, <3>2, <5>1, <5>2, <5>4, OtherLine
      <4> QED
        BY <4>2, <4>3
    <3>5. CASE ~is_real_time(b)
      <4>1. PICK f \in Sysexes, p \in Seq(Bytes) :
              /\ (p \o <<b>>) \o y = Framed(f) /\ p \o <<b>> \in Seq(Bytes)
              /\ b \in 1..127 \cup {MIDI_SYSEX, MIDI_EOX}
        BY <1>7, <3>5
      <4>2. b = MIDI_SYSEX
        <5>1. \A c \in 1..127 : ~IsStatus(c)
          BY DEF IsStatus
        <5> QED
          BY <2>4, <4>1, <5>1
      <4>3. ~Filtered(b)
        BY <4>2 DEF Filtered, is_real_time, MIDI_SYSEX
      <4>4. Enqueue(w) /\ sysex_in_progress' = FALSE /\ sysex_message' = <<>>
        BY <1>1, <1>2, <3>3, <4>3 DEF Deliver
      <4>5. Coming' = y
        BY <2>2, <4>4
      <4>6. Plain(w) = <<MIDI_SYSEX>>
        BY <1>3, <3>5, <4>2, PlainOfByte DEF w
      <4>7. ASSUME NEW z \in Seq(Bytes) PROVE After(z, w) = <<MIDI_SYSEX>>
        BY <3>1, <3>2, <4>2, <4>6, AfterStart
      <4>8. Begun(<<MIDI_SYSEX>>)
        <5> DEFINE F == Framed(f)
        <5>1. F \in Seq(Bytes) /\ F # <<>> /\ F[1] = MIDI_SYSEX
          BY FramedHas, FramedIs
        <5> HIDE DEF F
        <5>2. Tail(F) \in Seq(Bytes) /\ F = <<MIDI_SYSEX>> \o Tail(F)
          BY <5>1, FirstAndRest
        <5> QED
          BY <5>2 DEF F, Begun
      <4> QED
        BY <1>1, <1>2, <3>2, <4>1, <4>4, <4>5, <4>7, <4>8, OtherLine
    <3> QED
      BY <3>4, <3>5
  <2> QED
    BY <2>3, <2>4
<1> QED
  BY <1>8, <1>9

(* Four bytes of data leave as a word. *)
LEMMA CopyWordLine ==
  ASSUME IInv, ClosedGap, Line, CopyWord
  PROVE  Line'
<1> DEFINE w == SubSeq(data, 1, 4)
           d == SubSeq(data, 5, Len(data))
<1>1. sysex_in_progress /\ sysex_message = <<>> /\ Len(data) >= 4
      /\ Deliver(w) /\ data' = d
      /\ UNCHANGED <<wire, filters, sysex>>
  BY DEF CopyWord, CanCopyWord, client
<1>2. Types /\ data \in Seq(Bytes) /\ wire \in Seq(Bytes) /\ Len(data) \in Nat
  BY LenProperties DEF IInv, Types
<1>3. w \in Seq(Bytes) /\ d \in Seq(Bytes) /\ w \o d = data /\ Len(w) = 4
  <2>1. 4 \in 1..Len(data) /\ 4 + 1 = 5
    BY <1>1, <1>2
  <2>2. SubSeq(data, 1, 4) \in Seq(Bytes) /\ SubSeq(data, 4 + 1, Len(data)) \in Seq(Bytes)
        /\ SubSeq(data, 1, 4) \o SubSeq(data, 4 + 1, Len(data)) = data
        /\ Len(SubSeq(data, 1, 4)) = 4
    BY <1>2, <2>1, CutJoins, CutIs
  <2> QED
    BY <2>1, <2>2
<1> HIDE DEF w, d
<1>4. w \in Words /\ w # <<>>
  <2>1. Len(w) # 0 /\ Len(w) <= 4
    BY <1>3
  <2>2. w # <<>>
    BY <2>1
  <2>3. ToSet(w) \subseteq 0..255
    BY <1>3, BytesOf
  <2> QED
    BY <1>3, <2>1, <2>2, <2>3 DEF Words, Word
<1>5. Enqueue(w) /\ sysex_message' = <<>> /\ sysex_in_progress' = (~Overflows)
  BY <1>1 DEF Deliver
<1>6. Packing = data /\ Coming = Plain(w \o d) \o wire
  BY <1>1, <1>2, <1>3, ConcatEmptySeq DEF Packing, Coming
<1>7. Plain(w \o d) \o wire = Plain(w) \o (Plain(d) \o wire)
  <2>1. w \in Seq(Bytes) /\ d \in Seq(Bytes) /\ wire \in Seq(Bytes)
    BY <1>2, <1>3
  <2> QED
    BY <2>1, ComingIs, Zenon
<1>8. Head(Packing) = Head(w)
  BY <1>3, <1>4, <1>6, HeadOfConcat
<1>9. Coming = Plain(w) \o (Plain(d) \o wire)
  BY <1>6, <1>7
<1> QED
  BY <1>1, <1>2, <1>3, <1>4, <1>5, <1>8, <1>9, MoveLine

(* One byte is filtered out, ends the sysex, or is packed. *)
LEMMA CopyByteLine ==
  ASSUME IInv, ClosedGap, Line, filters \subseteq 128..255, CopyByte
  PROVE  Line'
<1> DEFINE b == Head(data)
           t == Tail(data)
           m == sysex_message
           w == Append(m, b)
           f == Filtered(b)
           y == Plain(t) \o wire
           x == IF is_real_time(b) THEN <<>> ELSE <<b>>
<1>1. data # <<>> /\ sysex_in_progress /\ data' = t
      /\ UNCHANGED <<wire, filters, sysex>>
  BY DEF CopyByte, client
<1>2. Types /\ m \in Seq(Bytes) /\ data \in Seq(Bytes) /\ wire \in Seq(Bytes)
  BY DEF IInv, Types
<1>3. /\ b \in Bytes /\ t \in Seq(Bytes) /\ w \o t = Packing
      /\ Coming = Plain(w) \o y /\ Coming = Plain(m) \o (x \o y)
  BY <1>1, <1>2, NextByte
<1>4. w \in Words /\ w \in Seq(Bytes) /\ w # <<>> /\ Plain(w) = Plain(m) \o x
  <2>1. w \in Words /\ w \in Seq(Bytes)
    BY <1>2, <1>3, WordIs
  <2>2. w # <<>>
    <3> HIDE DEF b, m
    <3> QED
      BY <1>2, <1>3, AppendProperties DEF m
  <2>3. Plain(w) = Plain(m) \o x
    BY <1>2, <1>3, PlainOfAppend, Zenon
  <2> QED
    BY <2>1, <2>2, <2>3
<1>5. Plain(m) \in Seq(Bytes) /\ y \in Seq(Bytes) /\ x \in Seq(Bytes)
  <2>1. Plain(m) \in Seq(Bytes) /\ Plain(t) \in Seq(Bytes)
    BY <1>2, <1>3, PlainHas
  <2>2. y \in Seq(Bytes)
    BY <1>2, <2>1, ConcatProperties
  <2> QED
    BY <1>3, <2>1, <2>2
<1>6. Head(Packing) = Head(w)
  BY <1>3, <1>4, HeadOfConcat
<1>7. b = MIDI_EOX => ~f
  BY DEF Filtered, is_real_time, MIDI_EOX, MIDI_SYSEX
<1>8. /\ f => UNCHANGED <<fifoVars, sysex_in_progress, sysex_message>>
      /\ ~f /\ b = MIDI_EOX => /\ Enqueue(w)
                               /\ sysex_message' = <<>>
                               /\ sysex_in_progress' = FALSE
      /\ ~f /\ b # MIDI_EOX => Pack(b)
  <2>1. ASSUME f PROVE UNCHANGED <<fifoVars, sysex_in_progress, sysex_message>>
    BY <1>7, <2>1 DEF CopyByte
  <2>2. ASSUME ~f, b = MIDI_EOX
        PROVE  Enqueue(w) /\ sysex_message' = <<>> /\ sysex_in_progress' = FALSE
    BY <2>2 DEF CopyByte
  <2>3. ASSUME ~f, b # MIDI_EOX PROVE Pack(b)
    BY <2>3 DEF CopyByte
  <2> QED
    BY <2>1, <2>2, <2>3
<1>9. CASE f
  <2>1. UNCHANGED <<stream, sysex_in_progress, sysex_message>>
    BY <1>8, <1>9 DEF fifoVars
  <2>2. is_real_time(b)
    <3> SUFFICES ASSUME ~is_real_time(b) PROVE FALSE
      OBVIOUS
    <3>1. b \in 128..255 /\ b < MIDI_SYSEX
      BY <1>9 DEF Filtered, f
    <3>2. x = <<b>>
      OBVIOUS
    <3> DEFINE c == Plain(w)
    <3> HIDE DEF b, x, y, w, f
    <3>3. c \in Seq(Bytes) /\ c = Plain(m) \o <<b>>
      BY <1>4, <3>2, PlainHas
    <3>4. /\ Len(c) = Len(Plain(m)) + Len(<<b>>)
          /\ \A i \in 1..(Len(Plain(m)) + Len(<<b>>)) :
               c[i] = IF i <= Len(Plain(m)) THEN Plain(m)[i] ELSE <<b>>[i - Len(Plain(m))]
      BY <1>5, <3>2, <3>3, ConcatProperties
    <3> DEFINE k == Len(Plain(m))
               l == k + 1
    <3>5. k \in Nat /\ Len(<<b>>) = 1 /\ <<b>>[1] = b
      BY <1>5, LenProperties
    <3>6. Len(c) = k + 1 /\ \A i \in 1..(k + 1) : c[i] = IF i <= k THEN Plain(m)[i] ELSE <<b>>[i - k]
      BY <3>4, <3>5
    <3> HIDE DEF k, c
    <3>7. l \in 1..(k + 1) /\ ~(l <= k) /\ l - k = 1
      BY <3>5
    <3>8. l \in 1..Len(c) /\ c[l] = b
      BY <3>5, <3>6, <3>7
    <3> HIDE DEF l
    <3> DEFINE z == c \o y
    <3>9. /\ z \in Seq(Bytes) /\ Len(z) = Len(c) + Len(y) /\ Len(c) \in Nat /\ Len(y) \in Nat
          /\ \A i \in 1..(Len(c) + Len(y)) : z[i] = IF i <= Len(c) THEN c[i] ELSE y[i - Len(c)]
      BY <1>5, <3>3, ConcatProperties, LenProperties
    <3> HIDE DEF z
    <3>10. l \in 1..Len(z) /\ z[l] = b
      BY <3>8, <3>9
    <3>11. Coming = z /\ z # <<>>
      <4>1. Len(z) # 0
        BY <3>9, <3>10
      <4> QED
        BY <1>3, <4>1 DEF c, z
    <3>12. PICK g \in Sysexes, p \in Seq(Bytes) : p \o z = Framed(g)
      BY <3>11, ComingOf
    <3>13. z[l] \in 1..127 \cup {MIDI_SYSEX, MIDI_EOX}
      <4>1. z \in Seq(Bytes)
        BY <3>9
      <4> DEFINE U == 1..127 \cup {MIDI_SYSEX, MIDI_EOX}
                 v == Len(z)
      <4>2. \A i \in 1..v : z[i] \in U /\ (z[i] = MIDI_SYSEX => p = <<>>)
        BY <3>12, <4>1, PartHas, Zenon
      <4>3. l \in 1..v
        BY <3>10
      <4> HIDE DEF U, v
      <4>4. z[l] \in U
        BY <4>2, <4>3, Zenon
      <4> QED
        BY <4>4 DEF U
    <3>14. \A e \in 1..127 \cup {MIDI_SYSEX, MIDI_EOX} : ~(e \in 128..255 /\ e < MIDI_SYSEX)
      BY DEF MIDI_SYSEX, MIDI_EOX
    <3> QED
      BY <3>1, <3>10, <3>13, <3>14
  <2>3. Coming = Plain(m) \o y
    BY <1>3, <1>5, <2>2, ConcatEmptySeq
  <2>4. Packing' = m \o t /\ Coming' = Plain(m \o t) \o wire
    BY <1>1, <2>1 DEF Packing, Coming
  <2>5. Plain(m \o t) \o wire = Plain(m) \o (Plain(t) \o wire)
    BY <1>2, <1>3, ComingIs, Zenon
  <2>6. Coming' = Coming
    BY <2>3, <2>4, <2>5
  <2>7. Head(Packing) = MIDI_SYSEX => m # <<>> /\ Head(m) = MIDI_SYSEX
    <3>1. m = <<>> => Packing = data
      BY <1>2, ConcatEmptySeq DEF Packing
    <3>2. m # <<>> => Head(Packing) = Head(m)
      BY <1>2, HeadOfConcat DEF Packing
    <3>3. b # MIDI_SYSEX
      BY <2>2 DEF is_real_time, MIDI_SYSEX
    <3> QED
      BY <3>1, <3>2, <3>3
  <2>8. m # <<>> => Packing' # <<>> /\ Head(Packing') = Head(m)
    BY <1>2, <1>3, <2>4, HeadOfConcat
  <2> QED
    BY <1>1, <2>1, <2>6, <2>7, <2>8, KeepLine
<1>10. CASE ~f /\ b = MIDI_EOX
  <2>1. Enqueue(w) /\ sysex_message' = <<>> /\ sysex_in_progress' = FALSE
    BY <1>8, <1>10
  <2>2. ~is_real_time(b)
    BY <1>10 DEF is_real_time, MIDI_EOX
  <2>3. \E v \in Seq(Bytes) : Plain(w) = Append(v, MIDI_EOX)
    <3>1. Plain(w) = Plain(m) \o <<b>>
      BY <1>4, <2>2
    <3>2. Plain(m) \o <<b>> = Append(Plain(m), b)
      BY <1>3, <1>5, AppendIsConcat
    <3> QED
      BY <1>5, <1>10, <3>1, <3>2
  <2>4. Packing # <<>> /\ Head(Packing) = MIDI_SYSEX => Head(w) = MIDI_SYSEX
    BY <1>6
  <2> HIDE DEF b, x, w, f, m
  <2> QED
    BY <1>1, <1>2, <1>3, <1>4, <2>1, <2>3, <2>4, MoveLine
<1>11. CASE ~f /\ b # MIDI_EOX
  <2>1. Pack(b)
    BY <1>8, <1>11
  <2>2. Packing # <<>> /\ Head(Packing) = MIDI_SYSEX => Head(Append(sysex_message, b)) = MIDI_SYSEX
    BY <1>6
  <2>3. Coming = Plain(Append(sysex_message, b)) \o (Plain(t) \o wire)
    BY <1>3
  <2> HIDE DEF b, t, x, w, f, m, y
  <2> QED
    BY <1>1, <1>2, <1>3, <2>1, <2>2, <2>3, PackLine
<1> QED
  BY <1>9, <1>10, <1>11

(* The client reads: what it will have is the same, one message nearer. *)
LEMMA ReadLine ==
  ASSUME Types, Line, Read
  PROVE  Line'
<1>1. UNCHANGED <<wire, data, sysex_in_progress, sysex_message>>
  BY DEF Read, driver
<1>2. Packing' = Packing /\ Coming' = Coming
  BY <1>1 DEF Packing, Coming
<1>3. CASE stream = <<>>
  <2>1. UNCHANGED <<stream, sysex>>
    BY <1>3 DEF Read, fifoVars
  <2> QED
    BY <1>1, <1>2, <2>1, KeepLine
<1>4. CASE stream # <<>>
  <2>1. stream' = Tail(stream) /\ sysex' = IF HasData THEN Assembled(sysex, Head(stream)) ELSE <<>>
    BY <1>4 DEF Read, Give
  <2>2. sysex' = After(sysex, Head(stream))
    BY <1>4, <2>1 DEF After, HasData
  <2>3. PICK a : /\ Reads(a, sysex, stream)
                 /\ Sending(a[Len(stream) + 1], sysex_in_progress, Packing, Coming)
    BY DEF Line
  <2>4. stream \in Seq(Items)
    BY DEF Types, Items
  <2> DEFINE c == Tail(a)
  <2>5. Reads(c, sysex', stream') /\ c[Len(stream') + 1] = a[Len(stream) + 1]
    BY <1>4, <2>1, <2>2, <2>3, <2>4, ReadsOn
  <2>6. Sending(c[Len(stream') + 1], sysex_in_progress', Packing', Coming')
    BY <1>1, <1>2, <2>3, <2>5
  <2> QED
    BY <2>5, <2>6 DEF Line
<1> QED
  BY <1>3, <1>4

-----------------------------------------------------------------------------
(* What a step does to the queue. *)
Queued ==
  \/ UNCHANGED fifoVars
  \/ Drop
  \/ ~closed /\ UNCHANGED closed
  \/ Give

(* A word that is enqueued. *)
LEMMA EnqueueQueued ==
  ASSUME NEW w, Enqueue(w)
  PROVE  Queued
BY DEF Enqueue, Put, Queued

(* A message of pm_read_short. *)
LEMMA ShortQueued ==
  ASSUME NEW m, pm_read_short(m)
  PROVE  Queued
<1> DEFINE b == m[1]
           f == Filtered(b)
           r == is_real_time(b)
           w == Append(sysex_message, b)
<1> USE DEF pm_read_short
<1> HIDE DEF f, r
<1>1. CASE f
  BY <1>1 DEF f, Queued
<1>2. CASE ~f /\ sysex_in_progress /\ r
  <2>1. Pack(b)
    BY <1>2 DEF f, r
  <2>2. CASE Len(w) = 4
    BY <2>1, <2>2, EnqueueQueued DEF Pack, Flush
  <2>3. CASE Len(w) # 4
    BY <2>1, <2>3 DEF Pack, Queued
  <2> QED
    BY <2>2, <2>3
<1>3. CASE ~f /\ sysex_in_progress /\ ~r
  BY <1>3 DEF f, r, Queued
<1>4. CASE ~f /\ ~sysex_in_progress
  <2>1. Deliver(m)
    BY <1>4 DEF f, r
  <2> QED
    BY <2>1, EnqueueQueued DEF Deliver
<1> QED
  BY <1>1, <1>2, <1>3, <1>4

(* Any step. *)
LEMMA StepQueued ==
  ASSUME [Next]_vars
  PROVE  Queued
<1>1. ASSUME NEW s \in Sysexes, StartSysex(s) PROVE Queued
  BY <1>1 DEF StartSysex, Queued
<1>2. CASE Cut
  BY <1>2 DEF Cut, Queued
<1>3. ASSUME NEW m \in Shorts, Short(m) PROVE Queued
  BY <1>3, ShortQueued DEF Short
<1>4. ASSUME NEW n \in 1..Len(wire), NEW clock \in 0..Len(wire), Buffer(n, clock) PROVE Queued
  BY <1>4 DEF Buffer, Queued
<1>5. CASE SeekSysex
  <2> DEFINE b == Head(data)
  <2>1. CASE b = MIDI_SYSEX /\ b \notin filters
    BY <1>5, <2>1 DEF SeekSysex, Queued
  <2>2. CASE ~(b = MIDI_SYSEX /\ b \notin filters)
    <3>1. pm_read_short(<<b>>) \/ UNCHANGED fifoVars
      BY <1>5, <2>2 DEF SeekSysex
    <3> QED
      BY <3>1, ShortQueued DEF Queued
  <2> QED
    BY <2>1, <2>2
<1>6. CASE CopyWord
  <2>1. Deliver(SubSeq(data, 1, 4))
    BY <1>6 DEF CopyWord
  <2> QED
    BY <2>1, EnqueueQueued DEF Deliver
<1>7. CASE CopyByte
  <2> DEFINE b == Head(data)
             f == Filtered(b)
             w == Append(sysex_message, b)
  <2>0. b = MIDI_EOX => ~f
    BY DEF Filtered, is_real_time, MIDI_EOX, MIDI_SYSEX
  <2> HIDE DEF f
  <2>1. CASE f
    BY <1>7, <2>0, <2>1 DEF CopyByte, Queued, f
  <2>2. CASE ~f /\ b = MIDI_EOX
    <3>1. Enqueue(w)
      BY <1>7, <2>2 DEF CopyByte, f
    <3> QED
      BY <3>1, EnqueueQueued
  <2>3. CASE ~f /\ b # MIDI_EOX
    <3>1. Pack(b)
      BY <1>7, <2>3 DEF CopyByte, f
    <3>2. CASE Len(w) = 4
      BY <3>1, <3>2, EnqueueQueued DEF Pack, Flush
    <3>3. CASE Len(w) # 4
      BY <3>1, <3>3 DEF Pack, Queued
    <3> QED
      BY <3>2, <3>3
  <2> QED
    BY <2>1, <2>2, <2>3
<1>8. ASSUME NEW f \in Filters, SetFilter(f) PROVE Queued
  BY <1>8 DEF SetFilter, Queued
<1>9. CASE Poll
  BY <1>9 DEF Poll, Queued
<1>10. CASE Read
  BY <1>10 DEF Read, Queued
<1>11. CASE UNCHANGED vars
  BY <1>11 DEF vars, Queued, fifoVars
<1> QED
  BY <1>1, <1>2, <1>3, <1>4, <1>5, <1>6, <1>7, <1>8, <1>9, <1>10, <1>11 DEF Next, DriverStep

(* As long as the queue is closed, its last place is the gap. *)
LEMMA ClosedGapKept ==
  ASSUME Types, ClosedGap, [Next]_vars
  PROVE  ClosedGap'
<1>1. stream \in Seq(Items) /\ Gap \in Items
  BY DEF Types, Items
<1>2. CASE UNCHANGED fifoVars
  BY <1>2 DEF fifoVars, ClosedGap
<1>3. CASE Drop
  <2> DEFINE t == Append(stream, Gap)
  <2>1. t # <<>> /\ Len(t) = Len(stream) + 1 /\ t[Len(stream) + 1] = Gap /\ t \in Seq(Items)
    BY <1>1, AppendProperties
  <2>2. stream' = t
    BY <1>3 DEF Drop
  <2> HIDE DEF t
  <2>3. Last(t) = Gap
    BY <2>1 DEF Last
  <2> QED
    BY <2>1, <2>2, <2>3 DEF ClosedGap
<1>4. CASE ~closed /\ UNCHANGED closed
  BY <1>4 DEF ClosedGap
<1>5. CASE Give
  <2>1. stream # <<>> /\ stream' = Tail(stream) /\ closed' = (closed /\ stream # <<Gap>>)
    BY <1>5 DEF Give
  <2>2. /\ Len(stream) \in Nat \ {0} /\ Head(stream) = stream[1]
        /\ Len(Tail(stream)) = Len(stream) - 1
        /\ IF Tail(stream) = <<>> THEN Head(stream) = Last(stream)
           ELSE Last(Tail(stream)) = Last(stream)
    BY <1>1, <2>1, TailIs
  <2>3. ASSUME closed, stream # <<Gap>> PROVE Tail(stream) # <<>> /\ Last(Tail(stream)) = Gap
    <3>1. Last(stream) = Gap
      BY <2>3 DEF ClosedGap
    <3>2. ASSUME Tail(stream) = <<>> PROVE FALSE
      <4>1. Len(stream) = 1
        BY <2>2, <3>2
      <4>2. stream[1] = Gap
        BY <2>2, <3>1, <3>2
      <4>3. stream = [i \in 1..Len(stream) |-> stream[i]]
        BY <1>1, LenProperties
      <4>4. stream = <<Gap>>
        BY <4>1, <4>2, <4>3
      <4> QED
        BY <2>3, <4>4
    <3> QED
      BY <2>2, <3>1, <3>2
  <2> QED
    BY <2>1, <2>3 DEF ClosedGap
<1> QED
  BY <1>2, <1>3, <1>4, <1>5, StepQueued DEF Queued

-----------------------------------------------------------------------------
(* At first nothing has come and nothing is to come. *)
LEMMA InitSysex == Init => SysexInv
<1> SUFFICES ASSUME Init PROVE SysexInv
  OBVIOUS
<1>1. /\ stream = <<>> /\ closed = FALSE /\ filters = {254} /\ sysex = <<>>
      /\ wire = <<>> /\ data = <<>> /\ sysex_message = <<>> /\ sysex_in_progress = FALSE
  BY DEF Init, Empty
<1>2. <<>> \in Seq(Bytes) /\ <<>> \o <<>> = <<>>
  BY EmptySeq, ConcatEmptySeq
<1>3. Coming = <<>>
  BY <1>1, <1>2, PlainOfEmpty DEF Coming, Packing
<1> DEFINE e == <<>>
           a == <<e>>
<1>4. e \in Seq(Bytes) /\ ~Broken(e) /\ Begun(e)
  BY <1>2 DEF Broken, Begun
<1> HIDE DEF e
<1>5. a \in Seq(Seq(Bytes)) /\ Len(a) = 1 /\ a[1] = e
  BY <1>4
<1> HIDE DEF a
<1>6. Len(stream) = 0
  BY <1>1
<1>7. Reads(a, e, stream)
  BY <1>4, <1>5, <1>6 DEF Reads
<1>8. Sending(a[Len(stream) + 1], sysex_in_progress, Packing, Coming)
  BY <1>1, <1>3, <1>4, <1>5, <1>6 DEF Sending
<1>9. Line
  BY <1>1, <1>7, <1>8 DEF Line, e
<1>10. filters \subseteq 128..255 /\ sysex \in Seq(Bytes)
  BY <1>1, <1>2
<1> QED
  BY <1>1, <1>9, <1>10 DEF SysexInv, ClosedGap

(* The filters are sets of statuses, and no step takes a cut back. *)
LEMMA StepFilters ==
  ASSUME IInv, filters \subseteq 128..255, [Next]_vars
  PROVE  filters' \subseteq 128..255 /\ (cuts' = 0 => cuts = 0)
<1>1. ASSUME NEW s \in Sysexes, StartSysex(s) PROVE UNCHANGED <<filters, cuts>>
  BY <1>1 DEF StartSysex
<1>2. CASE Cut
  BY <1>2 DEF Cut, IInv, Types
<1>3. ASSUME NEW m \in Shorts, Short(m) PROVE UNCHANGED <<filters, cuts>>
  BY <1>3 DEF Short
<1>4. ASSUME NEW n \in 1..Len(wire), NEW clock \in 0..Len(wire), Buffer(n, clock)
      PROVE  UNCHANGED <<filters, cuts>>
  BY <1>4 DEF Buffer
<1>5. CASE SeekSysex
  BY <1>5 DEF SeekSysex
<1>6. CASE CopyWord
  BY <1>6 DEF CopyWord
<1>7. CASE CopyByte
  BY <1>7 DEF CopyByte
<1>8. ASSUME NEW f \in Filters, SetFilter(f) PROVE filters' \subseteq 128..255 /\ UNCHANGED cuts
  BY <1>8, PmInputAssumption DEF SetFilter, driver
<1>9. CASE Poll
  BY <1>9 DEF Poll, driver
<1>10. CASE Read
  BY <1>10 DEF Read, driver
<1>11. CASE UNCHANGED vars
  BY <1>11 DEF vars, driver
<1> QED
  BY <1>1, <1>2, <1>3, <1>4, <1>5, <1>6, <1>7, <1>8, <1>9, <1>10, <1>11 DEF Next, DriverStep

(* The client changes what it has of a sysex by reading, only. *)
LEMMA StepReads ==
  ASSUME [Next]_vars, sysex' # sysex
  PROVE  /\ stream # <<>> /\ UNCHANGED cuts
         /\ sysex' = IF HasData THEN Assembled(sysex, Head(stream)) ELSE <<>>
<1>1. ASSUME NEW s \in Sysexes, StartSysex(s) PROVE FALSE
  BY <1>1 DEF StartSysex, client
<1>2. CASE Cut
  BY <1>2 DEF Cut, client
<1>3. ASSUME NEW m \in Shorts, Short(m) PROVE FALSE
  BY <1>3 DEF Short, client
<1>4. ASSUME NEW n \in 1..Len(wire), NEW clock \in 0..Len(wire), Buffer(n, clock) PROVE FALSE
  BY <1>4 DEF Buffer, client
<1>5. CASE SeekSysex
  BY <1>5 DEF SeekSysex, client
<1>6. CASE CopyWord
  BY <1>6 DEF CopyWord, client
<1>7. CASE CopyByte
  BY <1>7 DEF CopyByte, client
<1>8. ASSUME NEW f \in Filters, SetFilter(f) PROVE FALSE
  BY <1>8 DEF SetFilter, client
<1>9. CASE Poll
  BY <1>9 DEF Poll
<1>10. CASE Read
  BY <1>10 DEF Read, driver
<1>11. CASE UNCHANGED vars
  BY <1>11 DEF vars, client
<1> QED
  BY <1>1, <1>2, <1>3, <1>4, <1>5, <1>6, <1>7, <1>8, <1>9, <1>10, <1>11 DEF Next, DriverStep

(* It has bytes of a sysex, whatever it reads. *)
LEMMA StepBytes ==
  ASSUME Types, sysex \in Seq(Bytes), [Next]_vars
  PROVE  sysex' \in Seq(Bytes)
<1>1. CASE sysex' = sysex
  BY <1>1
<1>2. CASE sysex' # sysex
  <2> DEFINE w == Head(stream)
  <2>1. stream # <<>> /\ sysex' = IF HasData THEN Assembled(sysex, w) ELSE <<>>
    BY <1>2, StepReads
  <2>2. CASE ~HasData
    BY <2>1, <2>2
  <2>3. CASE HasData
    <3>1. w \in Items /\ w # Gap
      BY <2>1, <2>3, TailIs DEF HasData, Types, Items
    <3>2. w \in Seq(Bytes)
      BY <3>1 DEF Items, Words
    <3> HIDE DEF w
    <3>3. Plain(w) \in Seq(Bytes)
      BY <3>2, PlainHas
    <3>4. sysex \o Plain(w) \in Seq(Bytes)
      BY <3>3, ConcatProperties
    <3>5. Assembled(sysex, w) \in {sysex, Plain(w), <<>>, sysex \o Plain(w)}
      BY DEF Assembled
    <3>6. sysex' = Assembled(sysex, w)
      BY <2>1, <2>3
    <3>7. {sysex, Plain(w), <<>>, sysex \o Plain(w)} \subseteq Seq(Bytes)
      BY <3>3, <3>4
    <3> QED
      BY <3>5, <3>6, <3>7
  <2> QED
    BY <2>2, <2>3
<1> QED
  BY <1>1, <1>2

(* What the driver has still to pass on is untouched. *)
LEMMA SameLine ==
  ASSUME Line, UNCHANGED <<stream, driver, sysex>>
  PROVE  Line'
<1>1. UNCHANGED <<stream, sysex, wire, data, sysex_in_progress, sysex_message>>
  BY DEF driver
<1>2. Packing' = Packing /\ Coming' = Coming
  BY <1>1 DEF Packing, Coming
<1> QED
  BY <1>1, <1>2, KeepLine

(* Every step keeps Line, as long as no sysex is cut off. *)
LEMMA StepLine ==
  ASSUME IInv, SysexInv, [Next]_vars, cuts' = 0
  PROVE  Line'
<1>0. cuts = 0 /\ Line /\ ClosedGap /\ filters \subseteq 128..255 /\ Types
  BY StepFilters DEF SysexInv, IInv
<1>1. ASSUME NEW s \in Sysexes, StartSysex(s) PROVE Line'
  BY <1>0, <1>1, StartSysexLine
<1>2. ASSUME Cut PROVE FALSE
  BY <1>0, <1>2 DEF Cut
<1>3. ASSUME NEW m \in Shorts, Short(m) PROVE Line'
  BY <1>0, <1>3, ShortLine
<1>4. ASSUME NEW n \in 1..Len(wire), NEW clock \in 0..Len(wire), Buffer(n, clock) PROVE Line'
  BY <1>0, <1>4, BufferLine
<1>5. CASE SeekSysex
  BY <1>0, <1>5, SeekSysexLine
<1>6. CASE CopyWord
  BY <1>0, <1>6, CopyWordLine
<1>7. CASE CopyByte
  BY <1>0, <1>7, CopyByteLine
<1>8. ASSUME NEW f \in Filters, SetFilter(f) PROVE Line'
  <2>1. UNCHANGED <<stream, driver, sysex>>
    BY <1>8 DEF SetFilter, fifoVars, client
  <2> QED
    BY <1>0, <2>1, SameLine
<1>9. CASE Poll
  <2>1. UNCHANGED <<stream, driver, sysex>>
    BY <1>9 DEF Poll, fifoVars
  <2> QED
    BY <1>0, <2>1, SameLine
<1>10. CASE Read
  BY <1>0, <1>10, ReadLine
<1>11. CASE UNCHANGED vars
  <2>1. UNCHANGED <<stream, driver, sysex>>
    BY <1>11 DEF vars, client
  <2> QED
    BY <1>0, <2>1, SameLine
<1> QED
  BY <1>1, <1>2, <1>3, <1>4, <1>5, <1>6, <1>7, <1>8, <1>9, <1>10, <1>11 DEF Next, DriverStep

(* SysexInv is an invariant of the driver and the client, in any            *)
(* interleaving.                                                            *)
THEOREM Spec_SysexInv == Spec => []SysexInv
<1>1. Init => SysexInv
  BY InitSysex
<1>2. IInv /\ SysexInv /\ [Next]_vars => SysexInv'
  <2> SUFFICES ASSUME IInv, SysexInv, [Next]_vars PROVE SysexInv'
    OBVIOUS
  <2>1. Types /\ ClosedGap /\ filters \subseteq 128..255 /\ sysex \in Seq(Bytes)
    BY DEF IInv, SysexInv
  <2>2. ClosedGap'
    BY <2>1, ClosedGapKept
  <2>3. filters' \subseteq 128..255 /\ sysex' \in Seq(Bytes)
    BY <2>1, StepFilters, StepBytes
  <2>4. cuts' = 0 => Line'
    BY StepLine
  <2> QED
    BY <2>2, <2>3, <2>4 DEF SysexInv
<1> QED
  BY <1>1, <1>2, Spec_IInv, PTL DEF Spec

-----------------------------------------------------------------------------
(* What SysexInv says of the sysex that the client is reading.             *)

(* A sequence begins whatever it is continued to. *)
LEMMA Continued ==
  ASSUME NEW s \in Seq(Bytes), s # <<>>, NEW q \in Seq(Bytes)
  PROVE  /\ IsPrefix(s, s \o q) /\ SubSeq(s, 1, Len(s)) = s
         /\ s \o q # s => IsStrictPrefix(s, s \o q)
<1> DEFINE t == s \o q
           n == Len(s)
           b == SubSeq(t, 1, n)
           c == SubSeq(s, 1, n)
<1>1. n \in Nat \ {0} /\ Len(q) \in Nat
  BY EmptySeq, LenProperties
<1>2. /\ t \in Seq(Bytes) /\ Len(t) = n + Len(q)
      /\ \A i \in 1..(n + Len(q)) : t[i] = IF i <= n THEN s[i] ELSE q[i - n]
  BY ConcatProperties
<1> HIDE DEF t
<1>3. n \in 1..Len(t) /\ n \in 1..n /\ n <= Len(t)
  BY <1>1, <1>2
<1>4. b \in Seq(Bytes) /\ Len(b) = n /\ \A i \in 1..n : b[i] = t[i]
  BY <1>2, <1>3, CutIs
<1>5. c \in Seq(Bytes) /\ Len(c) = n /\ \A i \in 1..n : c[i] = s[i]
  BY <1>3, CutIs
<1> HIDE DEF b, c
<1>6. \A i \in 1..n : t[i] = s[i]
  BY <1>1, <1>2
<1>7. c = s
  BY <1>5, SeqEqual
<1>8. b = s
  BY <1>4, <1>6, SeqEqual
<1>9. IsPrefix(s, t)
  BY <1>3, <1>7, <1>8 DEF IsPrefix, b, c
<1> QED
  BY <1>7, <1>9 DEF IsStrictPrefix, t, c

(* The beginning of a sysex has one start, at its first byte. *)
LEMMA BegunStarts ==
  ASSUME sysex \in Seq(Bytes), Begun(sysex)
  PROVE  IF sysex = <<>> THEN Starts = {}
         ELSE Starts = {1} /\ \E f \in Sysexes : IsPrefix(Piece(1), Framed(f))
<1>1. CASE sysex = <<>>
  BY <1>1 DEF Starts
<1>2. CASE sysex # <<>>
  <2>1. PICK f \in Sysexes, q \in Seq(Bytes) : sysex \o q = Framed(f)
    BY <1>2 DEF Begun
  <2> DEFINE F == Framed(f)
             n == Len(sysex)
  <2>2. n \in Nat \ {0} /\ Len(q) \in Nat
    BY <1>2, EmptySeq, LenProperties
  <2>3. /\ Len(F) = n + Len(q)
        /\ \A i \in 1..(n + Len(q)) : F[i] = IF i <= n THEN sysex[i] ELSE q[i - n]
    BY <2>1, ConcatProperties
  <2>4. F[1] = MIDI_SYSEX /\ \A i \in 1..Len(F) : F[i] = MIDI_SYSEX => i = 1
    BY FramedHas
  <2>5. IsPrefix(sysex, F) /\ SubSeq(sysex, 1, n) = sysex
    BY <1>2, <2>1, Continued
  <2>6. DOMAIN sysex = 1..n
    BY LenProperties
  <2> HIDE DEF F, n
  <2>7. \A i \in 1..n : sysex[i] = MIDI_SYSEX <=> i = 1
    BY <2>2, <2>3, <2>4
  <2>8. Starts = {1}
    BY <2>2, <2>6, <2>7 DEF Starts
  <2>9. {j - 1 : j \in {k \in Starts : k > 1}} \cup {n} = {n}
    BY <2>8
  <2>10. Min({n}) = n
    BY <2>2 DEF Min
  <2>11. Piece(1) = SubSeq(sysex, 1, n)
    BY <2>9, <2>10 DEF Piece, n
  <2> QED
    BY <1>2, <2>5, <2>8, <2>11 DEF F
<1> QED
  BY <1>1, <1>2

(* What the client has before the first message in the queue. *)
LEMMA LineBegun ==
  ASSUME Types, Line
  PROVE  /\ sysex \in Seq(Bytes) /\ Begun(sysex)
         /\ stream # <<>> /\ Broken(sysex) =>
              \/ Head(stream) = Gap
              \/ \E q \in Seq(Bytes) : Assembled(sysex, Head(stream)) = sysex \o q
<1>1. PICK a : Reads(a, sysex, stream)
  BY DEF Line
<1>2. /\ a \in Seq(Seq(Bytes)) /\ Len(a) = Len(stream) + 1 /\ a[1] = sysex
      /\ \A i \in 1..Len(stream) : a[i + 1] = After(a[i], stream[i])
      /\ \A i \in 1..Len(stream) :
           Broken(a[i]) => stream[i] = Gap \/ \E q \in Seq(Bytes) : a[i + 1] = a[i] \o q
      /\ \A i \in 1..Len(a) : Begun(a[i])
  BY <1>1 DEF Reads
<1>3. stream \in Seq(Items) /\ Len(stream) \in Nat
  BY LenProperties DEF Types, Items
<1>4. 1 \in 1..Len(a)
  BY <1>2, <1>3
<1>5. sysex \in Seq(Bytes) /\ Begun(sysex)
  BY <1>2, <1>4, ElementOfSeq
<1>6. ASSUME stream # <<>>, Broken(sysex), Head(stream) # Gap
      PROVE  \E q \in Seq(Bytes) : Assembled(sysex, Head(stream)) = sysex \o q
  <2>1. Len(stream) \in Nat \ {0} /\ Head(stream) = stream[1]
    BY <1>3, <1>6, TailIs
  <2>2. 1 \in 1..Len(stream)
    BY <2>1
  <2>3. a[1 + 1] = After(a[1], stream[1])
    BY <1>2, <2>2
  <2>4. \E q \in Seq(Bytes) : a[1 + 1] = a[1] \o q
    BY <1>2, <1>6, <2>1, <2>2
  <2> QED
    BY <1>2, <1>6, <2>1, <2>3, <2>4 DEF After
<1> QED
  BY <1>5, <1>6

(* Until a sysex is cut off on its way, what the client reads of one is the *)
(* beginning of one that was sent, whatever the buffers, the real-time      *)
(* messages, the filters, the size of the queue and its overflows.          *)
THEOREM SysexesFromTheStart == Spec => [](cuts = 0 => SysexFromTheStart)
<1>1. IInv /\ SysexInv => (cuts = 0 => SysexFromTheStart)
  <2> SUFFICES ASSUME IInv, SysexInv, cuts = 0 PROVE SysexFromTheStart
    OBVIOUS
  <2>1. sysex \in Seq(Bytes) /\ Begun(sysex)
    BY LineBegun DEF IInv, SysexInv
  <2>2. CASE sysex = <<>>
    <3>1. Starts = {}
      BY <2>1, <2>2, BegunStarts
    <3>2. Cardinality(Starts) = 0
      BY <3>1, FS_EmptySet
    <3> QED
      BY <2>2, <3>1, <3>2 DEF SysexFromTheStart
  <2>3. CASE sysex # <<>>
    <3>1. Starts = {1} /\ \E f \in Sysexes : IsPrefix(Piece(1), Framed(f))
      BY <2>1, <2>3, BegunStarts
    <3>2. Cardinality(Starts) = 1
      BY <3>1, FS_Singleton
    <3>3. \A i \in Starts : \E s \in Sysexes : IsPrefix(Piece(i), Framed(s))
      BY <3>1
    <3> QED
      BY <3>1, <3>2, <3>3 DEF SysexFromTheStart
  <2> QED
    BY <2>2, <2>3
<1> QED
  BY <1>1, Spec_IInv, Spec_SysexInv, PTL

(* A sysex that is broken off is never passed off as complete: the client   *)
(* is told of an overflow, or a message that begins with a status follows   *)
(* one that was cut off, whatever was cut off and lost before.              *)
THEOREM CutsAreTold == Spec => CutMeansOverflow
<1>1. IInv /\ SysexInv /\ [Next]_vars =>
        [Unfinished /\ sysex' # sysex =>
           \/ IsStrictPrefix(sysex, sysex')
           \/ Head(stream) = Gap
           \/ cuts > 0 /\ IsStatus(Head(Head(stream)))]_vars
  <2> SUFFICES ASSUME IInv, SysexInv, [Next]_vars, Unfinished, sysex' # sysex,
                      Head(stream) # Gap
               PROVE  \/ IsStrictPrefix(sysex, sysex')
                      \/ cuts > 0 /\ IsStatus(Head(Head(stream)))
    OBVIOUS
  <2> DEFINE w == Head(stream)
  <2>1. stream # <<>> /\ sysex' = Assembled(sysex, w)
    BY StepReads DEF HasData
  <2>2. sysex \in Seq(Bytes) /\ sysex # <<>> /\ Broken(sysex)
    BY DEF SysexInv, Unfinished, Broken
  <2>3. Types /\ cuts \in Nat
    BY PmInputAssumption DEF IInv, Types
  <2>4. CASE cuts = 0
    <3>1. \E q \in Seq(Bytes) : Assembled(sysex, w) = sysex \o q
      BY <2>1, <2>2, <2>3, <2>4, LineBegun DEF SysexInv
    <3> QED
      BY <2>1, <2>2, <3>1, Continued
  <2>5. CASE cuts # 0
    <3>1. cuts > 0
      BY <2>3, <2>5
    <3>2. w \in Seq(Bytes)
      BY <2>1, <2>3, TailIs DEF Types, Words
    <3> HIDE DEF w
    <3>3. Plain(w) \in Seq(Bytes)
      BY <3>2, PlainHas
    <3>4. CASE IsStatus(Head(w))
      BY <3>1, <3>4 DEF w
    <3>5. CASE ~IsStatus(Head(w))
      <4>1. Head(w) # MIDI_SYSEX
        BY <3>5 DEF IsStatus, MIDI_SYSEX
      <4>2. sysex' = sysex \/ sysex' = sysex \o Plain(w)
        BY <2>1, <3>5, <4>1 DEF Assembled
      <4> QED
        BY <2>2, <3>3, <4>2, Continued
    <3> QED
      BY <3>4, <3>5
  <2> QED
    BY <2>4, <2>5
<1> QED
  BY <1>1, Spec_IInv, Spec_SysexInv, PTL DEF Spec, CutMeansOverflow
=============================================================================
