---------------------------- MODULE PmOutputProofs ----------------------------
(***************************************************************************)
(* Theorems about PmOutput for messages and sysexes of any length, drivers *)
(* with a buffer of any size or none, and failures at any call.            *)
(***************************************************************************)
EXTENDS PmOutput, SequenceTheorems, TLAPS

Words == [1..4 -> Byte]

(* What is sent: the byte of a sysex, a word, or the echo of a byte. *)
Item == Seq(Byte) \cup {Echo(b) : b \in Byte}

DriverCalls ==
  [fn : {"begin_sysex", "end_sysex", "write_flush", "write_short",
         "write_realtime", "write_byte"},
   item : Item]

Drivers == [sent : Seq(Item), hold : Seq(Item), fill_base : BOOLEAN]

OutputTypeOK ==
  /\ fill_length \in Nat
  /\ driver \in Drivers
  /\ sysex_in_progress \in BOOLEAN
  /\ todo \in Seq(DriverCalls)
  /\ pc \in {"idle", "gather", "fill", "end", "write", "flush"}
  /\ op \in {"Pm_Write", "Pm_WriteShort", "Pm_WriteSysEx"}
  /\ msg \in Seq(Byte) /\ buffer \in Seq(Words)
  /\ answer \in {"ok", "bad", "host"}

(* What each place in the functions of portmidi.c knows. *)
Position ==
  /\ pc \in {"idle", "gather", "fill"} => todo = <<>>
  /\ pc \in {"idle", "fill", "flush", "end"} => buffer = <<>>
  /\ pc \in {"gather", "fill", "end"} => op = "Pm_WriteSysEx"
  /\ pc \in {"gather", "fill"} => msg # <<>>
  /\ pc = "fill" => driver.fill_base
  /\ pc = "flush" => todo = FlushCalls \/ (todo = <<>> /\ driver.hold = <<>>)
  /\ pc = "end" => todo = <<Fn("end_sysex")>> \/ (todo = <<>> /\ driver.hold = <<>>)

Inv == OutputTypeOK /\ Position /\ FillInBounds /\ AllIsFlushed

-----------------------------------------------------------------------------
(* After a refusal: how far a message that follows one has come.           *)

(* The bytes m of a sysex that follow its first. *)
Data(m) == \A i \in 1..Len(m) : IF i = Len(m) THEN m[i] = MIDI_EOX ELSE ~IsStatus(m[i])

(* EOX, if it has been gathered, is in the last word, with nothing left.   *)
EoxIsLast ==
  \A i \in 1..Len(buffer), k \in 1..4 :
    buffer[i][k] = MIDI_EOX => i = Len(buffer) /\ msg = <<>>

NothingLeft == buffer = <<>> /\ msg = <<>>

ShortAhead ==
  /\ ~sysex_in_progress /\ Len(buffer) = 1
  /\ IsStatus(buffer[1][1]) /\ buffer[1][1] # MIDI_EOX

SysexAhead ==
  /\ ~sysex_in_progress /\ todo = <<>>
  /\ \/ pc = "gather" /\ buffer = <<>> /\ buffer_size = 1 /\ msg \in Sysexes
     \/ /\ pc = "write" /\ Len(buffer) = 1 /\ buffer[1][1] = MIDI_SYSEX
        /\ Data(msg) /\ EoxIsLast

SysexUnderWay ==
  /\ sysex_in_progress /\ ~Ending
  /\ Data(msg) /\ EoxIsLast
  /\ \A i \in 1..Len(buffer) :
       ~IsStatus(buffer[i][1]) \/ buffer[i][1] = MIDI_EOX

(* A refusal leaves no sysex in progress, and a whole message that comes   *)
(* next finds none but its own.                                            *)
InOrderAgain ==
  answer = "bad" =>
    /\ pc = "idle" => ~sysex_in_progress
    /\ pc # "idle" /\ op = "Pm_WriteShort" => buffer = <<>> \/ ShortAhead
    /\ pc # "idle" /\ op = "Pm_WriteSysEx" =>
         NothingLeft \/ SysexAhead \/ SysexUnderWay

-----------------------------------------------------------------------------
(* The helpers. *)

(* Both of two numbers bound their minimum from above. *)
LEMMA MinOfTwo ==
  ASSUME NEW a \in Nat, NEW b \in Nat
  PROVE  Min({a, b}) \in Nat /\ Min({a, b}) <= a /\ Min({a, b}) <= b
         /\ (Min({a, b}) = a \/ Min({a, b}) = b)
<1>1. \E x \in {a, b} : \A y \in {a, b} : x =< y
  OBVIOUS
<1>2. Min({a, b}) \in {a, b} /\ \A y \in {a, b} : Min({a, b}) =< y
  BY <1>1 DEF Min
<1> QED
  BY <1>2

(* The first n elements of a sequence, and the rest. *)
LEMMA Split ==
  ASSUME NEW S, NEW s \in Seq(S), NEW n \in Nat, n <= Len(s)
  PROVE  /\ SubSeq(s, 1, n) \in Seq(S) /\ Len(SubSeq(s, 1, n)) = n
         /\ \A i \in 1..n : SubSeq(s, 1, n)[i] = s[i]
         /\ SubSeq(s, n + 1, Len(s)) \in Seq(S)
         /\ Len(SubSeq(s, n + 1, Len(s))) = Len(s) - n
         /\ \A i \in 1..(Len(s) - n) : SubSeq(s, n + 1, Len(s))[i] = s[n + i]
<1>1. Len(s) \in Nat /\ \A i \in 1..Len(s) : s[i] \in S
  OBVIOUS
<1>2. (\A i \in 1..n : s[i] \in S) /\ (\A i \in (n + 1)..Len(s) : s[i] \in S)
  BY <1>1
<1>3. /\ SubSeq(s, 1, n) \in Seq(S) /\ Len(SubSeq(s, 1, n)) = n
      /\ \A i \in 1..n : SubSeq(s, 1, n)[i] = s[i]
  BY <1>1, <1>2, SubSeqProperties
<1>4. /\ SubSeq(s, n + 1, Len(s)) \in Seq(S)
      /\ Len(SubSeq(s, n + 1, Len(s))) = Len(s) - n
      /\ \A i \in 1..(Len(s) - n) : SubSeq(s, n + 1, Len(s))[i] = s[n + i]
  BY <1>1, <1>2, SubSeqProperties
<1> QED
  BY <1>3, <1>4

(* A word's bytes are items of their own. *)
LEMMA ItemsType ==
  ASSUME NEW bytes \in Seq(Byte)
  PROVE  Items(bytes) \in Seq(Item) /\ Len(Items(bytes)) = Len(bytes)
<1>1. \A b \in Byte : <<b>> \in Item
  BY DEF Item
<1>2. DOMAIN bytes = 1..Len(bytes) /\ Len(bytes) \in Nat
      /\ \A i \in 1..Len(bytes) : bytes[i] \in Byte
  OBVIOUS
<1> QED
  BY <1>1, <1>2 DEF Items

(* A short message is sent as an item. *)
LEMMA WordsAreItems == Words \subseteq Item /\ Words \subseteq Seq(Byte)
<1>1. ASSUME NEW w \in Words PROVE w \in Seq(Byte)
  BY SeqDef DEF Words
<1> QED
  BY <1>1 DEF Item

(* A word made of at most four bytes. *)
LEMMA WordType ==
  ASSUME NEW bytes \in Seq(Byte), Len(bytes) <= 4
  PROVE  /\ Word(bytes) \in Words
         /\ \A i \in 1..Len(bytes) : Word(bytes)[i] = bytes[i]
         /\ \A i \in 1..4 : i > Len(bytes) => Word(bytes)[i] = 0
<1>1. 0 \in Byte
  BY DEF Byte
<1> QED
  BY <1>1 DEF Word, Words

(* The calls without an item. *)
LEMMA CallsType ==
  ASSUME NEW f \in {"begin_sysex", "end_sysex", "write_flush"}
  PROVE  Fn(f) \in DriverCalls /\ <<Fn(f)>> \in Seq(DriverCalls) /\ Fn(f).fn = f
<1>1. <<>> \in Item
  BY DEF Item
<1>2. Fn(f) \in DriverCalls
  BY <1>1 DEF Fn, DriverCalls
<1> QED
  BY <1>2 DEF Fn

(* WriteBytes makes calls of the driver: write_byte, and end_sysex if the  *)
(* bytes have an EOX.                                                      *)
LEMMA WriteBytesType ==
  ASSUME NEW w \in Words, NEW i \in 1..4
  PROVE  /\ WriteBytes(w, i) \in Seq(DriverCalls)
         /\ (\E j \in 1..Len(WriteBytes(w, i)) : WriteBytes(w, i)[j].fn = "end_sysex")
               => \E k \in i..4 : w[k] = MIDI_EOX
<1> DEFINE eox == {k \in i..4 : w[k] = MIDI_EOX}
           bs  == Bytes(w, i)
           wr  == [k \in DOMAIN bs |-> [fn |-> "write_byte", item |-> <<bs[k]>>]]
           end == IF MIDI_EOX \in ToSet(bs) THEN <<Fn("end_sysex")>> ELSE <<>>
<1>1. /\ bs \in Seq(Byte)
      /\ \A j \in 1..Len(bs) : \E k \in i..4 : bs[j] = w[k]
  <2>1. ASSUME NEW n \in i..4
        PROVE  /\ SubSeq(w, i, n) \in Seq(Byte)
               /\ \A j \in 1..Len(SubSeq(w, i, n)) : \E k \in i..4 : SubSeq(w, i, n)[j] = w[k]
    <3>1. \A j \in i..n : w[j] \in Byte
      BY DEF Words
    <3>2. /\ SubSeq(w, i, n) \in Seq(Byte)
          /\ Len(SubSeq(w, i, n)) = n - i + 1
          /\ \A j \in 1..(n - i + 1) : SubSeq(w, i, n)[j] = w[i + j - 1]
      BY <3>1, SubSeqProperties
    <3>3. \A j \in 1..(n - i + 1) : i + j - 1 \in i..4
      OBVIOUS
    <3> QED
      BY <3>2, <3>3
  <2>2. eox # {} => Min(eox) \in i..4
    <3> SUFFICES ASSUME eox # {} PROVE Min(eox) \in eox
      OBVIOUS
    <3>1. eox \subseteq {1, 2, 3, 4}
      OBVIOUS
    <3>2. \E x \in eox : \A y \in eox : x =< y
      BY <3>1
    <3> HIDE DEF eox
    <3> QED
      BY <3>2 DEF Min
  <2>3. (IF eox = {} THEN 4 ELSE Min(eox)) \in i..4
    BY <2>2
  <2> HIDE DEF eox
  <2>4. bs = SubSeq(w, i, IF eox = {} THEN 4 ELSE Min(eox))
    BY DEF Bytes, eox
  <2> HIDE DEF bs
  <2> QED
    BY <2>1, <2>3, <2>4
<1>2. WriteBytes(w, i) = wr \o end
  BY DEF WriteBytes
<1> HIDE DEF bs
<1>3. wr \in Seq(DriverCalls) /\ \A j \in 1..Len(wr) : wr[j].fn = "write_byte"
  <2>1. Len(bs) \in Nat /\ DOMAIN bs = 1..Len(bs) /\ \A k \in 1..Len(bs) : bs[k] \in Byte
    BY <1>1
  <2>2. \A k \in 1..Len(bs) : [fn |-> "write_byte", item |-> <<bs[k]>>] \in DriverCalls
    BY <2>1 DEF DriverCalls, Item
  <2>3. wr \in Seq(DriverCalls) /\ Len(wr) = Len(bs)
    BY <2>1, <2>2
  <2> QED
    BY <2>1, <2>3
<1>4. end \in Seq(DriverCalls)
  BY CallsType
<1>5. ASSUME end # <<>> PROVE \E k \in i..4 : w[k] = MIDI_EOX
  <2>1. MIDI_EOX \in ToSet(bs)
    BY <1>5
  <2>2. \E j \in 1..Len(bs) : bs[j] = MIDI_EOX
    BY <1>1, <2>1 DEF ToSet
  <2> QED
    BY <1>1, <2>2
<1> HIDE DEF wr, end
<1>6. end = <<>> => wr \o end = wr
  BY <1>3, ConcatEmptySeq
<1>7. wr \o end \in Seq(DriverCalls)
  BY <1>3, <1>4
<1> QED
  BY <1>2, <1>3, <1>5, <1>6, <1>7

-----------------------------------------------------------------------------
(* The driver. *)

(* Sending on what a driver holds leaves it a driver with an empty buffer. *)
LEMMA SentType ==
  ASSUME NEW d \in Drivers
  PROVE  /\ Sent(d) \in Drivers /\ Sent(d).hold = <<>>
         /\ Sent(d).fill_base = d.fill_base
<1>1. d.sent \o d.hold \in Seq(Item) /\ <<>> \in Seq(Item)
  BY DEF Drivers
<1> QED
  BY <1>1 DEF Sent, Drivers

(* Storing makes the buffer longer by what is stored. *)
LEMMA StoredType ==
  ASSUME NEW d \in Drivers, NEW items \in Seq(Item)
  PROVE  /\ Stored(d, items) \in Drivers
         /\ Len(Stored(d, items).hold) = Len(d.hold) + Len(items)
         /\ Stored(d, items).fill_base = d.fill_base
<1>1. d.hold \in Seq(Item) /\ d.hold \o items \in Seq(Item)
      /\ Len(d.hold \o items) = Len(d.hold) + Len(items)
  BY DEF Drivers
<1> QED
  BY <1>1 DEF Stored, Drivers

InBounds(d) == d.fill_base => Len(d.hold) <= fill_length

(* A call of the driver keeps its buffer in bounds; end_sysex and          *)
(* write_flush leave it empty.                                             *)
LEMMA CalledType ==
  ASSUME fill_length \in Nat, NEW d \in Drivers, NEW c \in DriverCalls
  PROVE  /\ Called(d, c) \in Drivers
         /\ InBounds(d) => InBounds(Called(d, c))
         /\ c.fn \in {"end_sysex", "write_flush"} => Called(d, c).hold = <<>>
<1>1. c.item \in Item /\ <<c.item>> \in Seq(Item) /\ Len(<<c.item>>) = 1
  BY DEF DriverCalls
<1>2. d.fill_base \in BOOLEAN /\ Len(d.hold) \in Nat
  BY DEF Drivers
<1>3. ASSUME NEW e \in Drivers
      PROVE  /\ [e EXCEPT !.fill_base = FALSE] \in Drivers
             /\ [e EXCEPT !.fill_base = TRUE] \in Drivers
             /\ [e EXCEPT !.fill_base = FALSE].fill_base = FALSE
             /\ [e EXCEPT !.fill_base = FALSE].hold = e.hold
             /\ [e EXCEPT !.fill_base = TRUE].hold = e.hold
  BY DEF Drivers
<1>4. CASE c.fn \in {"begin_sysex", "write_flush"}
  <2>1. Called(d, c) = Sent(d)
    BY <1>4 DEF Called
  <2> QED
    BY <2>1, SentType DEF InBounds
<1>5. CASE c.fn = "end_sysex"
  <2>1. Called(d, c) = [Sent(d) EXCEPT !.fill_base = FALSE]
    BY <1>5 DEF Called
  <2> QED
    BY <1>3, <2>1, SentType DEF InBounds
<1>6. CASE c.fn = "write_short"
  <2> DEFINE e == IF d.fill_base THEN [Sent(d) EXCEPT !.fill_base = FALSE] ELSE d
  <2>1. Called(d, c) = Stored(e, <<c.item>>)
    BY <1>6 DEF Called
  <2>2. e \in Drivers /\ ~e.fill_base
    BY <1>3, SentType
  <2> HIDE DEF e
  <2> QED
    BY <1>1, <1>6, <2>1, <2>2, StoredType DEF InBounds
<1>7. CASE c.fn = "write_realtime"
  <2>1. Called(d, c) = [d EXCEPT !.sent = Append(d.sent, c.item)]
    BY <1>7 DEF Called
  <2>2. Append(d.sent, c.item) \in Seq(Item)
    BY <1>1 DEF Drivers
  <2> QED
    BY <1>7, <2>1, <2>2 DEF Drivers, InBounds
<1>8. CASE c.fn = "write_byte" /\ fill_length = 0
  <2>1. Called(d, c) = Sent(Stored(d, <<c.item>>))
    BY <1>8 DEF Called
  <2>2. Stored(d, <<c.item>>) \in Drivers
    BY <1>1, StoredType
  <2> QED
    BY <1>8, <2>1, <2>2, SentType DEF InBounds
<1>9. CASE c.fn = "write_byte" /\ fill_length > 0
  <2> DEFINE e == IF Len(d.hold) >= fill_length THEN Sent(d) ELSE d
  <2>1. Called(d, c) = [Stored(e, <<c.item>>) EXCEPT !.fill_base = TRUE]
    BY <1>9 DEF Called
  <2>2. e \in Drivers /\ Len(e.hold) < fill_length /\ Len(e.hold) \in Nat
    BY <1>2, <1>9, SentType
  <2> HIDE DEF e
  <2>3. Stored(e, <<c.item>>) \in Drivers /\ Len(Stored(e, <<c.item>>).hold) <= fill_length
    BY <1>1, <2>2, StoredType
  <2> QED
    BY <1>3, <1>9, <2>1, <2>3 DEF InBounds
<1> QED
  BY <1>4, <1>5, <1>6, <1>7, <1>8, <1>9 DEF DriverCalls

-----------------------------------------------------------------------------
(* At first no call is under way, and nothing is held. *)
LEMMA InitInv == Init => Inv
<1> SUFFICES ASSUME Init PROVE Inv
  OBVIOUS
<1>1. driver \in Drivers /\ driver.fill_base = FALSE /\ driver.hold = <<>>
  BY DEF Init, Drivers
<1>2. fill_length \in Nat
  BY PmOutputAssumption DEF Init
<1>3. /\ sysex_in_progress = FALSE /\ todo = <<>> /\ pc = "idle"
      /\ op = "Pm_Write" /\ msg = <<>> /\ buffer = <<>> /\ answer = "ok"
  BY DEF Init
<1>4. <<>> \in Seq(DriverCalls) /\ <<>> \in Seq(Byte) /\ <<>> \in Seq(Words)
  OBVIOUS
<1>5. OutputTypeOK
  BY <1>1, <1>2, <1>3, <1>4 DEF OutputTypeOK
<1>6. Position
  BY <1>3 DEF Position
<1> QED
  BY <1>1, <1>5, <1>6 DEF Inv, FillInBounds, AllIsFlushed

(* A return leaves nothing to be done. *)
LEMMA ReturnInv ==
  ASSUME Inv, NEW a \in {"ok", "bad", "host"}, Return(a),
         fill_length' = fill_length, driver' \in Drivers, InBounds(driver'),
         sysex_in_progress' \in BOOLEAN,
         a = "ok" /\ ~sysex_in_progress' => driver'.hold = <<>>
  PROVE  Inv'
<1> USE DEF Inv, Return
<1>1. OutputTypeOK'
  <2>1. todo' = <<>> /\ msg' = <<>> /\ buffer' = <<>> /\ pc' = "idle"
        /\ answer' = a /\ op' = op
    OBVIOUS
  <2>2. <<>> \in Seq(DriverCalls) /\ <<>> \in Seq(Byte) /\ <<>> \in Seq(Words)
    OBVIOUS
  <2> HIDE DEF Return
  <2> QED
    BY <2>1, <2>2 DEF OutputTypeOK
<1>2. Position'
  BY DEF Position
<1> QED
  BY <1>1, <1>2 DEF FillInBounds, AllIsFlushed, InBounds

(* The calls that the driver gets next. *)
LEMMA DriveInv ==
  ASSUME Inv, Drive
  PROVE  Inv'
<1> USE DEF Inv
<1> DEFINE c == Head(todo)
<1>1. /\ c \in DriverCalls /\ Tail(todo) \in Seq(DriverCalls) /\ todo # <<>>
      /\ fill_length' = fill_length /\ sysex_in_progress' \in BOOLEAN
  <2>1. todo \in Seq(DriverCalls) /\ todo # <<>>
    BY DEF OutputTypeOK, Drive
  <2>2. fill_length' = fill_length
        /\ sysex_in_progress' = (sysex_in_progress /\ c.fn # "end_sysex")
    BY DEF Drive
  <2> QED
    BY <2>1, <2>2
<1>2. CASE /\ driver' = Called(driver, c)
           /\ todo' = Tail(todo)
           /\ UNCHANGED <<pc, op, msg, buffer, buffer_size, answer, calls, faults>>
  <2>1. /\ driver' \in Drivers /\ InBounds(driver)
        /\ InBounds(driver) => InBounds(driver')
        /\ c.fn \in {"end_sysex", "write_flush"} => driver'.hold = <<>>
    BY <1>1, <1>2, CalledType DEF OutputTypeOK, FillInBounds, InBounds
  <2>2. OutputTypeOK'
    BY <1>1, <1>2, <2>1 DEF OutputTypeOK
  <2>3. pc = "flush" => c.fn = "write_flush" /\ Tail(todo) = <<>>
    <3> SUFFICES ASSUME pc = "flush" PROVE c.fn = "write_flush" /\ Tail(todo) = <<>>
      OBVIOUS
    <3>1. todo = <<Fn("write_flush")>>
      BY <1>1 DEF Position, FlushCalls
    <3> QED
      BY <3>1, CallsType
  <2>4. pc = "end" => c.fn = "end_sysex" /\ Tail(todo) = <<>>
    <3> SUFFICES ASSUME pc = "end" PROVE c.fn = "end_sysex" /\ Tail(todo) = <<>>
      OBVIOUS
    <3>1. todo = <<Fn("end_sysex")>>
      BY <1>1 DEF Position
    <3> QED
      BY <3>1, CallsType
  <2>5. pc \notin {"idle", "gather", "fill"}
    BY <1>1 DEF Position
  <2>6. Position'
    BY <1>2, <2>1, <2>3, <2>4, <2>5 DEF Position
  <2> QED
    BY <1>1, <1>2, <2>1, <2>2, <2>5, <2>6 DEF FillInBounds, AllIsFlushed, InBounds
<1>3. CASE Return("host") /\ UNCHANGED driver
  BY <1>1, <1>3, ReturnInv DEF OutputTypeOK, FillInBounds, InBounds
<1> QED
  BY <1>2, <1>3 DEF Drive

(* The calls of the program. *)
LEMMA CallInv ==
  ASSUME Inv,
         \/ \E events \in Buffers : Pm_Write(events)
         \/ \E w \in Shorts : Pm_WriteShort(w)
         \/ \E s \in Sysexes : Pm_WriteSysEx(s)
         \/ Pm_Abort
  PROVE  Inv'
<1> USE DEF Inv
<1>1. todo = <<>>
  BY DEF Pm_Write, Pm_WriteShort, Pm_WriteSysEx, Pm_Abort, Call, Position
<1>2. ASSUME NEW events \in Seq(Words), NEW f \in {"Pm_Write", "Pm_WriteShort"},
             Call(f), pc' = "write", buffer' = events,
             UNCHANGED <<todo, msg, buffer_size>>
      PROVE  Inv'
  <2>1. UNCHANGED <<fill_length, driver, sysex_in_progress, answer, todo, msg>>
        /\ op' = f
    BY <1>2 DEF Call
  <2>2. OutputTypeOK'
    BY <1>2, <2>1 DEF OutputTypeOK
  <2> QED
    BY <1>2, <2>1, <2>2 DEF Position, FillInBounds, AllIsFlushed
<1>3. CASE \E events \in Buffers : Pm_Write(events)
  BY <1>2, <1>3, PmOutputAssumption DEF Pm_Write, Words
<1>4. CASE \E w \in Shorts : Pm_WriteShort(w)
  <2>1. PICK w \in Shorts : Pm_WriteShort(w)
    BY <1>4
  <2>2. <<w>> \in Seq(Words)
    BY PmOutputAssumption DEF Words
  <2> QED
    BY <1>2, <2>1, <2>2 DEF Pm_WriteShort
<1>5. CASE \E s \in Sysexes : Pm_WriteSysEx(s)
  <2>1. PICK s \in Sysexes : Pm_WriteSysEx(s)
    BY <1>5
  <2>2. s \in Seq(Byte) /\ s # <<>>
    BY PmOutputAssumption
  <2>3. /\ UNCHANGED <<fill_length, driver, sysex_in_progress, answer, todo, buffer>>
        /\ op' = "Pm_WriteSysEx" /\ pc' = "gather" /\ msg' = s
    BY <2>1 DEF Pm_WriteSysEx, Call
  <2>4. OutputTypeOK'
    BY <2>2, <2>3 DEF OutputTypeOK
  <2> QED
    BY <1>1, <2>2, <2>3, <2>4 DEF Position, FillInBounds, AllIsFlushed
<1>6. CASE Pm_Abort
  <2>1. /\ driver' \in Drivers /\ driver'.hold = <<>> /\ ~driver'.fill_base
        /\ UNCHANGED <<fill_length, sysex_in_progress, call>> /\ pc = "idle"
    <3>1. <<>> \in Seq(Item)
      OBVIOUS
    <3> QED
      BY <1>6, <3>1 DEF Pm_Abort, OutputTypeOK, Drivers
  <2>2. OutputTypeOK'
    BY <2>1 DEF OutputTypeOK, call
  <2> QED
    BY <2>1, <2>2 DEF Position, FillInBounds, AllIsFlushed, call
<1> QED
  BY <1>3, <1>4, <1>5, <1>6

(* The calls an event leads to. *)
LEMMA DoInv ==
  ASSUME Inv, pc = "write", buffer # <<>>, NEW cs \in Seq(DriverCalls), Do(cs),
         sysex_in_progress' \in BOOLEAN
  PROVE  Inv'
<1> USE DEF Inv
<1>1. UNCHANGED <<fill_length, driver, pc, op, msg, answer>>
      /\ buffer' = Tail(buffer) /\ todo' = cs
  BY DEF Do
<1>2. Tail(buffer) \in Seq(Words)
  BY DEF OutputTypeOK
<1>3. OutputTypeOK'
  BY <1>1, <1>2 DEF OutputTypeOK
<1> QED
  BY <1>1, <1>3 DEF Position, FillInBounds, AllIsFlushed

(* The first event is a word of bytes. *)
LEMMA EventType ==
  ASSUME OutputTypeOK, buffer # <<>>
  PROVE  /\ Event \in Words /\ \A k \in 1..4 : Event[k] \in Byte
         /\ Event = buffer[1]
BY DEF OutputTypeOK, Event, Words

(* The calls that the kinds of events lead to. *)
LEMMA EventCallsType ==
  ASSUME OutputTypeOK, buffer # <<>>
  PROVE  /\ SysexCalls \in Seq(DriverCalls)
         /\ <<[fn |-> "write_short", item |-> Event]>> \in Seq(DriverCalls)
         /\ <<[fn |-> "write_realtime", item |-> Event]>>
              \o [k \in 1..4 |-> [fn |-> "write_byte", item |-> Echo(Event[k])]]
            \in Seq(DriverCalls)
         /\ WriteBytes(Event, 1) \in Seq(DriverCalls)
<1>1. Event \in Item /\ Event \in Words
  BY EventType, WordsAreItems
<1>2. <<MIDI_SYSEX>> \in Item
  BY DEF Item, MIDI_SYSEX, Byte
<1>3. /\ [fn |-> "write_short", item |-> Event] \in DriverCalls
      /\ [fn |-> "write_realtime", item |-> Event] \in DriverCalls
      /\ [fn |-> "write_byte", item |-> <<MIDI_SYSEX>>] \in DriverCalls
  BY <1>1, <1>2 DEF DriverCalls
<1>4. [k \in 1..4 |-> [fn |-> "write_byte", item |-> Echo(Event[k])]] \in Seq(DriverCalls)
  <2>1. \A k \in 1..4 : Echo(Event[k]) \in Item
    BY EventType DEF Item
  <2>2. \A k \in 1..4 : [fn |-> "write_byte", item |-> Echo(Event[k])] \in DriverCalls
    BY <2>1 DEF DriverCalls
  <2> QED
    BY <2>2
<1>5. WriteBytes(Event, 1) \in Seq(DriverCalls) /\ WriteBytes(Event, 2) \in Seq(DriverCalls)
  BY <1>1, WriteBytesType
<1>6. <<Fn("begin_sysex"), [fn |-> "write_byte", item |-> <<MIDI_SYSEX>>]>>
        \in Seq(DriverCalls)
  BY <1>3, CallsType
<1>7. SysexCalls \in Seq(DriverCalls)
  BY <1>5, <1>6 DEF SysexCalls, SysexFrom
<1>8. <<[fn |-> "write_realtime", item |-> Event]>> \in Seq(DriverCalls)
      /\ <<[fn |-> "write_short", item |-> Event]>> \in Seq(DriverCalls)
  BY <1>3
<1> QED
  BY <1>4, <1>5, <1>7, <1>8

(* Each kind of event. *)
LEMMA WriteEventInv ==
  ASSUME Inv, WriteEvent
  PROVE  Inv'
<1> USE DEF Inv
<1>1. pc = "write" /\ todo = <<>> /\ buffer # <<>>
  BY DEF WriteEvent
<1>2. sysex_in_progress \in BOOLEAN /\ driver \in Drivers /\ InBounds(driver)
      /\ fill_length \in Nat
  BY DEF OutputTypeOK, FillInBounds, InBounds
<1>3. CASE BeginSysex
  <2>1. Do(SysexCalls) /\ sysex_in_progress' \in BOOLEAN
    BY <1>3 DEF BeginSysex
  <2> QED
    BY <1>1, <2>1, DoInv, EventCallsType
<1>4. CASE RefuseSysex
  BY <1>2, <1>4, ReturnInv DEF RefuseSysex
<1>5. CASE WriteMessage
  <2>1. /\ Do(<<[fn |-> "write_short", item |-> Event]>>)
        /\ sysex_in_progress' \in BOOLEAN
    BY <1>2, <1>5 DEF WriteMessage
  <2> QED
    BY <1>1, <2>1, DoInv, EventCallsType
<1>6. CASE WriteEmbedded
  <2>1. /\ Do(<<[fn |-> "write_realtime", item |-> Event]>>
                \o [k \in 1..4 |-> [fn |-> "write_byte", item |-> Echo(Event[k])]])
        /\ sysex_in_progress' \in BOOLEAN
    BY <1>2, <1>6 DEF WriteEmbedded
  <2> QED
    BY <1>1, <2>1, DoInv, EventCallsType
<1>7. CASE RefuseMessage
  <2>1. /\ Return("bad") /\ fill_length' = fill_length
        /\ sysex_in_progress' \in BOOLEAN
        /\ driver' = Called(driver, Fn("end_sysex")) \/ driver' = driver
    BY <1>7 DEF RefuseMessage, LeavesSysex
  <2>2. driver' \in Drivers /\ InBounds(driver')
    <3>1. Called(driver, Fn("end_sysex")) \in Drivers
          /\ InBounds(Called(driver, Fn("end_sysex")))
      BY <1>2, CalledType, CallsType
    <3> QED
      BY <1>2, <2>1, <3>1 DEF InBounds
  <2> QED
    BY <2>1, <2>2, ReturnInv DEF InBounds
<1>8. CASE StoreWord
  <2>1. /\ driver' = Stored(driver, Items(Event)) /\ buffer' = Tail(buffer)
        /\ UNCHANGED <<fill_length, sysex_in_progress, todo, pc, op, msg, answer>>
        /\ fill_length - Len(driver.hold) >= 4
    BY <1>8 DEF StoreWord, Fits, Room
  <2>2. Event \in Seq(Byte) /\ Len(Event) = 4
    BY <1>1, EventType, WordsAreItems DEF Words
  <2>3. Items(Event) \in Seq(Item) /\ Len(Items(Event)) = 4
    BY <2>2, ItemsType
  <2>4. driver' \in Drivers /\ Len(driver'.hold) = Len(driver.hold) + 4
    BY <1>2, <2>1, <2>3, StoredType
  <2>5. Len(driver'.hold) <= fill_length
    BY <1>2, <2>1, <2>4 DEF Drivers
  <2>6. Tail(buffer) \in Seq(Words)
    BY <1>1 DEF OutputTypeOK
  <2>7. OutputTypeOK'
    BY <2>1, <2>4, <2>6 DEF OutputTypeOK
  <2> QED
    BY <1>1, <2>1, <2>5, <2>7 DEF Position, FillInBounds, AllIsFlushed
<1>9. CASE WriteData
  <2>1. Do(WriteBytes(Event, 1)) /\ sysex_in_progress' \in BOOLEAN
    BY <1>2, <1>9 DEF WriteData
  <2> QED
    BY <1>1, <2>1, DoInv, EventCallsType
<1>10. CASE RefuseData
  BY <1>2, <1>10, ReturnInv DEF RefuseData
<1> QED
  BY <1>3, <1>4, <1>5, <1>6, <1>7, <1>8, <1>9, <1>10 DEF WriteEvent

(* How a function goes on after Pm_Write. *)
LEMMA WrittenInv ==
  ASSUME Inv, Written, pc \in {"write", "flush"}, todo = <<>>, buffer = <<>>,
         sysex_in_progress \/ driver.hold = <<>>,
         UNCHANGED <<fill_length, driver, sysex_in_progress, faults>>
  PROVE  Inv'
<1> USE DEF Inv
<1>1. CASE op # "Pm_WriteSysEx" \/ msg = <<>>
  <2>1. Return("ok")
    BY <1>1 DEF Written
  <2> QED
    BY <2>1, ReturnInv DEF OutputTypeOK, FillInBounds, InBounds
<1>2. CASE ~(op # "Pm_WriteSysEx" \/ msg = <<>>)
  <2>1. /\ pc' = IF driver.fill_base THEN "fill" ELSE "gather"
        /\ UNCHANGED <<todo, op, msg, buffer, answer>>
    BY <1>2 DEF Written
  <2>2. pc' \in {"fill", "gather"} /\ (pc' = "fill" => driver.fill_base)
    BY <2>1
  <2>3. OutputTypeOK'
    BY <2>1, <2>2 DEF OutputTypeOK
  <2> QED
    BY <1>2, <2>1, <2>2, <2>3 DEF Position, FillInBounds, AllIsFlushed
<1> QED
  BY <1>1, <1>2

(* The end of Pm_Write, with its flush. *)
LEMMA EndInv ==
  ASSUME Inv, EndWrite \/ Flushed \/ FilledUp
  PROVE  Inv'
<1> USE DEF Inv
<1>1. CASE EndWrite
  <2>1. /\ pc = "write" /\ todo = <<>> /\ buffer = <<>>
        /\ UNCHANGED <<fill_length, driver, sysex_in_progress, faults>>
    BY <1>1 DEF EndWrite
  <2>2. CASE sysex_in_progress
    <3>1. Written
      BY <1>1, <2>2 DEF EndWrite
    <3> QED
      BY <2>1, <2>2, <3>1, WrittenInv
  <2>3. CASE ~sysex_in_progress
    <3>1. /\ pc' = "flush" /\ todo' = FlushCalls
          /\ UNCHANGED <<op, msg, buffer, answer>>
      BY <1>1, <2>3 DEF EndWrite
    <3>2. FlushCalls \in Seq(DriverCalls)
      BY CallsType DEF FlushCalls
    <3>3. OutputTypeOK'
      BY <2>1, <3>1, <3>2 DEF OutputTypeOK
    <3> HIDE DEF Inv
    <3>4. Position'
      BY <2>1, <3>1 DEF Position, FlushCalls
    <3>5. FillInBounds'
      BY <2>1 DEF FillInBounds, Inv
    <3> QED
      BY <3>1, <3>3, <3>4, <3>5 DEF AllIsFlushed, Inv
  <2> QED
    BY <2>2, <2>3
<1>2. CASE Flushed
  <2>1. driver.hold = <<>> /\ buffer = <<>>
    <3>1. pc = "flush" /\ todo = <<>>
      BY <1>2 DEF Flushed
    <3> QED
      BY <3>1 DEF Position, FlushCalls
  <2> QED
    BY <1>2, <2>1, WrittenInv DEF Flushed
<1>3. CASE FilledUp
  <2>1. driver.hold = <<>>
    <3>1. pc = "end" /\ todo = <<>>
      BY <1>3 DEF FilledUp
    <3> QED
      BY <3>1 DEF Position
  <2> QED
    BY <1>3, <2>1, ReturnInv DEF FilledUp, OutputTypeOK, FillInBounds, InBounds
<1> QED
  BY <1>1, <1>2, <1>3

(* A word of Pm_WriteSysEx. *)
LEMMA GatherInv ==
  ASSUME Inv, Gather
  PROVE  Inv'
<1> USE DEF Inv
<1> DEFINE n == Min({4, Len(msg)})
           w == Word(SubSeq(msg, 1, n))
<1>1. /\ pc = "gather" /\ buffer' = Append(buffer, w)
      /\ msg' = SubSeq(msg, n + 1, Len(msg))
      /\ pc' = IF n = Len(msg) \/ Len(Append(buffer, w)) = buffer_size
               THEN "write" ELSE "gather"
      /\ UNCHANGED <<fill_length, driver, sysex_in_progress, todo, op, answer>>
  BY DEF Gather
<1>2. msg \in Seq(Byte) /\ Len(msg) \in Nat
  BY DEF OutputTypeOK
<1>3. n \in Nat /\ n <= 4 /\ n <= Len(msg)
  BY <1>2, MinOfTwo
<1> HIDE DEF n
<1>4. /\ SubSeq(msg, 1, n) \in Seq(Byte) /\ Len(SubSeq(msg, 1, n)) = n
      /\ msg' \in Seq(Byte) /\ Len(msg') = Len(msg) - n
  BY <1>1, <1>2, <1>3, Split
<1>5. w \in Words
  BY <1>3, <1>4, WordType
<1> HIDE DEF w
<1>6. buffer' \in Seq(Words)
  BY <1>1, <1>5 DEF OutputTypeOK
<1>7. pc' \in {"write", "gather"} /\ (pc' = "gather" => n # Len(msg))
  BY <1>1
<1>8. pc' = "gather" => msg' # <<>>
  BY <1>2, <1>3, <1>4, <1>7
<1>9. OutputTypeOK'
  BY <1>1, <1>4, <1>6, <1>7 DEF OutputTypeOK
<1> QED
  BY <1>1, <1>7, <1>8, <1>9 DEF Position, FillInBounds, AllIsFlushed

(* The driver's buffer is filled with what is left, or up to its end. *)
LEMMA FillInv ==
  ASSUME Inv, Fill
  PROVE  Inv'
<1> USE DEF Inv
<1> DEFINE n == Min({Room, Len(msg)})
           items == Items(SubSeq(msg, 1, n))
<1>1. /\ pc = "fill" /\ driver' = Stored(driver, items)
      /\ msg' = SubSeq(msg, n + 1, Len(msg))
      /\ \/ msg' # <<>> /\ pc' = "gather" /\ todo' = todo
         \/ pc' = "end" /\ todo' = <<Fn("end_sysex")>>
      /\ UNCHANGED <<fill_length, sysex_in_progress, op, buffer, answer>>
  BY DEF Fill, Primed
<1>2. msg \in Seq(Byte) /\ Len(msg) \in Nat
  BY DEF OutputTypeOK
<1>3. driver.fill_base /\ Len(driver.hold) \in Nat /\ fill_length \in Nat
      /\ driver \in Drivers
  BY <1>1 DEF OutputTypeOK, Drivers, Position
<1>4. Room \in Nat
  BY <1>3 DEF Room, FillInBounds
<1>5. n \in Nat /\ n <= Room /\ n <= Len(msg)
  BY <1>2, <1>4, MinOfTwo
<1> HIDE DEF n
<1>6. SubSeq(msg, 1, n) \in Seq(Byte) /\ Len(SubSeq(msg, 1, n)) = n
      /\ msg' \in Seq(Byte)
  BY <1>1, <1>2, <1>5, Split
<1>7. items \in Seq(Item) /\ Len(items) = n
  BY <1>6, ItemsType
<1> HIDE DEF items
<1>8. driver' \in Drivers /\ Len(driver'.hold) = Len(driver.hold) + n
  BY <1>1, <1>3, <1>7, StoredType
<1>9. Len(driver'.hold) <= fill_length
  BY <1>3, <1>5, <1>8 DEF Room
<1>10. todo' \in Seq(DriverCalls) /\ pc' \in {"gather", "end"}
  <2>1. todo \in Seq(DriverCalls) /\ <<Fn("end_sysex")>> \in Seq(DriverCalls)
    BY CallsType DEF OutputTypeOK
  <2> QED
    BY <1>1, <2>1
<1>11. OutputTypeOK'
  BY <1>1, <1>6, <1>8, <1>10 DEF OutputTypeOK
<1> QED
  BY <1>1, <1>9, <1>11 DEF Position, FillInBounds, AllIsFlushed

(* Every step keeps the invariant. *)
LEMMA NextInv == Inv /\ [Next]_vars => Inv'
<1> SUFFICES ASSUME Inv, [Next]_vars PROVE Inv'
  OBVIOUS
<1>1. CASE Next
  <2>1. CASE Step
    BY <2>1, DriveInv, WriteEventInv, EndInv, GatherInv, FillInv DEF Step
  <2> QED
    BY <1>1, <2>1, CallInv DEF Next
<1>2. CASE UNCHANGED vars
  BY <1>2 DEF vars, call, Inv, OutputTypeOK, Position, FillInBounds, AllIsFlushed
<1> QED
  BY <1>1, <1>2

(* Inv is an invariant of every sequence of calls and failures. *)
THEOREM InvHolds == Spec => []Inv
BY InitInv, NextInv, PTL DEF Spec

-----------------------------------------------------------------------------
(* The short cuts never store past the end of the driver's buffer, whatever *)
(* its size and whatever is written: neither Pm_Write's four bytes at a     *)
(* time nor Pm_WriteSysEx's loop, which checks only when it begins.         *)
THEOREM ShortCutsStayInBounds == Spec => []FillInBounds
BY InvHolds, PTL DEF Inv

(* A call that succeeds leaves nothing in the driver's buffer, unless it    *)
(* ends in the middle of a sysex.                                           *)
THEOREM SuccessIsFlushed == Spec => []AllIsFlushed
BY InvHolds, PTL DEF Inv

-----------------------------------------------------------------------------
(* RefusedOnce: InOrderAgain is kept by every step.                        *)

(* A sysex, or what is left of one: EOX is at its end and nowhere else, and *)
(* after the first byte there is no other status.                          *)
Body(m) ==
  /\ m # <<>> /\ m[Len(m)] = MIDI_EOX
  /\ \A i \in 1..Len(m) : m[i] = MIDI_EOX => i = Len(m)
  /\ \A i \in 2..Len(m) : i # Len(m) => ~IsStatus(m[i])

(* A whole sysex, and what is left of one. *)
LEMMA BodyOfSysex ==
  /\ \A m \in Sysexes : Body(m) /\ m[1] = MIDI_SYSEX /\ m \in Seq(Byte)
  /\ \A m \in Seq(Byte) : m # <<>> /\ Data(m) =>
       Body(m) /\ (~IsStatus(m[1]) \/ m[1] = MIDI_EOX)
<1>1. ASSUME NEW m \in Sysexes
      PROVE  Body(m) /\ m[1] = MIDI_SYSEX /\ m \in Seq(Byte)
  <2>1. /\ m \in Seq(Byte) /\ Len(m) > 1 /\ m[1] = MIDI_SYSEX /\ m[Len(m)] = MIDI_EOX
        /\ \A i \in 2..(Len(m) - 1) : ~IsStatus(m[i])
    BY PmOutputAssumption
  <2>2. \A i \in 2..Len(m) : i # Len(m) => ~IsStatus(m[i])
    BY <2>1
  <2>3. ASSUME NEW i \in 1..Len(m), m[i] = MIDI_EOX PROVE i = Len(m)
    <3>1. i # 1
      BY <2>1, <2>3 DEF MIDI_EOX, MIDI_SYSEX
    <3>2. i \in 2..Len(m)
      BY <3>1
    <3> QED
      BY <2>2, <2>3, <3>2 DEF IsStatus, MIDI_EOX
  <2>4. m # <<>>
    BY <2>1
  <2> QED
    BY <2>1, <2>2, <2>3, <2>4 DEF Body
<1>2. ASSUME NEW m \in Seq(Byte), m # <<>>, Data(m)
      PROVE  Body(m) /\ (~IsStatus(m[1]) \/ m[1] = MIDI_EOX)
  <2>1. Len(m) \in Nat \ {0}
    BY <1>2
  <2>2. \A i \in 1..Len(m) : i # Len(m) => ~IsStatus(m[i])
    BY <1>2 DEF Data
  <2>3. m[Len(m)] = MIDI_EOX
    BY <1>2, <2>1 DEF Data
  <2>4. \A i \in 1..Len(m) : m[i] = MIDI_EOX => i = Len(m)
    BY <2>2 DEF IsStatus, MIDI_EOX
  <2>5. ~IsStatus(m[1]) \/ m[1] = MIDI_EOX
    BY <2>1, <2>2, <2>3
  <2> QED
    BY <1>2, <2>2, <2>3, <2>4, <2>5 DEF Body
<1> QED
  BY <1>1, <1>2

(* A word gathered from it, and what is left after that. *)
LEMMA GatheredWord ==
  ASSUME NEW m \in Seq(Byte), Body(m), NEW n \in 1..4, n <= Len(m),
         n = 4 \/ n = Len(m)
  PROVE  /\ Data(SubSeq(m, n + 1, Len(m)))
         /\ Word(SubSeq(m, 1, n))[1] = m[1]
         /\ \A k \in 1..4 : Word(SubSeq(m, 1, n))[k] = MIDI_EOX =>
              SubSeq(m, n + 1, Len(m)) = <<>>
<1> DEFINE b == SubSeq(m, 1, n)
           r == SubSeq(m, n + 1, Len(m))
<1>1. /\ b \in Seq(Byte) /\ Len(b) = n /\ \A i \in 1..n : b[i] = m[i]
      /\ r \in Seq(Byte) /\ Len(r) = Len(m) - n
      /\ \A i \in 1..(Len(m) - n) : r[i] = m[n + i]
  BY Split
<1> HIDE DEF b, r
<1>2. /\ \A i \in 1..n : Word(b)[i] = m[i]
      /\ \A i \in 1..4 : i > n => Word(b)[i] = 0
  <2>1. /\ \A i \in 1..Len(b) : Word(b)[i] = b[i]
        /\ \A i \in 1..4 : i > Len(b) => Word(b)[i] = 0
    BY <1>1, WordType
  <2> QED
    BY <1>1, <2>1
<1>3. Data(r)
  <2> SUFFICES ASSUME NEW i \in 1..Len(r)
               PROVE  IF i = Len(r) THEN r[i] = MIDI_EOX ELSE ~IsStatus(r[i])
    BY DEF Data
  <2>1. n + i \in 2..Len(m) /\ (i = Len(r) <=> n + i = Len(m)) /\ r[i] = m[n + i]
    BY <1>1
  <2> QED
    BY <2>1 DEF Body
<1>4. ASSUME NEW k \in 1..4, Word(b)[k] = MIDI_EOX PROVE r = <<>>
  <2>1. k <= n
    BY <1>2, <1>4 DEF MIDI_EOX
  <2>2. k = Len(m)
    BY <1>2, <1>4, <2>1 DEF Body
  <2>3. Len(r) = 0
    BY <1>1, <2>1, <2>2
  <2> QED
    BY <1>1, <2>3
<1> QED
  BY <1>2, <1>3, <1>4 DEF b, r

(* Nothing more is left after a step of the driver, and no sysex begins. *)
LEMMA DriveOrder ==
  ASSUME Inv, InOrderAgain, Drive
  PROVE  InOrderAgain'
<1> SUFFICES ASSUME answer' = "bad" PROVE InOrderAgain'
  BY DEF InOrderAgain
<1> DEFINE c == Head(todo)
<1>1. /\ todo' = Tail(todo) /\ UNCHANGED <<pc, op, msg, buffer, buffer_size, answer>>
      /\ sysex_in_progress' = (sysex_in_progress /\ c.fn # "end_sysex")
      /\ todo # <<>> /\ todo \in Seq(DriverCalls)
  BY DEF Drive, Return, Inv, OutputTypeOK
<1>2. sysex_in_progress' => sysex_in_progress
  BY <1>1
<1>3. ASSUME ~Ending PROVE ~Ending' /\ sysex_in_progress' = sysex_in_progress
  <2>1. \A i \in 1..Len(todo) : todo[i].fn # "end_sysex"
    BY <1>1, <1>3 DEF Ending
  <2>2. c = todo[1] /\ 1 \in 1..Len(todo)
    BY <1>1
  <2>3. c.fn # "end_sysex"
    BY <2>1, <2>2
  <2>4. /\ Len(todo') = Len(todo) - 1 /\ todo' \in Seq(DriverCalls)
        /\ \A i \in 1..Len(todo') : todo'[i] = todo[i + 1] /\ i + 1 \in 1..Len(todo)
    BY <1>1
  <2>5. ~Ending'
    BY <2>1, <2>4 DEF Ending
  <2> QED
    BY <1>1, <2>3, <2>5 DEF Inv, OutputTypeOK
<1>4. answer = "bad"
  BY <1>1
<1>5. ASSUME ShortAhead PROVE ShortAhead'
  BY <1>1, <1>2, <1>5 DEF ShortAhead
<1>6. ASSUME SysexUnderWay PROVE SysexUnderWay'
  BY <1>1, <1>3, <1>6 DEF SysexUnderWay, EoxIsLast
<1>7. ~SysexAhead
  BY <1>1 DEF SysexAhead
<1>8. NothingLeft => NothingLeft'
  BY <1>1 DEF NothingLeft
<1> HIDE DEF c
<1> QED
  BY <1>1, <1>2, <1>4, <1>5, <1>6, <1>7, <1>8 DEF InOrderAgain

(* Before a call there is nothing; a whole message is then ahead. *)
LEMMA CallOrder ==
  ASSUME Inv, InOrderAgain,
         \/ \E events \in Buffers : Pm_Write(events)
         \/ \E w \in Shorts : Pm_WriteShort(w)
         \/ \E s \in Sysexes : Pm_WriteSysEx(s)
         \/ Pm_Abort
  PROVE  InOrderAgain'
<1> SUFFICES ASSUME answer = "bad" PROVE InOrderAgain'
  BY DEF InOrderAgain, Pm_Write, Pm_WriteShort, Pm_WriteSysEx, Pm_Abort, Call, call
<1>1. pc = "idle" /\ ~sysex_in_progress /\ sysex_in_progress' = sysex_in_progress
      /\ todo = <<>> /\ buffer = <<>> /\ todo' = todo
  BY DEF InOrderAgain, Pm_Write, Pm_WriteShort, Pm_WriteSysEx, Pm_Abort, Call,
         call, Inv, Position
<1>2. CASE \E events \in Buffers : Pm_Write(events)
  BY <1>2 DEF Pm_Write, Call, InOrderAgain
<1>3. CASE \E w \in Shorts : Pm_WriteShort(w)
  <2>1. PICK w \in Shorts : Pm_WriteShort(w)
    BY <1>3
  <2>2. IsStatus(w[1]) /\ w[1] # MIDI_EOX
    BY PmOutputAssumption
  <2>3. buffer' = <<w>> /\ op' = "Pm_WriteShort" /\ pc' = "write"
    BY <2>1 DEF Pm_WriteShort, Call
  <2>4. ShortAhead'
    BY <1>1, <2>2, <2>3 DEF ShortAhead
  <2> QED
    BY <2>3, <2>4 DEF InOrderAgain
<1>4. CASE \E s \in Sysexes : Pm_WriteSysEx(s)
  <2>1. PICK s \in Sysexes : Pm_WriteSysEx(s)
    BY <1>4
  <2>2. /\ op' = "Pm_WriteSysEx" /\ pc' = "gather" /\ msg' = s /\ buffer' = buffer
        /\ buffer_size' = 1
    BY <2>1 DEF Pm_WriteSysEx, Call
  <2>3. SysexAhead'
    BY <1>1, <2>2 DEF SysexAhead
  <2> QED
    BY <2>2, <2>3 DEF InOrderAgain
<1>5. CASE Pm_Abort
  BY <1>1, <1>5 DEF Pm_Abort, call, InOrderAgain
<1> QED
  BY <1>2, <1>3, <1>4, <1>5

(* While a whole message follows a refusal, no event is refused. *)
LEMMA NoRefusal ==
  ASSUME Inv, InOrderAgain, WriteEvent, answer = "bad",
         op \in {"Pm_WriteShort", "Pm_WriteSysEx"}
  PROVE  ~RefuseSysex /\ ~RefuseMessage /\ ~RefuseData
<1>1. pc = "write" /\ todo = <<>> /\ buffer # <<>> /\ Event = buffer[1]
  BY DEF WriteEvent, Event, Inv, OutputTypeOK
<1>2. ASSUME ShortAhead PROVE ~RefuseSysex /\ ~RefuseMessage /\ ~RefuseData
  BY <1>1, <1>2 DEF ShortAhead, RefuseSysex, RefuseMessage, RefuseData, IsSysexData
<1>3. ASSUME SysexAhead PROVE ~RefuseSysex /\ ~RefuseMessage /\ ~RefuseData
  BY <1>1, <1>3 DEF SysexAhead, RefuseSysex, RefuseMessage, RefuseData, IsSysexData,
                    IsStatus, MIDI_SYSEX, MIDI_EOX
<1>4. ASSUME SysexUnderWay PROVE ~RefuseSysex /\ ~RefuseMessage /\ ~RefuseData
  <2>1. 1 \in 1..Len(buffer)
    BY <1>1 DEF Inv, OutputTypeOK
  <2>2. ~IsStatus(buffer[1][1]) \/ buffer[1][1] = MIDI_EOX
    BY <1>4, <2>1 DEF SysexUnderWay
  <2>3. sysex_in_progress
    BY <1>4 DEF SysexUnderWay
  <2> QED
    BY <1>1, <2>2, <2>3 DEF RefuseSysex, RefuseMessage, RefuseData, IsMessage,
                            IsStatus, MIDI_SYSEX, MIDI_EOX
<1> QED
  BY <1>1, <1>2, <1>3, <1>4 DEF InOrderAgain, NothingLeft

(* What is left of the events after the first, when a sysex goes on. *)
LEMMA EventsLeft ==
  ASSUME Inv, buffer # <<>>, EoxIsLast, buffer' = Tail(buffer), msg' = msg
  PROVE  /\ EoxIsLast'
         /\ (\E k \in 1..4 : buffer[1][k] = MIDI_EOX) => NothingLeft'
         /\ \A i \in 1..Len(buffer') : buffer'[i] = buffer[i + 1]
         /\ Len(buffer') = Len(buffer) - 1
<1>1. buffer \in Seq(Words) /\ Len(buffer) \in Nat \ {0}
  BY DEF Inv, OutputTypeOK
<1>2. /\ \A i \in 1..Len(buffer') : buffer'[i] = buffer[i + 1] /\ i + 1 \in 1..Len(buffer)
      /\ Len(buffer') = Len(buffer) - 1 /\ buffer' \in Seq(Words)
  BY <1>1
<1>3. EoxIsLast'
  <2> SUFFICES ASSUME NEW i \in 1..Len(buffer'), NEW k \in 1..4, buffer'[i][k] = MIDI_EOX
               PROVE  i = Len(buffer') /\ msg' = <<>>
    BY DEF EoxIsLast
  <2>1. buffer[i + 1][k] = MIDI_EOX /\ i + 1 \in 1..Len(buffer)
    BY <1>2
  <2>2. i + 1 = Len(buffer) /\ msg = <<>>
    BY <2>1 DEF EoxIsLast
  <2>3. i = Len(buffer')
    <3>1. Len(buffer') = Len(buffer) - 1
      BY <1>2
    <3>2. Len(buffer) \in Nat
      BY <1>1
    <3>3. i + 1 = Len(buffer)
      BY <2>2
    <3>4. i \in 1..Len(buffer')
      OBVIOUS
    <3> QED
      BY ONLY <3>1, <3>2, <3>3, <3>4
  <2> QED
    BY <2>2, <2>3
<1>4. ASSUME NEW k \in 1..4, buffer[1][k] = MIDI_EOX PROVE NothingLeft'
  <2>1. 1 = Len(buffer) /\ msg = <<>>
    <3>1. 1 \in 1..Len(buffer)
      BY <1>1
    <3> QED
      BY <1>4, <3>1 DEF EoxIsLast
  <2>2. Len(buffer') = 0
    BY <1>2, <2>1
  <2> QED
    BY <1>2, <2>1, <2>2 DEF NothingLeft
<1> QED
  BY <1>2, <1>3, <1>4

(* The events of a message that follows a refusal. *)
LEMMA EventOrder ==
  ASSUME Inv, InOrderAgain, WriteEvent
  PROVE  InOrderAgain'
<1> SUFFICES ASSUME answer' = "bad" PROVE InOrderAgain'
  BY DEF InOrderAgain
<1>1. /\ pc = "write" /\ todo = <<>> /\ buffer # <<>> /\ Event = buffer[1]
      /\ buffer \in Seq(Words) /\ Event \in Words /\ sysex_in_progress \in BOOLEAN
  BY EventType DEF WriteEvent, Inv, OutputTypeOK
<1>2. CASE RefuseSysex \/ RefuseMessage \/ RefuseData
  <2>1. pc' = "idle" /\ ~sysex_in_progress'
    BY <1>2 DEF RefuseSysex, RefuseMessage, RefuseData, LeavesSysex, Return
  <2> QED
    BY <2>1 DEF InOrderAgain
<1>3. CASE BeginSysex \/ WriteMessage \/ WriteEmbedded \/ StoreWord \/ WriteData
  <2>1. UNCHANGED <<pc, op, msg, answer>> /\ buffer' = Tail(buffer)
        /\ (sysex_in_progress' = sysex_in_progress \/ BeginSysex)
    BY <1>3 DEF BeginSysex, WriteMessage, WriteEmbedded, StoreWord, WriteData, Do
  <2>2. CASE op = "Pm_WriteShort"
    <3>1. Len(buffer) = 1
      BY <1>1, <2>1, <2>2 DEF InOrderAgain, ShortAhead
    <3>2. buffer' = <<>>
      BY <1>1, <2>1, <3>1
    <3> QED
      BY <1>1, <2>1, <2>2, <3>2 DEF InOrderAgain
  <2>3. CASE op = "Pm_WriteSysEx"
    <3>1. SysexAhead \/ SysexUnderWay
      BY <1>1, <2>1, <2>3 DEF InOrderAgain, NothingLeft
    <3>2. Data(msg) /\ EoxIsLast
      BY <1>1, <3>1 DEF SysexAhead, SysexUnderWay
    <3>3. /\ EoxIsLast'
          /\ (\E k \in 1..4 : buffer[1][k] = MIDI_EOX) => NothingLeft'
          /\ \A i \in 1..Len(buffer') : buffer'[i] = buffer[i + 1]
          /\ Len(buffer') = Len(buffer) - 1
      BY <1>1, <2>1, <3>2, EventsLeft
    <3>4. CASE \E k \in 1..4 : Event[k] = MIDI_EOX
      BY <1>1, <2>1, <2>3, <3>3, <3>4 DEF InOrderAgain
    <3>5. CASE ~\E k \in 1..4 : Event[k] = MIDI_EOX
      <4>1. ~\E j \in 1..Len(WriteBytes(Event, 1)) :
               WriteBytes(Event, 1)[j].fn = "end_sysex"
        BY <1>1, <3>5, WriteBytesType
      <4>2. ~\E j \in 1..Len(WriteBytes(Event, 2)) :
               WriteBytes(Event, 2)[j].fn = "end_sysex"
        BY <1>1, <3>5, WriteBytesType
      <4>3. CASE SysexAhead
        <5>1. ~sysex_in_progress /\ Len(buffer) = 1 /\ Event[1] = MIDI_SYSEX
          BY <1>1, <4>3 DEF SysexAhead
        <5>2. BeginSysex
          BY <1>3, <5>1 DEF WriteMessage, WriteEmbedded, StoreWord, WriteData, IsMessage
        <5>3. sysex_in_progress' /\ todo' = SysexCalls
          BY <5>2 DEF BeginSysex, Do
        <5>4. ~Ending'
          <6>1. WriteBytes(Event, 2) \in Seq(DriverCalls)
            BY <1>1, WriteBytesType
          <6> DEFINE two == <<Fn("begin_sysex"), [fn |-> "write_byte", item |-> <<MIDI_SYSEX>>]>>
                     more == WriteBytes(Event, 2)
          <6>2. /\ Len(two) = 2 /\ two[1].fn = "begin_sysex" /\ two[2].fn = "write_byte"
                /\ two \in Seq(DriverCalls)
            <7>1. [fn |-> "write_byte", item |-> <<MIDI_SYSEX>>] \in DriverCalls
              BY DEF DriverCalls, Item, MIDI_SYSEX, Byte
            <7> QED
              BY <7>1, CallsType
          <6>3. todo' = two \o more
            BY <5>3 DEF SysexCalls, SysexFrom
          <6> HIDE DEF two, more
          <6>4. /\ DOMAIN todo' = 1..(2 + Len(more)) /\ Len(more) \in Nat
                /\ todo'[1] = two[1] /\ todo'[2] = two[2]
                /\ \A i \in 3..(2 + Len(more)) : todo'[i] = more[i - 2] /\ i - 2 \in 1..Len(more)
            <7>1. more \in Seq(DriverCalls) /\ Len(more) \in Nat /\ DOMAIN more = 1..Len(more)
              BY <6>1 DEF more
            <7>2. /\ Len(two \o more) = 2 + Len(more) /\ two \o more \in Seq(DriverCalls)
                  /\ \A i \in 1..(2 + Len(more)) :
                       (two \o more)[i] = IF i <= 2 THEN two[i] ELSE more[i - 2]
              <8>1. /\ two \o more \in Seq(DriverCalls)
                    /\ Len(two \o more) = Len(two) + Len(more)
                    /\ \A i \in 1..(Len(two) + Len(more)) :
                         (two \o more)[i] = IF i <= Len(two) THEN two[i] ELSE more[i - Len(two)]
                BY <6>2, <7>1, ConcatProperties
              <8> QED
                BY <6>2, <8>1
            <7>3. \A i \in 3..(2 + Len(more)) : ~(i <= 2) /\ i - 2 \in 1..Len(more)
              BY <7>1
            <7> QED
              BY <6>3, <7>1, <7>2, <7>3
          <6>5. \A i \in 1..Len(more) : more[i].fn # "end_sysex"
            BY <4>2 DEF more
          <6>6. \A i \in DOMAIN todo' : todo'[i].fn # "end_sysex"
            <7> SUFFICES ASSUME NEW i \in DOMAIN todo' PROVE todo'[i].fn # "end_sysex"
              OBVIOUS
            <7>1. i = 1 \/ i = 2 \/ i \in 3..(2 + Len(more))
              BY <6>4
            <7> QED
              BY <6>2, <6>4, <6>5, <7>1
          <6> QED
            BY <6>6 DEF Ending
        <5>5. Len(buffer') = 0
          BY <3>3, <5>1
        <5>6. SysexUnderWay'
          BY <2>1, <3>2, <3>3, <5>3, <5>4, <5>5 DEF SysexUnderWay, Data
        <5> QED
          BY <2>1, <2>3, <1>1, <5>6 DEF InOrderAgain
      <4>4. CASE SysexUnderWay
        <5>1. sysex_in_progress /\ ~Ending /\ ~BeginSysex
              /\ ~IsStatus(Event[1])
          <6>1. 1 \in 1..Len(buffer)
            BY <1>1
          <6>2. ~IsStatus(Event[1]) \/ Event[1] = MIDI_EOX
            BY <1>1, <4>4, <6>1 DEF SysexUnderWay
          <6> QED
            BY <3>5, <4>4, <6>2 DEF SysexUnderWay, BeginSysex
        <5>2. StoreWord \/ WriteData
          BY <1>3, <5>1 DEF WriteMessage, WriteEmbedded, IsMessage
        <5>3. todo' = todo \/ todo' = WriteBytes(Event, 1)
          BY <5>2 DEF StoreWord, WriteData, Do
        <5>4. ~Ending'
          <6>1. DOMAIN WriteBytes(Event, 1) = 1..Len(WriteBytes(Event, 1))
            BY <1>1, WriteBytesType
          <6> QED
            BY <4>1, <5>1, <5>3, <6>1 DEF Ending
        <5>5. \A i \in 1..Len(buffer') :
                ~IsStatus(buffer'[i][1]) \/ buffer'[i][1] = MIDI_EOX
          <6>1. \A i \in 1..Len(buffer') : i + 1 \in 1..Len(buffer)
            BY <1>1, <3>3
          <6> QED
            BY <3>3, <4>4, <6>1 DEF SysexUnderWay
        <5>6. SysexUnderWay'
          BY <2>1, <3>2, <3>3, <5>1, <5>4, <5>5 DEF SysexUnderWay, Data
        <5> QED
          BY <2>1, <2>3, <1>1, <5>6 DEF InOrderAgain
      <4> QED
        BY <3>1, <4>3, <4>4
    <3> QED
      BY <3>4, <3>5
  <2>4. CASE op = "Pm_Write"
    BY <1>1, <2>1, <2>4 DEF InOrderAgain
  <2> QED
    BY <2>2, <2>3, <2>4 DEF Inv, OutputTypeOK
<1> QED
  BY <1>2, <1>3 DEF WriteEvent

(* The end of Pm_Write: a call that returns here has succeeded. *)
LEMMA EndOrder ==
  ASSUME Inv, InOrderAgain, EndWrite \/ Flushed \/ FilledUp
  PROVE  InOrderAgain'
<1> SUFFICES ASSUME answer' = "bad" PROVE InOrderAgain'
  BY DEF InOrderAgain
<1>1. ~Return("ok")
  BY DEF Return
<1>2. /\ pc # "idle" /\ pc' # "idle" /\ todo = <<>> /\ buffer = <<>>
      /\ UNCHANGED <<sysex_in_progress, op, msg, buffer, answer>>
      /\ todo' = todo \/ (~sysex_in_progress /\ todo' = FlushCalls)
  BY <1>1 DEF EndWrite, Flushed, FilledUp, Written, Inv, Position
<1>3. ~SysexAhead
  <2> SUFFICES ASSUME pc = "gather" PROVE FALSE
    BY <1>2 DEF SysexAhead
  <2> QED
    BY DEF EndWrite, Flushed, FilledUp
<1>4. NothingLeft => NothingLeft'
  BY <1>2 DEF NothingLeft
<1>5. SysexUnderWay => SysexUnderWay'
  BY <1>2 DEF SysexUnderWay, Ending, EoxIsLast, Data
<1> HIDE DEF NothingLeft, SysexUnderWay, SysexAhead
<1> QED
  BY <1>2, <1>3, <1>4, <1>5 DEF InOrderAgain

(* The next word of a sysex that follows a refusal. *)
LEMMA GatherOrder ==
  ASSUME Inv, InOrderAgain, Gather
  PROVE  InOrderAgain'
<1> SUFFICES ASSUME answer' = "bad" PROVE InOrderAgain'
  BY DEF InOrderAgain
<1> DEFINE n == Min({4, Len(msg)})
           w == Word(SubSeq(msg, 1, n))
<1>1. /\ pc = "gather" /\ buffer' = Append(buffer, w)
      /\ msg' = SubSeq(msg, n + 1, Len(msg))
      /\ pc' = IF n = Len(msg) \/ Len(Append(buffer, w)) = buffer_size
               THEN "write" ELSE "gather"
      /\ UNCHANGED <<sysex_in_progress, todo, op, answer>>
  BY DEF Gather
<1>2. /\ op = "Pm_WriteSysEx" /\ todo = <<>> /\ msg # <<>>
      /\ msg \in Seq(Byte) /\ Len(msg) \in Nat \ {0} /\ buffer \in Seq(Words)
  BY <1>1 DEF Inv, OutputTypeOK, Position
<1>3. n \in 1..4 /\ n <= Len(msg) /\ (n = 4 \/ n = Len(msg))
  <2>1. n \in Nat /\ n <= 4 /\ n <= Len(msg) /\ (n = 4 \/ n = Len(msg))
    BY <1>2, MinOfTwo
  <2> HIDE DEF n
  <2> QED
    BY <1>2, <2>1
<1> HIDE DEF n
<1>4. w \in Words
  <2>1. SubSeq(msg, 1, n) \in Seq(Byte) /\ Len(SubSeq(msg, 1, n)) <= 4
    <3>1. n \in Nat
      BY <1>3
    <3> QED
      BY <1>2, <1>3, <3>1, Split
  <2> QED
    BY <2>1, WordType
<1>5. ASSUME Body(msg)
      PROVE  /\ Data(msg') /\ w[1] = msg[1]
             /\ \A k \in 1..4 : w[k] = MIDI_EOX => msg' = <<>>
  BY <1>1, <1>2, <1>3, <1>5, GatheredWord
<1> HIDE DEF w
<1>6. /\ buffer' \in Seq(Words) /\ Len(buffer') = Len(buffer) + 1
      /\ \A i \in 1..Len(buffer) : buffer'[i] = buffer[i]
      /\ buffer'[Len(buffer) + 1] = w
  BY <1>1, <1>2, <1>4, AppendProperties
<1>7. ASSUME Body(msg), EoxIsLast PROVE EoxIsLast'
  <2> SUFFICES ASSUME NEW i \in 1..Len(buffer'), NEW k \in 1..4, buffer'[i][k] = MIDI_EOX
               PROVE  i = Len(buffer') /\ msg' = <<>>
    BY DEF EoxIsLast
  <2>1. i \notin 1..Len(buffer)
    BY <1>2, <1>6, <1>7 DEF EoxIsLast
  <2>2. i = Len(buffer')
    BY <1>2, <1>6, <2>1
  <2>3. w[k] = MIDI_EOX
    BY <1>6, <2>2
  <2>4. msg' = <<>>
    BY <1>5, <1>7, <2>3
  <2> QED
    BY <2>2, <2>4
<1>8. ASSUME SysexAhead PROVE SysexAhead'
  <2>1. buffer = <<>> /\ buffer_size = 1 /\ msg \in Sysexes /\ ~sysex_in_progress
    BY <1>1, <1>8 DEF SysexAhead
  <2>2. Body(msg) /\ msg[1] = MIDI_SYSEX
    BY <2>1, BodyOfSysex
  <2>3. EoxIsLast
    BY <2>1 DEF EoxIsLast
  <2>4. Len(buffer') = 1 /\ buffer'[1] = w
    BY <1>6, <2>1
  <2>5. pc' = "write"
    BY <1>1, <2>1, <2>4
  <2>6. Data(msg') /\ buffer'[1][1] = MIDI_SYSEX
    BY <1>5, <2>2, <2>4
  <2>7. EoxIsLast'
    BY <1>7, <2>2, <2>3
  <2>8. ~sysex_in_progress' /\ todo' = <<>>
    BY <1>1, <1>2, <2>1
  <2> QED
    BY <2>4, <2>5, <2>6, <2>7, <2>8 DEF SysexAhead
<1>9. ASSUME SysexUnderWay PROVE SysexUnderWay'
  <2>1. Body(msg) /\ (~IsStatus(msg[1]) \/ msg[1] = MIDI_EOX)
    BY <1>2, <1>9, BodyOfSysex DEF SysexUnderWay
  <2>2. Data(msg') /\ EoxIsLast'
    BY <1>5, <1>7, <1>9, <2>1 DEF SysexUnderWay
  <2>3. \A i \in 1..Len(buffer') : ~IsStatus(buffer'[i][1]) \/ buffer'[i][1] = MIDI_EOX
    <3> SUFFICES ASSUME NEW i \in 1..Len(buffer')
                 PROVE  ~IsStatus(buffer'[i][1]) \/ buffer'[i][1] = MIDI_EOX
      OBVIOUS
    <3>1. i \in 1..Len(buffer) \/ i = Len(buffer) + 1
      BY <1>2, <1>6
    <3>2. CASE i \in 1..Len(buffer)
      BY <1>6, <1>9, <3>2 DEF SysexUnderWay
    <3>3. CASE i = Len(buffer) + 1
      BY <1>5, <1>6, <2>1, <3>3
    <3> QED
      BY <3>1, <3>2, <3>3
  <2>4. sysex_in_progress' /\ ~Ending'
    BY <1>1, <1>2, <1>9 DEF SysexUnderWay, Ending
  <2> QED
    BY <2>2, <2>3, <2>4 DEF SysexUnderWay
<1>10. ~NothingLeft
  BY <1>2 DEF NothingLeft
<1> QED
  BY <1>1, <1>2, <1>8, <1>9, <1>10 DEF InOrderAgain

(* The same for the bytes that go around Pm_Write. *)
LEMMA FillOrder ==
  ASSUME Inv, InOrderAgain, Fill
  PROVE  InOrderAgain'
<1> SUFFICES ASSUME answer' = "bad" PROVE InOrderAgain'
  BY DEF InOrderAgain
<1> DEFINE n == Min({Room, Len(msg)})
<1>1. /\ pc = "fill" /\ msg' = SubSeq(msg, n + 1, Len(msg))
      /\ \/ msg' # <<>> /\ pc' = "gather" /\ todo' = todo
         \/ msg' = <<>> /\ pc' = "end"
      /\ UNCHANGED <<sysex_in_progress, op, buffer, answer>>
  BY DEF Fill, Primed
<1>2. /\ op = "Pm_WriteSysEx" /\ todo = <<>> /\ msg # <<>> /\ buffer = <<>>
      /\ msg \in Seq(Byte) /\ Len(msg) \in Nat \ {0}
  BY <1>1 DEF Inv, OutputTypeOK, Position
<1>3. Room \in Nat
  BY <1>1 DEF Inv, OutputTypeOK, Position, Drivers, FillInBounds, Room
<1>4. n \in Nat /\ n <= Len(msg)
  BY <1>2, <1>3, MinOfTwo
<1> HIDE DEF n
<1>5. ASSUME Data(msg) PROVE Data(msg')
  <2>1. /\ Len(msg') = Len(msg) - n
        /\ \A i \in 1..(Len(msg) - n) : msg'[i] = msg[n + i]
    BY <1>1, <1>2, <1>4, Split
  <2> SUFFICES ASSUME NEW i \in 1..Len(msg')
               PROVE  IF i = Len(msg') THEN msg'[i] = MIDI_EOX ELSE ~IsStatus(msg'[i])
    BY DEF Data
  <2>2. n + i \in 1..Len(msg) /\ (i = Len(msg') <=> n + i = Len(msg)) /\ msg'[i] = msg[n + i]
    BY <1>2, <1>4, <2>1
  <2> QED
    BY <1>5, <2>2 DEF Data
<1>6. SysexUnderWay
  BY <1>1, <1>2 DEF InOrderAgain, NothingLeft, SysexAhead
<1>7. CASE msg' = <<>>
  BY <1>1, <1>2, <1>7 DEF InOrderAgain, NothingLeft
<1>8. CASE msg' # <<>>
  <2>1. todo' = todo /\ pc' = "gather"
    BY <1>1, <1>8
  <2>2. Data(msg')
    BY <1>5, <1>6 DEF SysexUnderWay
  <2>3. EoxIsLast'
    BY <1>1, <1>2 DEF EoxIsLast
  <2>4. SysexUnderWay'
    BY <1>1, <1>2, <1>6, <2>1, <2>2, <2>3 DEF SysexUnderWay, Ending
  <2> QED
    BY <1>1, <1>2, <2>1, <2>4 DEF InOrderAgain
<1> QED
  BY <1>7, <1>8

(* InOrderAgain is inductive relative to Inv. *)
LEMMA OrderNext == Inv /\ InOrderAgain /\ [Next]_vars => InOrderAgain'
<1> SUFFICES ASSUME Inv, InOrderAgain, [Next]_vars PROVE InOrderAgain'
  OBVIOUS
<1>1. CASE Next
  <2>1. CASE Step
    BY <2>1, DriveOrder, EventOrder, EndOrder, GatherOrder, FillOrder DEF Step
  <2> QED
    BY <1>1, <2>1, CallOrder DEF Next
<1>2. CASE UNCHANGED vars
  <2>1. UNCHANGED <<sysex_in_progress, todo, pc, op, msg, buffer, buffer_size, answer>>
    BY <1>2 DEF vars, call
  <2>2. ShortAhead => ShortAhead'
    BY <2>1 DEF ShortAhead
  <2>3. SysexAhead => SysexAhead'
    BY <2>1 DEF SysexAhead, EoxIsLast, Data
  <2>4. SysexUnderWay => SysexUnderWay'
    BY <2>1 DEF SysexUnderWay, EoxIsLast, Data, Ending
  <2>5. NothingLeft => NothingLeft'
    BY <2>1 DEF NothingLeft
  <2> QED
    BY <2>1, <2>2, <2>3, <2>4, <2>5 DEF InOrderAgain
<1> QED
  BY <1>1, <1>2

(* A step that refuses a whole message: the call before was not refused.   *)
LEMMA RefusedOnceStep ==
  ASSUME Inv, InOrderAgain, [Next]_vars,
         pc # "idle", pc' = "idle", answer' = "bad",
         op \in {"Pm_WriteShort", "Pm_WriteSysEx"}
  PROVE  answer # "bad"
<1>1. Step
  BY DEF Next, Pm_Write, Pm_WriteShort, Pm_WriteSysEx, Pm_Abort, Call, vars, call
<1>2. CASE WriteEvent
  <2>1. RefuseSysex \/ RefuseMessage \/ RefuseData
    BY <1>2 DEF WriteEvent, BeginSysex, WriteMessage, WriteEmbedded, StoreWord,
                WriteData, Do
  <2> QED
    BY <1>2, <2>1, NoRefusal
<1>3. ~WriteEvent => FALSE
  BY <1>1 DEF Step, Drive, Return, EndWrite, Flushed, Written, Gather, Fill,
              Primed, FilledUp
<1> QED
  BY <1>2, <1>3

(* A whole message is refused at most once: whatever a failure of the      *)
(* driver, a sysex without an end or an abort has left behind, Pm_Write's  *)
(* pmBadData puts the stream in order, and the next message of             *)
(* Pm_WriteShort or Pm_WriteSysEx meets no refusal.                        *)
THEOREM NoSecondRefusal == Spec => RefusedOnce
<1>1. Init => InOrderAgain
  BY DEF Init, InOrderAgain
<1>2. /\ Inv /\ InOrderAgain /\ [Next]_vars
      => [pc # "idle" /\ pc' = "idle" /\ answer' = "bad"
            /\ op \in {"Pm_WriteShort", "Pm_WriteSysEx"} => answer # "bad"]_vars
  BY RefusedOnceStep
<1> QED
  BY <1>1, <1>2, InvHolds, OrderNext, PTL DEF Spec, RefusedOnce
=============================================================================
