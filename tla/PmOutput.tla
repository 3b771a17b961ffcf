------------------------------ MODULE PmOutput -------------------------------
(***************************************************************************)
(* Writing MIDI with portmidi.c: Pm_Write, Pm_WriteShort, Pm_WriteSysEx    *)
(* and Pm_Abort on one open stream.  They turn the caller's events into    *)
(* calls of the driver: one sysex is begin_sysex, a write_byte for each    *)
(* byte, end_sysex.  Two short cuts go around write_byte and store into    *)
(* the driver's buffer directly, as far as it has room.                    *)
(*                                                                         *)
(* A message in an event is a word of four bytes, low-order byte first.    *)
(* An action handles one event, fills one buffer, gathers one word, as the *)
(* turns of the loops do, or is one call of the driver.  What is sent is a *)
(* sequence of items: <<b>> for a byte of a sysex, the word for another    *)
(* message.                                                                *)
(*                                                                         *)
(* The driver is not in the repository.  It is modelled from how it is     *)
(* used: write_byte sends the buffer on when that is full, begin_sysex,    *)
(* end_sysex and write_flush send what it holds, write_realtime goes out   *)
(* at once, and any call may fail, having done nothing.                    *)
(*                                                                         *)
(* Left out: the checks of arguments, and timestamps with the              *)
(* synchronisation they need.                                              *)
(***************************************************************************)
EXTENDS Integers, SequencesExt

CONSTANTS
  Buffers,      \* sequences of words given to Pm_Write
  Shorts,       \* words given to Pm_WriteShort
  Sysexes,      \* sequences of bytes given to Pm_WriteSysEx
  BUFLEN,       \* words that Pm_WriteSysEx passes to Pm_Write at a time
  FillLengths,  \* sizes a driver's buffer may have; 0: it has none
  MaxCalls, MaxFaults  \* bounds: calls, and failures of the driver

VARIABLES
  fill_length,          \* size of the driver's buffer
  driver,               \* what it has sent and holds, and whether fill_base is set
  sysex_in_progress,
  todo,                 \* the calls of the driver's functions that come next
  pc,                   \* "idle", "gather", "fill", "end", "write" or "flush"
  op,                   \* the function called last
  msg,                  \* Pm_WriteSysEx: bytes not gathered yet
  buffer, buffer_size,  \* the events of Pm_Write that are left
  answer,               \* of the last call: "ok", "bad" (pmBadData), "host"
  calls, faults         \* bookkeeping: how many so far

call == <<todo, pc, op, msg, buffer, buffer_size, answer, calls>>
vars == <<fill_length, driver, sysex_in_progress, call, faults>>

MIDI_SYSEX == 240
MIDI_EOX   == 247

IsStatus(b)     == b >= 128
is_real_time(b) == b >= 248
Byte            == 0..255

(* An event with up to four bytes; the rest of it is 0. *)
Word(bytes) == [i \in 1..4 |-> IF i <= Len(bytes) THEN bytes[i] ELSE 0]

(* Pm_WriteShort gets a message that begins with its status, Pm_WriteSysEx *)
(* data bytes between F0 and EOX, as portmidi.h asks; Pm_Write gets any.   *)
ASSUME PmOutputAssumption ==
  /\ Buffers \subseteq Seq([1..4 -> Byte])
  /\ Shorts \subseteq [1..4 -> Byte]
  /\ \A w \in Shorts : IsStatus(w[1]) /\ w[1] # MIDI_EOX /\ w[2] < 128
  /\ Sysexes \subseteq Seq(Byte)
  /\ \A s \in Sysexes :
       /\ Len(s) > 1 /\ s[1] = MIDI_SYSEX /\ s[Len(s)] = MIDI_EOX
       /\ \A i \in 2..(Len(s) - 1) : ~IsStatus(s[i])
  /\ BUFLEN \in Nat \ {0} /\ FillLengths \subseteq Nat
  /\ MaxCalls \in Nat /\ MaxFaults \in Nat

-----------------------------------------------------------------------------
(* The driver: what a call makes of it. *)

Sent(d) == [d EXCEPT !.sent = d.sent \o d.hold, !.hold = <<>>]

Stored(d, items) == [d EXCEPT !.hold = d.hold \o items]

Called(d, c) ==
  CASE c.fn = "begin_sysex" -> Sent(d)
    [] c.fn = "end_sysex"   -> [Sent(d) EXCEPT !.fill_base = FALSE]
    [] c.fn = "write_flush" -> Sent(d)
    [] c.fn = "write_short" ->
         Stored(IF d.fill_base THEN [Sent(d) EXCEPT !.fill_base = FALSE] ELSE d,
                <<c.item>>)
    [] c.fn = "write_realtime" -> [d EXCEPT !.sent = Append(d.sent, c.item)]
    [] c.fn = "write_byte" /\ fill_length = 0 -> Sent(Stored(d, <<c.item>>))
    [] c.fn = "write_byte" /\ fill_length > 0 ->
         [Stored(IF Len(d.hold) >= fill_length THEN Sent(d) ELSE d, <<c.item>>)
            EXCEPT !.fill_base = TRUE]

Fn(name) == [fn |-> name, item |-> <<>>]

Items(bytes) == [i \in DOMAIN bytes |-> <<bytes[i]>>]

Room == fill_length - Len(driver.hold)

-----------------------------------------------------------------------------
Init ==
  /\ fill_length \in FillLengths
  /\ driver = [sent |-> <<>>, hold |-> <<>>, fill_base |-> FALSE]
  /\ sysex_in_progress = FALSE
  /\ todo = <<>> /\ pc = "idle" /\ op = "Pm_Write" /\ msg = <<>> /\ buffer = <<>>
  /\ buffer_size = 1 /\ answer = "ok" /\ calls = 0 /\ faults = 0

Return(a) ==
  /\ pc' = "idle" /\ answer' = a
  /\ todo' = <<>> /\ msg' = <<>> /\ buffer' = <<>>
  /\ UNCHANGED <<op, buffer_size, calls>>

(* The next call of the driver.  One of end_sysex ends the sysex even if   *)
(* it fails; the first that fails ends Pm_Write.                           *)
Drive ==
  LET c == Head(todo)
  IN  /\ todo # <<>>
      /\ sysex_in_progress' = (sysex_in_progress /\ c.fn # "end_sysex")
      /\ \/ /\ driver' = Called(driver, c)
            /\ todo' = Tail(todo)
            /\ UNCHANGED <<pc, op, msg, buffer, buffer_size, answer, calls, faults>>
         \/ /\ faults < MaxFaults /\ faults' = faults + 1
            /\ Return("host")
            /\ UNCHANGED driver
      /\ UNCHANGED fill_length

-----------------------------------------------------------------------------
(* Calls *)

Call(f) ==
  /\ pc = "idle" /\ calls < MaxCalls
  /\ calls' = calls + 1 /\ op' = f
  /\ UNCHANGED <<fill_length, driver, sysex_in_progress, answer, faults>>

Pm_Write(events) ==
  /\ Call("Pm_Write")
  /\ pc' = "write" /\ buffer' = events
  /\ UNCHANGED <<todo, msg, buffer_size>>

Pm_WriteShort(w) ==
  /\ Call("Pm_WriteShort")
  /\ pc' = "write" /\ buffer' = <<w>>
  /\ UNCHANGED <<todo, msg, buffer_size>>

Pm_WriteSysEx(s) ==
  /\ Call("Pm_WriteSysEx")
  /\ pc' = "gather" /\ msg' = s /\ buffer_size' = 1
  /\ UNCHANGED <<todo, buffer>>

(* sysex_in_progress is left as it is. *)
Pm_Abort ==
  /\ pc = "idle"
  /\ driver' = [driver EXCEPT !.hold = <<>>, !.fill_base = FALSE]
  /\ UNCHANGED <<fill_length, sysex_in_progress, call, faults>>

-----------------------------------------------------------------------------
(* Pm_Write: one event *)

Event == Head(buffer)

(* It leads to the calls cs of the driver, and then the next event follows. *)
Do(cs) ==
  /\ buffer' = Tail(buffer)
  /\ todo' = cs
  /\ UNCHANGED <<fill_length, driver, pc, op, msg, buffer_size, answer, calls,
                 faults>>

(* The bytes of w from the i-th on, up to EOX. *)
Bytes(w, i) ==
  LET eox == {k \in i..4 : w[k] = MIDI_EOX}
  IN  SubSeq(w, i, IF eox = {} THEN 4 ELSE Min(eox))

WriteBytes(w, i) ==
  LET bs == Bytes(w, i)
  IN  [k \in DOMAIN bs |-> [fn |-> "write_byte", item |-> <<bs[k]>>]]
        \o (IF MIDI_EOX \in ToSet(bs) THEN <<Fn("end_sysex")>> ELSE <<>>)

(* F0 begins a sysex and is written by itself; the bytes behind it follow. *)
SysexFrom(i) ==
  <<Fn("begin_sysex"), [fn |-> "write_byte", item |-> <<MIDI_SYSEX>>]>>
    \o WriteBytes(Event, i)
SysexTwice == SysexFrom(1)  \* mutant of SysexCalls
SysexCalls == SysexFrom(2)

BeginSysex ==
  /\ Event[1] = MIDI_SYSEX /\ ~sysex_in_progress
  /\ sysex_in_progress' = TRUE
  /\ Do(SysexCalls)

(* The previous sysex was not terminated by EOX. *)
RefuseSysex ==
  /\ Event[1] = MIDI_SYSEX /\ sysex_in_progress
  /\ sysex_in_progress' = FALSE
  /\ Return("bad")
  /\ UNCHANGED <<fill_length, driver, faults>>

IsMessage == IsStatus(Event[1]) /\ Event[1] \notin {MIDI_SYSEX, MIDI_EOX}

WriteMessage ==
  /\ IsMessage /\ ~sysex_in_progress
  /\ Do(<<[fn |-> "write_short", item |-> Event]>>)
  /\ UNCHANGED sysex_in_progress

(* A real-time message is written, and then its word goes on as if it were *)
(* a part of the sysex: its bytes are written too, and marked here.        *)
Echo(b) == <<b, "echo">>

WriteEmbedded ==
  /\ IsMessage /\ sysex_in_progress /\ is_real_time(Event[1])
  /\ Do(<<[fn |-> "write_realtime", item |-> Event]>>
          \o [k \in 1..4 |-> [fn |-> "write_byte", item |-> Echo(Event[k])]])
  /\ UNCHANGED sysex_in_progress

(* Any other one ends the sysex, and is itself refused.  Whether end_sysex  *)
(* fails does not matter.                                                  *)
StaysInSysex  == sysex_in_progress  \* mutant of LeavesSysex
LeavesSysex   == FALSE

RefuseMessage ==
  /\ IsMessage /\ sysex_in_progress /\ ~is_real_time(Event[1])
  /\ sysex_in_progress' = LeavesSysex
  /\ \/ driver' = Called(driver, Fn("end_sysex")) /\ UNCHANGED faults
     \/ /\ faults < MaxFaults /\ faults' = faults + 1
        /\ UNCHANGED driver
  /\ Return("bad")
  /\ UNCHANGED fill_length

IsSysexData == ~IsStatus(Event[1]) \/ Event[1] = MIDI_EOX

(* Four data bytes are stored into the driver's buffer if they fit. *)
FitsAny == driver.fill_base /\ Room > 0  \* mutant of Fits
Fits    == driver.fill_base /\ Room >= 4

IsData == \A i \in 1..4 : ~IsStatus(Event[i])

StoreWord ==
  /\ IsSysexData /\ sysex_in_progress /\ Fits /\ IsData
  /\ driver' = Stored(driver, Items(Event))
  /\ buffer' = Tail(buffer)
  /\ UNCHANGED <<fill_length, sysex_in_progress, todo, pc, op, msg, buffer_size,
                 answer, calls, faults>>

WriteData ==
  /\ IsSysexData /\ sysex_in_progress /\ ~(Fits /\ IsData)
  /\ Do(WriteBytes(Event, 1))
  /\ UNCHANGED sysex_in_progress

RefuseData ==
  /\ IsSysexData /\ ~sysex_in_progress
  /\ Return("bad")
  /\ UNCHANGED <<fill_length, driver, sysex_in_progress, faults>>

WriteEvent ==
  /\ pc = "write" /\ todo = <<>> /\ buffer # <<>>
  /\ \/ BeginSysex \/ RefuseSysex \/ WriteMessage \/ WriteEmbedded
     \/ RefuseMessage \/ StoreWord \/ WriteData \/ RefuseData

-----------------------------------------------------------------------------
(* The end of Pm_Write, and how Pm_WriteSysEx goes on after it. *)

Written ==
  IF op # "Pm_WriteSysEx" \/ msg = <<>> THEN Return("ok")
  ELSE /\ pc' = IF driver.fill_base THEN "fill" ELSE "gather"
       /\ buffer_size' = BUFLEN
       /\ UNCHANGED <<todo, op, msg, buffer, answer, calls>>

NoFlush    == <<>>  \* mutant of FlushCalls
FlushCalls == <<Fn("write_flush")>>

EndWrite ==
  /\ pc = "write" /\ todo = <<>> /\ buffer = <<>>
  /\ IF sysex_in_progress THEN Written
     ELSE /\ pc' = "flush" /\ todo' = FlushCalls
          /\ UNCHANGED <<op, msg, buffer, buffer_size, answer, calls>>
  /\ UNCHANGED <<fill_length, driver, sysex_in_progress, faults>>

Flushed ==
  /\ pc = "flush" /\ todo = <<>>
  /\ Written
  /\ UNCHANGED <<fill_length, driver, sysex_in_progress, faults>>

(* Pm_WriteSysEx gathers the next four bytes, or what is left up to EOX.   *)
Gather ==
  LET n     == Min({4, Len(msg)})
      words == Append(buffer, Word(SubSeq(msg, 1, n)))
  IN  /\ pc = "gather"
      /\ buffer' = words /\ msg' = SubSeq(msg, n + 1, Len(msg))
      /\ pc' = IF n = Len(msg) \/ Len(words) = buffer_size THEN "write"
               ELSE "gather"
      /\ UNCHANGED <<fill_length, driver, sysex_in_progress, todo, op,
                     buffer_size, answer, calls, faults>>

(* With the driver's buffer full, one word by write_byte primes the next.  *)
(* The mutant fills again at once, as the comment there warns.             *)
Unprimed == pc' = "fill" /\ UNCHANGED <<todo, buffer_size>>
Primed   == pc' = "gather" /\ buffer_size' = 1 /\ UNCHANGED todo

Fill ==
  LET n    == Min({Room, Len(msg)})
      rest == SubSeq(msg, n + 1, Len(msg))
  IN  /\ pc = "fill"
      /\ driver' = Stored(driver, Items(SubSeq(msg, 1, n)))
      /\ msg' = rest
      /\ \/ rest # <<>> /\ Primed
         \/ /\ rest = <<>>
            /\ pc' = "end" /\ todo' = <<Fn("end_sysex")>>
            /\ UNCHANGED buffer_size
      /\ UNCHANGED <<fill_length, sysex_in_progress, op, buffer, answer, calls,
                     faults>>

FilledUp ==
  /\ pc = "end" /\ todo = <<>>
  /\ Return("ok")
  /\ UNCHANGED <<fill_length, driver, sysex_in_progress, faults>>

-----------------------------------------------------------------------------
Step == Drive \/ WriteEvent \/ EndWrite \/ Flushed \/ Gather \/ Fill \/ FilledUp

Next ==
  \/ \E events \in Buffers : Pm_Write(events)
  \/ \E w \in Shorts : Pm_WriteShort(w)
  \/ \E s \in Sysexes : Pm_WriteSysEx(s)
  \/ Pm_Abort
  \/ Step

Spec == Init /\ [][Next]_vars /\ WF_vars(Step)

-----------------------------------------------------------------------------
(* The short cuts never store past the end of the driver's buffer. *)
FillInBounds ==
  driver.fill_base => Len(driver.hold) <= fill_length

(* A call that succeeds leaves nothing behind in the driver's buffer,      *)
(* unless it ends in the middle of a sysex.                                *)
AllIsFlushed ==
  pc = "idle" /\ answer = "ok" /\ ~sysex_in_progress => driver.hold = <<>>

(* A whole message (not one made of several events) is refused at most     *)
(* once: whatever state a failure, a sysex without an end or an abort has  *)
(* left, the refusal puts the stream in order again.                       *)
RefusedOnce ==
  [][pc # "idle" /\ pc' = "idle" /\ answer' = "bad"
       /\ op \in {"Pm_WriteShort", "Pm_WriteSysEx"} => answer # "bad"]_vars

(* Every call returns: Pm_WriteSysEx does not get stuck at a full buffer   *)
(* that is never sent on, as the comment in its loop fears.                *)
EveryCallReturns == []<>(pc = "idle")

-----------------------------------------------------------------------------
(* What the rest of the call is to send: the bytes of a sysex up to its    *)
(* end, other messages as they are.  Real-time messages may overtake       *)
(* others and are not looked at.                                           *)
Expect(e, w) ==
  LET bytes == Bytes(w, 1)
  IN  CASE is_real_time(w[1]) -> e
        [] w[1] = MIDI_SYSEX \/ (e.inSysex /\ ~IsStatus(w[1]))
                             \/ (e.inSysex /\ w[1] = MIDI_EOX) ->
             [inSysex |-> MIDI_EOX \notin ToSet(bytes),
              items   |-> e.items \o Items(bytes)]
        [] IsStatus(w[1]) /\ w[1] \notin {MIDI_SYSEX, MIDI_EOX} ->
             [inSysex |-> FALSE, items |-> Append(e.items, w)]
        [] OTHER -> e

InOrder(items) ==
  SelectSeq(items, LAMBDA x : ~is_real_time(x[1]) /\ x # Echo(x[1]))

Ending == \E i \in DOMAIN todo : todo[i].fn = "end_sysex"

Rest ==
  LET expected[n \in 0..Len(buffer)] ==
        IF n = 0 THEN [inSysex |-> sysex_in_progress /\ ~Ending, items |-> <<>>]
                 ELSE Expect(expected[n - 1], buffer[n])
      coming == [i \in DOMAIN todo |-> todo[i].item]
  IN  InOrder(SelectSeq(coming, LAMBDA x : x # <<>>))
        \o expected[Len(buffer)].items \o Items(msg)

Stream == INSTANCE MidiStream
  WITH due    <- InOrder(driver.hold) \o Rest,
       out    <- InOrder(driver.sent),
       answer <- IF pc # "idle" THEN "busy"
                 ELSE IF answer = "ok" THEN "ok" ELSE "error"

(* Whatever the lengths of messages and buffers, wherever the driver       *)
(* fails and whatever the caller interrupts, the device gets the bytes of  *)
(* the caller's messages in order, each once and nothing else, but for the *)
(* echo of an embedded real-time message.                                  *)
IsByteStream == Stream!StreamSpec

(* "Sysex data may contain embedded real-time messages" (portmidi.h, of    *)
(* Pm_Write): they put no bytes of their own into the sysex.               *)
NoEcho == \A i \in DOMAIN driver.sent : driver.sent[i] # Echo(driver.sent[i][1])
=============================================================================
