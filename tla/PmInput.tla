------------------------------ MODULE PmInput -------------------------------
(***************************************************************************)
(* The way of a MIDI message through portmidi.c: the system's MIDI driver  *)
(* calls pm_read_short and pm_read_bytes, which filter it, pack sysex      *)
(* bytes four to a word and put words into the queue; the client polls and *)
(* reads them.  Two threads meet in the queue, which is the one of PmFifo: *)
(* PmQueue shows that pmutil.c implements it.                              *)
(*                                                                         *)
(* A PmEvent is the sequence of its bytes, low-order byte first, without   *)
(* the zeros that fill it up and without its timestamp; 0 is no data byte  *)
(* of the model.  pm_read_bytes enqueues many words, and the client may    *)
(* read between any two: one action is one turn of its loops.              *)
(*                                                                         *)
(* filters are the statuses that Pm_SetFilter and Pm_SetChannelMask keep    *)
(* out.  Left out: the checks of arguments and the host errors of a         *)
(* backend's poll function.                                                *)
(***************************************************************************)
EXTENDS PmFifo, SequencesExt

CONSTANTS
  Shorts,    \* short messages received, as sequences of bytes
  Sysexes,   \* data bytes of the sysex messages received
  Filters,   \* sets of statuses the client may filter out
  MaxCuts    \* bound: sysex messages cut off on their way to the computer

VARIABLES
  wire,      \* bytes of the present sysex that the driver has not received yet
  data,      \* data[i .. len - 1], what is left of a call of pm_read_bytes
  bytewise,  \* pm_read_bytes is in its inner loop
  sysex_in_progress, sysex_message, filters,
  polled,    \* the client's last call was a Pm_Poll that answered TRUE
  sysex,     \* not in the code: the sysex the client is reading, so far
  cuts       \* not in the code: sysex messages cut off so far

driver == <<wire, data, bytewise, sysex_in_progress, sysex_message, cuts>>
client == <<polled, sysex>>
vars   == <<stream, closed, driver, filters, client>>

MIDI_CLOCK == 248
MIDI_SYSEX == 240
MIDI_EOX   == 247

IsStatus(b)     == b >= 128
is_real_time(b) == b >= 248
Realtime        == {m \in Shorts : is_real_time(m[1])}
Framed(s)       == <<MIDI_SYSEX>> \o s \o <<MIDI_EOX>>

ASSUME PmInputAssumption ==
  /\ \A m \in Shorts : /\ m \in Seq(1..255) /\ m # <<>> /\ Len(m) <= 3
                       /\ IsStatus(m[1]) /\ m[1] \notin {MIDI_SYSEX, MIDI_EOX}
                       /\ is_real_time(m[1]) => Len(m) = 1
  /\ \A s \in Sysexes : s \in Seq(1..127)
  /\ Filters \subseteq SUBSET (128..255)
  /\ MaxCuts \in Nat
  /\ Gap \notin Seq(0..255)

-----------------------------------------------------------------------------
(* Pm_Enqueue and Pm_Dequeue.  The next message is the first word, unless  *)
(* words were dropped there.                                               *)

Full == Cardinality(Waiting) = Capacity

EnqueueSilently(w) ==  \* its mutant: the overflow is not recorded
  IF closed \/ Full THEN UNCHANGED fifoVars ELSE Put(w)

Enqueue(w) ==
  IF closed THEN UNCHANGED fifoVars ELSE IF Full THEN Drop ELSE Put(w)

Overflows == closed \/ Full

HasData == stream # <<>> /\ Head(stream) # Gap

(* pm_read_short, for a status that is neither filtered out nor embedded   *)
(* in a sysex.                                                             *)
Deliver(w) ==
  /\ Enqueue(w)
  /\ sysex_in_progress' = (sysex_in_progress /\ ~Overflows)
  /\ UNCHANGED sysex_message

(* pm_flush_sysex, with the bytes w of a word.  A sysex whose word is lost *)
(* is not in progress any more: the rest of it is to be dropped.           *)
FlushKept(w) ==  \* mutant of Flush
  /\ Enqueue(w)
  /\ sysex_message' = <<>>
  /\ UNCHANGED sysex_in_progress

Flush(w) ==
  /\ Enqueue(w)
  /\ sysex_message' = <<>>
  /\ sysex_in_progress' = (sysex_in_progress /\ ~Overflows)

(* The byte b of a sysex: the fourth of a word flushes it. *)
PackFive(b) ==  \* mutant of Pack
  LET w == Append(sysex_message, b)
  IN  IF Len(w) > 4 THEN Flush(w)
      ELSE /\ sysex_message' = w
           /\ UNCHANGED <<fifoVars, sysex_in_progress>>

Pack(b) ==
  LET w == Append(sysex_message, b)
  IN  IF Len(w) = 4 THEN Flush(w)
      ELSE /\ sysex_message' = w
           /\ UNCHANGED <<fifoVars, sysex_in_progress>>

(* pm_realtime_filtered, pm_status_filtered, pm_channel_filtered: between   *)
(* them they pass the statuses from 240 to 247, whatever is set.           *)
Filtered(b) == (is_real_time(b) \/ b < MIDI_SYSEX) /\ b \in filters

pm_read_short(m) ==
  CASE Filtered(m[1]) -> UNCHANGED <<fifoVars, sysex_in_progress, sysex_message>>
    [] ~Filtered(m[1]) /\ sysex_in_progress /\ is_real_time(m[1]) -> Pack(m[1])
    [] ~Filtered(m[1]) /\ sysex_in_progress /\ ~is_real_time(m[1]) ->
         sysex_in_progress' = FALSE /\ UNCHANGED <<fifoVars, sysex_message>>
    [] OTHER -> Deliver(m)

-----------------------------------------------------------------------------
Init ==
  /\ Empty
  /\ wire = <<>> /\ data = <<>> /\ bytewise = FALSE
  /\ sysex_in_progress = FALSE /\ sysex_message = <<>>
  /\ filters = {254}
  /\ polled = FALSE /\ sysex = <<>> /\ cuts = 0

(* The driver.  It passes a sysex on in buffers of any size, real-time     *)
(* messages between them or in them, and no other message before its EOX,  *)
(* unless the cable is pulled: then the rest of the sysex never comes.     *)

StartSysex(s) ==
  /\ wire = <<>> /\ data = <<>>
  /\ wire' = Framed(s)
  /\ UNCHANGED <<fifoVars, data, bytewise, sysex_in_progress, sysex_message,
                 cuts, filters, client>>

Cut ==
  /\ wire # <<>> /\ data = <<>> /\ cuts < MaxCuts
  /\ wire' = <<>>
  /\ cuts' = cuts + 1
  /\ UNCHANGED <<fifoVars, data, bytewise, sysex_in_progress, sysex_message,
                 filters, client>>

Short(m) ==
  /\ data = <<>>
  /\ wire = <<>> \/ m \in Realtime
  /\ pm_read_short(m)
  /\ UNCHANGED <<wire, data, bytewise, cuts, filters, client>>

Buffer(n, clock) ==
  /\ data = <<>> /\ n \in 1..Len(wire)
  /\ data' = LET d == SubSeq(wire, 1, n)
             IN  IF clock \in 1..n THEN InsertAt(d, clock, MIDI_CLOCK) ELSE d
  /\ wire' = SubSeq(wire, n + 1, Len(wire))
  /\ UNCHANGED <<fifoVars, bytewise, sysex_in_progress, sysex_message, cuts,
                 filters, client>>

(* pm_read_bytes, no sysex in progress: bytes are dropped up to the start  *)
(* of one, but for real-time messages.  A sysex that is filtered out still *)
(* leaves its first byte, as a message of its own.                         *)
SeekSysex ==
  /\ data # <<>> /\ ~sysex_in_progress
  /\ LET b == Head(data)
     IN  IF b = MIDI_SYSEX /\ b \notin filters
         THEN /\ sysex_in_progress' = TRUE
              /\ UNCHANGED <<fifoVars, data, sysex_message>>
         ELSE /\ data' = Tail(data)
              /\ IF IsStatus(b) /\ b # MIDI_EOX THEN pm_read_short(<<b>>)
                 ELSE UNCHANGED <<fifoVars, sysex_in_progress, sysex_message>>
  /\ UNCHANGED <<wire, bytewise, cuts, filters, client>>

CanCopyWord ==
  /\ ~bytewise /\ sysex_message = <<>> /\ Len(data) >= 4
  /\ \A i \in 1..4 : ~IsStatus(data[i])

CopyWord ==
  /\ sysex_in_progress /\ CanCopyWord
  /\ Deliver(SubSeq(data, 1, 4))
  /\ data' = SubSeq(data, 5, Len(data))
  /\ UNCHANGED <<wire, bytewise, cuts, filters, client>>

(* EOX ends the sysex and flushes what there is of its last word. *)
CopyByte ==
  /\ data # <<>> /\ sysex_in_progress /\ ~CanCopyWord
  /\ data' = Tail(data)
  /\ LET b == Head(data)
     IN  CASE Filtered(b) -> UNCHANGED <<fifoVars, sysex_in_progress, sysex_message>>
           [] b = MIDI_EOX -> /\ Enqueue(Append(sysex_message, b))
                              /\ sysex_message' = <<>>
                              /\ sysex_in_progress' = FALSE
           [] OTHER -> Pack(b)
  /\ bytewise' = (data' # <<>> /\ (Filtered(Head(data)) \/ sysex_message' # <<>>))
  /\ UNCHANGED <<wire, cuts, filters, client>>

DriverStep ==
  \/ (\E s \in Sysexes : StartSysex(s)) \/ Cut
  \/ \E m \in Shorts : Short(m)
  \/ \E n \in 1..Len(wire), clock \in 0..Len(wire) : Buffer(n, clock)
  \/ SeekSysex \/ CopyWord \/ CopyByte

-----------------------------------------------------------------------------
(* The client. *)

(* The bytes of w but for the real-time bytes: its k-th byte is the one    *)
(* with k of the bytes that are kept up to its place.                      *)
Kept(w)  == {i \in DOMAIN w : ~is_real_time(w[i])}
Plain(w) ==
  [k \in 1..Cardinality(Kept(w)) |->
     w[CHOOSE i \in Kept(w) : Cardinality({j \in Kept(w) : j <= i}) = k]]

(* What it has of a sysex once it has read w, having had s: a status begins *)
(* or ends one, data goes on with it, and real-time bytes it takes out      *)
(* (portmidi.h).                                                            *)
Assembled(s, w) ==
  CASE Plain(w) = <<>> -> s
    [] Plain(w) # <<>> /\ Head(w) = MIDI_SYSEX -> Plain(w)
    [] Plain(w) # <<>> /\ IsStatus(Head(w)) /\ Head(w) < MIDI_EOX /\ Head(w) # MIDI_SYSEX -> <<>>
    [] OTHER -> s \o Plain(w)

SetFilter(f) ==
  /\ filters' = f
  /\ UNCHANGED <<fifoVars, driver, client>>

PollAny == stream # <<>>  \* its mutant
PollAnswer == HasData

Poll ==
  /\ polled' = PollAnswer
  /\ UNCHANGED <<fifoVars, driver, filters, sysex>>

(* Pm_Read, with room for one message: it gets that, or pmBufferOverflow,  *)
(* or nothing.                                                             *)
Read ==
  /\ IF stream = <<>> THEN UNCHANGED <<fifoVars, sysex>>
     ELSE /\ Give
          /\ sysex' = IF HasData THEN Assembled(sysex, Head(stream)) ELSE <<>>
  /\ polled' = FALSE
  /\ UNCHANGED <<driver, filters>>

Next ==
  \/ DriverStep
  \/ (\E f \in Filters : SetFilter(f)) \/ Poll \/ Read

Spec == Init /\ [][Next]_vars

(* Effect_Piano's main loop reads when Pm_Poll has answered TRUE, only.    *)
HostLoop == Poll \/ (polled /\ Read)

HostSpec ==
  /\ Init /\ [][DriverStep \/ HostLoop]_vars
  /\ WF_vars(DriverStep) /\ WF_vars(HostLoop)

-----------------------------------------------------------------------------
Word(w) == w # <<>> /\ Len(w) <= 4 /\ ToSet(w) \subseteq 0..255

(* Every message handed to the client fits the four bytes of a PmEvent, and *)
(* a word that is not full yet belongs to a sysex in progress, unless one   *)
(* was cut off: a message that interrupts it leaves the word as it is.      *)
TypeOK ==
  /\ \A i \in DOMAIN stream : stream[i] = Gap \/ Word(stream[i])
  /\ sysex_message # <<>> =>
       /\ Word(sysex_message) /\ Len(sysex_message) < 4
       /\ sysex_in_progress \/ cuts > 0
  /\ bytewise => sysex_in_progress /\ data # <<>>
  /\ closed \in BOOLEAN /\ sysex_in_progress \in BOOLEAN /\ polled \in BOOLEAN
  /\ cuts \in 0..MaxCuts

Starts == {i \in DOMAIN sysex : sysex[i] = MIDI_SYSEX}

(* From one start to the next, or to the end. *)
Piece(i) ==
  SubSeq(sysex, i, Min({j - 1 : j \in {k \in Starts : k > i}} \cup {Len(sysex)}))

(* What the client reads of a sysex is always the beginning of one that    *)
(* was sent: wherever the buffers are cut, real-time messages come between, *)
(* filters are set and words are lost, it never gets a piece out of the     *)
(* middle, nor two pieces as one.  After a sysex was cut off, both may       *)
(* happen, once for each: the next sysex begins behind what was left in     *)
(* sysex_message, in the middle of a word, but never more than three bytes   *)
(* out of place come before it (alone, or behind the lone status that a     *)
(* filtered sysex leaves).                                                 *)
SysexFromTheStart ==
  /\ \A i \in Starts :
       \/ \E s \in Sysexes : IsPrefix(Piece(i), Framed(s))
       \/ cuts > 0 /\ Len(Piece(i)) <= 4 /\ Starts \cap (i + 1)..(i + 4) # {}
  /\ Cardinality(Starts) <= 1 + cuts
  /\ sysex # <<>> /\ 1 \notin Starts =>
       cuts > 0 /\ Starts # {} /\ Min(Starts) <= 4

Unfinished == sysex \notin {<<>>, <<MIDI_SYSEX>>} /\ Last(sysex) # MIDI_EOX

(* A sysex that is broken off is never passed off as complete: the client   *)
(* is told of an overflow before it reads the next message; or it was cut   *)
(* off on its way, and a message that begins with a status follows.  (A     *)
(* sysex whose status is filtered out leaves that status alone.)           *)
CutMeansOverflow ==
  [][Unfinished /\ sysex' # sysex =>
       \/ IsStrictPrefix(sysex, sysex')
       \/ Head(stream) = Gap
       \/ cuts > 0 /\ IsStatus(Head(Head(stream)))]_vars

(* Pm_Read returns a message whenever Pm_Poll has said that there is one:   *)
(* the host's assert(0) is not reached.                                    *)
PollIsKept == polled => HasData

(* "Ordinary processing resumes as soon as a new message arrives": the      *)
(* client comes to know of an overflow, which opens the queue again.       *)
OverflowEnds == closed ~> ~closed
=============================================================================
