------------------------------ MODULE PmQueue -------------------------------
(***************************************************************************)
(* The queue of pmutil.c between one writer (the callback or the timer     *)
(* that receives MIDI) and one reader (the client), without locks.         *)
(*                                                                         *)
(* buffer is a ring of words; a message takes a slot of msg_size of them.  *)
(* No word of a waiting message is 0: its zeros are replaced by links, a   *)
(* list that starts in the slot's extra first word, so that a slot is free *)
(* if its words are 0 and complete if none is.  head is the reader's own   *)
(* and tail the writer's; they share the words and the field overflow.     *)
(*                                                                         *)
(* Each access to a shared word is a step of its own.  Compiler and        *)
(* processor may reorder the stores of one message, and those that zero a  *)
(* slot: they happen in any order, but, as the comment in Pm_Dequeue       *)
(* assumes, all of them before the same thread's next call.                *)
(***************************************************************************)
EXTENDS Integers, Sequences, FiniteSetsExt

CONSTANTS
  NumMsgs,   \* capacity
  MsgWords,  \* words of a message (2: a PmEvent)
  Messages,  \* messages enqueued
  Gap        \* stands for pmBufferOverflow in the reader's stream

VARIABLES
  buffer, head, tail,
  overflow,        \* 0, or the tail at which messages were dropped, plus 1
  peek, peek_flag, peek_overflow,
  wpc, wmsg, wat,  \* the writer's call: its message and the word it tests next
  wleft,           \* words of the slot it has still to store
  rpc, rop, rat,   \* the reader's call: Pm_Dequeue or Pm_QueuePeek
  rleft,           \* words it has still to zero
  msg,             \* what the call has copied
  polled           \* the reader's last answer is "not empty", of Pm_QueueEmpty

writer == <<wpc, wmsg, wat, wleft>>
reader == <<rpc, rop, rat, rleft, msg, polled>>
peeked == <<peek, peek_flag, peek_overflow>>
vars   == <<buffer, head, tail, overflow, peeked, writer, reader>>

msg_size == MsgWords + 1
len      == NumMsgs * msg_size
Places   == 0..MsgWords     \* the words of a slot
Payload  == 1..MsgWords     \* those that hold the message

ASSUME PmQueueAssumption ==
  /\ NumMsgs \in Nat \ {0} /\ MsgWords \in Nat \ {0}
  /\ Messages \subseteq [Payload -> Nat] /\ Messages # {}
  /\ Gap \notin Messages

(* The slot after the one at p. *)
FollowingLate(p) == IF p + msg_size > len THEN 0 ELSE p + msg_size  \* its mutant
Following(p)     == IF p + msg_size = len THEN 0 ELSE p + msg_size

-----------------------------------------------------------------------------
(* The link in place of a zero is the place of the next one, or msg_size. *)
NextZero(m, i) == Min({j \in Payload : j > i /\ m[j] = 0} \cup {msg_size})

Encode(m) ==
  [i \in Places |-> IF i = 0 \/ m[i] = 0 THEN NextZero(m, i) ELSE m[i]]

(* The places the links of slot s lead to.  *)
Links(s) ==
  LET from[i \in Nat] == IF i < msg_size THEN {i} \cup from[s[i]] ELSE {}
  IN  from[s[0]]

Decode(s) == [i \in Payload |-> IF i \in Links(s) THEN 0 ELSE s[i]]

Slot(p)     == [i \in Places |-> buffer[p + i]]
Complete(p) == \A i \in Places : buffer[p + i] # 0

-----------------------------------------------------------------------------
(* Pm_QueueCreate *)
Init ==
  /\ buffer = [i \in 0..(len - 1) |-> 0]
  /\ head = 0 /\ tail = 0 /\ overflow = 0
  /\ peek = CHOOSE m \in Messages : TRUE
  /\ peek_flag = FALSE /\ peek_overflow = FALSE
  /\ wpc = "idle" /\ wmsg = peek /\ wat = 0 /\ wleft = {}
  /\ rpc = "idle" /\ rop = "dequeue" /\ rat = 0 /\ rleft = {} /\ msg = peek
  /\ polled = FALSE

-----------------------------------------------------------------------------
(* The writer. *)

(* Pm_Enqueue, and Pm_SetOverflow, do nothing until the reader has         *)
(* acknowledged an overflow.                                               *)
Refuse ==
  /\ wpc = "idle" /\ overflow # 0
  /\ UNCHANGED vars

Enqueue(m) ==
  /\ wpc = "idle" /\ overflow = 0
  /\ wpc' = "test" /\ wmsg' = m /\ wat' = 0
  /\ UNCHANGED <<buffer, head, tail, overflow, peeked, wleft, reader>>

(* Pm_QueueFull, called by Pm_Enqueue: is a word of the slot in use?  A    *)
(* test of the first word only is the mutant.                              *)
LastTestedFirst == 0
LastTested      == MsgWords

TestFree ==
  /\ wpc = "test"
  /\ IF buffer[tail + wat] # 0
     THEN wpc' = "full" /\ UNCHANGED <<wat, wleft>>
     ELSE IF wat = LastTested
          THEN wpc' = "store" /\ wleft' = Places /\ UNCHANGED wat
          ELSE wat' = wat + 1 /\ UNCHANGED <<wpc, wleft>>
  /\ UNCHANGED <<buffer, head, tail, overflow, peeked, wmsg, reader>>

DropMessage ==
  /\ wpc = "full"
  /\ overflow' = tail + 1
  /\ wpc' = "idle"
  /\ UNCHANGED <<buffer, head, tail, peeked, wmsg, wat, wleft, reader>>

StoreWord(i) ==
  /\ wpc = "store" /\ i \in wleft
  /\ buffer' = [buffer EXCEPT ![tail + i] = Encode(wmsg)[i]]
  /\ wleft' = wleft \ {i}
  /\ UNCHANGED <<head, tail, overflow, peeked, wpc, wmsg, wat, reader>>

Enqueued ==
  /\ wpc = "store" /\ wleft = {}
  /\ tail' = Following(tail)
  /\ wpc' = "idle"
  /\ UNCHANGED <<buffer, head, overflow, peeked, wmsg, wat, wleft, reader>>

SetOverflow ==
  /\ wpc = "idle" /\ overflow = 0
  /\ overflow' = tail + 1
  /\ UNCHANGED <<buffer, head, tail, peeked, writer, reader>>

-----------------------------------------------------------------------------
(* The reader.  Pm_Dequeue first returns what Pm_QueuePeek has found. *)

DequeuePeekedOverflow ==
  /\ rpc = "idle" /\ peek_overflow
  /\ peek_overflow' = FALSE /\ polled' = FALSE
  /\ UNCHANGED <<buffer, head, tail, overflow, peek, peek_flag, writer,
                 rpc, rop, rat, rleft, msg>>

DequeuePeeked ==
  /\ rpc = "idle" /\ ~peek_overflow /\ peek_flag
  /\ msg' = peek
  /\ peek_flag' = FALSE /\ polled' = FALSE
  /\ UNCHANGED <<buffer, head, tail, overflow, peek, peek_overflow, writer,
                 rpc, rop, rat, rleft>>

(* Pm_QueuePeek calls Pm_Dequeue with peek_overflow put aside; only the    *)
(* reader looks at it, so it may as well stay.                             *)
Call(op) ==
  /\ rpc = "idle" /\ ~peek_flag
  /\ op = "dequeue" => ~peek_overflow
  /\ rop' = op
  /\ rpc' = "overflow"
  /\ UNCHANGED <<buffer, head, tail, overflow, peeked, writer, rat, rleft, msg,
                 polled>>

(* overflow == head + 1 && !buffer[head] *)
CheckOverflow ==
  /\ rpc = "overflow"
  /\ IF overflow = head + 1
     THEN rpc' = "first" /\ UNCHANGED rat
     ELSE rpc' = "test" /\ rat' = MsgWords
  /\ UNCHANGED <<buffer, head, tail, overflow, peeked, writer, rop, rleft, msg,
                 polled>>

(* Without !buffer[head]: the mutant of CheckEmptied. *)
CheckNothing ==
  /\ rpc = "first"
  /\ rpc' = "lost"
  /\ UNCHANGED <<buffer, head, tail, overflow, peeked, writer, rop, rat, rleft, msg,
                 polled>>

CheckEmptied ==
  /\ rpc = "first"
  /\ IF buffer[head] = 0
     THEN rpc' = "lost" /\ UNCHANGED rat
     ELSE rpc' = "test" /\ rat' = MsgWords
  /\ UNCHANGED <<buffer, head, tail, overflow, peeked, writer, rop, rleft, msg,
                 polled>>

Acknowledge ==
  /\ rpc = "lost"
  /\ overflow' = 0
  /\ peek_overflow' = (peek_overflow \/ rop = "peek")
  /\ rpc' = "idle" /\ polled' = FALSE
  /\ UNCHANGED <<buffer, head, tail, peek, peek_flag, writer, rop, rat, rleft, msg>>

(* From the back of the slot to its front; a word that is 0 means no data. *)
TestWord ==
  /\ rpc = "test"
  /\ IF buffer[head + rat] = 0
     THEN rpc' = "idle" /\ polled' = FALSE /\ UNCHANGED rat
     ELSE /\ IF rat = 0 THEN rpc' = "take" /\ UNCHANGED rat
                        ELSE rat' = rat - 1 /\ UNCHANGED rpc
          /\ UNCHANGED polled
  /\ UNCHANGED <<buffer, head, tail, overflow, peeked, writer, rop, rleft, msg>>

(* All but the extra word are zeroed after TakeShort, the mutant of Take. *)
TakeShort ==
  /\ rpc = "take"
  /\ msg' = Decode(Slot(head))
  /\ rpc' = "zero" /\ rleft' = Payload
  /\ UNCHANGED <<buffer, head, tail, overflow, peeked, writer, rop, rat, polled>>

Take ==
  /\ rpc = "take"
  /\ msg' = Decode(Slot(head))
  /\ rpc' = "zero" /\ rleft' = Places
  /\ UNCHANGED <<buffer, head, tail, overflow, peeked, writer, rop, rat, polled>>

ZeroWord(i) ==
  /\ rpc = "zero" /\ i \in rleft
  /\ buffer' = [buffer EXCEPT ![head + i] = 0]
  /\ rleft' = rleft \ {i}
  /\ UNCHANGED <<head, tail, overflow, peeked, writer, rpc, rop, rat, msg, polled>>

Dequeued ==
  /\ rpc = "zero" /\ rleft = {}
  /\ head' = Following(head)
  /\ rpc' = "idle" /\ polled' = FALSE
  /\ IF rop = "peek" THEN peek' = msg /\ peek_flag' = TRUE
                     ELSE UNCHANGED <<peek, peek_flag>>
  /\ UNCHANGED <<buffer, tail, overflow, peek_overflow, writer, rop, rat, rleft, msg>>

(* Pm_QueueEmpty looks at one word, the first of the slot; its mutant      *)
(* forgets the message that was peeked.                                    *)
IsEmptyRing  == buffer[head] = 0
IsEmpty      == buffer[head] = 0 /\ ~peek_flag

QueueEmpty ==
  /\ rpc = "idle"
  /\ polled' = ~IsEmpty
  /\ UNCHANGED <<buffer, head, tail, overflow, peeked, writer,
                 rpc, rop, rat, rleft, msg>>

-----------------------------------------------------------------------------
WriterStep ==
  \/ Refuse \/ (\E m \in Messages : Enqueue(m)) \/ TestFree \/ DropMessage
  \/ (\E i \in Places : StoreWord(i)) \/ Enqueued \/ SetOverflow

ReaderStep ==
  \/ DequeuePeekedOverflow \/ DequeuePeeked
  \/ (\E op \in {"dequeue", "peek"} : Call(op))
  \/ CheckOverflow \/ CheckEmptied \/ Acknowledge
  \/ TestWord \/ Take \/ (\E i \in Places : ZeroWord(i)) \/ Dequeued
  \/ QueueEmpty

Next == WriterStep \/ ReaderStep

Spec == Init /\ [][Next]_vars

-----------------------------------------------------------------------------
SlotStarts == {n * msg_size : n \in 0..(NumMsgs - 1)}

TypeOK ==
  /\ buffer \in [0..(len - 1) -> Nat]
  /\ head \in SlotStarts /\ tail \in SlotStarts
  /\ overflow \in {0} \cup {p + 1 : p \in SlotStarts}
  /\ peek \in [Payload -> Nat] /\ peek_flag \in BOOLEAN
  /\ peek_overflow \in BOOLEAN
  /\ wpc \in {"idle", "test", "full", "store"} /\ wmsg \in Messages
  /\ wat \in Places /\ wleft \in SUBSET Places
  /\ rpc \in {"idle", "overflow", "first", "lost", "test", "take", "zero"}
  /\ rop \in {"dequeue", "peek"} /\ rat \in Places /\ rleft \in SUBSET Places
  /\ msg \in [Payload -> Nat] /\ polled \in BOOLEAN

(* The two threads are never in the same slot.  The writer stores into     *)
(* free words only, and no word it has stored or has still to store is     *)
(* being taken or zeroed: two accesses to a word, one of them a store,     *)
(* never meet but in a test of one word for 0.                             *)
NoSharedSlot ==
  /\ wpc = "store" => \A i \in wleft : buffer[tail + i] = 0
  /\ rpc \in {"take", "zero"} =>
       \A i \in (IF rpc = "take" THEN Places ELSE rleft) : buffer[head + i] # 0
  /\ wpc = "store" /\ wleft # {} /\ head = tail =>
       rpc # "take" /\ (rpc = "zero" => rleft = {})

-----------------------------------------------------------------------------
(* The stream of PmFifo.  A message is in it from the last store of its    *)
(* words to the last zeroing of one; one that was peeked, until Pm_Dequeue *)
(* returns it.                                                             *)
Removing == rpc = "zero" /\ rleft # {}

Oldest == IF rpc = "zero" THEN Following(head) ELSE head
Place(k) == (Oldest + k * msg_size) % len

InRing ==
  LET most == IF Removing THEN NumMsgs - 1 ELSE NumMsgs
      n == Max({j \in 0..most : \A k \in 0..(j - 1) : Complete(Place(k))})
  IN  [k \in 1..n |-> Decode(Slot(Place(k - 1)))]

Stream ==
  (IF peek_overflow THEN <<Gap>> ELSE <<>>)
    \o (IF peek_flag THEN <<peek>> ELSE <<>>)
    \o (IF Removing \/ (rpc = "zero" /\ rop = "peek") THEN <<msg>> ELSE <<>>)
    \o InRing
    \o (IF overflow # 0 THEN <<Gap>> ELSE <<>>)

Fifo == INSTANCE PmFifo WITH stream <- Stream, closed <- overflow # 0,
                             Capacity <- NumMsgs + 1

(* The queue is a FIFO that tells of its gaps: every message put is given  *)
(* out complete, once and in order, and each drop is reported between the  *)
(* last message before and the first one after it, whatever the two        *)
(* threads' interleaving and however the stores are reordered.             *)
IsFifo == Fifo!FifoSpec

(* Pm_Enqueue drops a message only if the queue was full when it looked,   *)
(* and Pm_Dequeue answers pmNoData only if no message was complete.        *)
HonestAnswers ==
  [][/\ wpc = "test" /\ wpc' = "full" =>
          Len(InRing) + (IF Removing THEN 1 ELSE 0) = NumMsgs
     /\ rpc = "test" /\ rpc' = "idle" => InRing = <<>>]_vars

(* Pm_QueueEmpty never answers "empty" while a message waits for the        *)
(* reader.  The answer "not empty" is a promise of a message only while    *)
(* the writer is not storing one: it may have been given for a half-stored *)
(* message, and then, and only then, does the Pm_Dequeue that follows find *)
(* no data.  (Effect_Piano.cpp has an assert(0) there.)                    *)
EmptyIsHonest ==
  /\ rpc = "idle" /\ IsEmpty => InRing = <<>> /\ ~peek_flag
  /\ polled /\ rpc = "test" /\ buffer[head + rat] = 0 =>
       wpc = "store" /\ tail = head /\ wleft # {}
=============================================================================
