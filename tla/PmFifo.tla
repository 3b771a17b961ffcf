------------------------------- MODULE PmFifo -------------------------------
(***************************************************************************)
(* What a PmQueue promises the two threads that share it (pmutil.h): the   *)
(* reader gets the messages the writer put, complete and in order, and     *)
(* wherever messages were dropped it is told so, at that very place.       *)
(*                                                                         *)
(* stream is what the reader has still to be given: messages, and a Gap    *)
(* where messages were dropped.  From a drop until the reader has come to  *)
(* know of it the queue is closed: it takes no message.                    *)
(***************************************************************************)
EXTENDS Integers, Sequences, FiniteSets

CONSTANTS Messages, Capacity, Gap

ASSUME PmFifoAssumption == Capacity \in Nat \ {0} /\ Gap \notin Messages

VARIABLES stream, closed

fifoVars == <<stream, closed>>

Waiting == {i \in DOMAIN stream : stream[i] # Gap}

Empty == stream = <<>> /\ closed = FALSE

Put(m) ==
  /\ ~closed
  /\ Cardinality(Waiting) < Capacity
  /\ stream' = Append(stream, m)
  /\ UNCHANGED closed

Drop ==
  /\ ~closed
  /\ stream' = Append(stream, Gap)
  /\ closed' = TRUE

(* The reader is given the next message, or told of a gap; with the last   *)
(* gap the queue is open again.                                            *)
Give ==
  /\ stream # <<>>
  /\ stream' = Tail(stream)
  /\ closed' = (closed /\ stream # <<Gap>>)

(* A reader that looks ahead finds the gap, but is told of it later.  Two  *)
(* gaps with nothing between them become one.                              *)
LookAhead ==
  /\ closed
  /\ stream \in {<<Gap>>, <<Gap, Gap>>}
  /\ stream' = <<Gap>>
  /\ closed' = FALSE

FifoNext == (\E m \in Messages : Put(m)) \/ Drop \/ Give \/ LookAhead

FifoSpec == Empty /\ [][FifoNext]_fifoVars
=============================================================================
