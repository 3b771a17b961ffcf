----------------------------- MODULE MidiStream ------------------------------
(***************************************************************************)
(* What the functions of portmidi.c that write MIDI promise their caller:  *)
(* bytes and short messages reach the device in the order in which they    *)
(* were handed over, each once and nothing else.  A call that fails loses  *)
(* the end of what it was given, never a part with something behind it.    *)
(***************************************************************************)
EXTENDS Integers, SequencesExt

VARIABLES
  due,    \* handed over and still to be sent
  out,    \* sent to the device
  answer  \* of the last call: "ok" or "error"; "busy" during a call

streamVars == <<due, out, answer>>

(* Some of what is due is sent, and kept is still due. *)
Sends(kept) ==
  LET n == Len(out') - Len(out)
  IN  /\ n >= 0
      /\ out' = out \o SubSeq(due, 1, n)
      /\ due' = SubSeq(due, n + 1, kept)

Call ==
  /\ answer # "busy"
  /\ answer' = "busy"
  /\ IsPrefix(due, due')
  /\ UNCHANGED out

Transmit ==
  /\ answer' = answer \/ (answer = "busy" /\ answer' = "ok")
  /\ Sends(Len(due))

Fail ==
  /\ answer = "busy" /\ answer' = "error"
  /\ Sends(Len(out') - Len(out) + Len(due'))

(* The caller asks that what was not sent be given up. *)
Abort ==
  /\ answer # "busy"
  /\ due' = <<>>
  /\ UNCHANGED <<out, answer>>

StreamInit == due = <<>> /\ out = <<>> /\ answer = "ok"
StreamNext == Call \/ Transmit \/ Fail \/ Abort
StreamSpec == StreamInit /\ [][StreamNext]_streamVars
=============================================================================
