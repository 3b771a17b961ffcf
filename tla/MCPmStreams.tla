----------------------------- MODULE MCPmStreams -----------------------------
(* PmStreams with an input and an output, and blocks for as many streams    *)
(* as can be open, so that one lost leaves less memory than is needed.                                                                   *)
EXTENDS PmStreams

MCFound  == <<"piano", "synth">>
MCInputs == {"piano"}
MCIds    == 1..2
=============================================================================
