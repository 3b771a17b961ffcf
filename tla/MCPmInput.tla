----------------------------- MODULE MCPmInput ------------------------------
(* PmInput with a queue of two words; a sysex of three words and one of one. *)
EXTENDS PmInput

MCShorts   == {<<144, 1>>, <<MIDI_CLOCK>>}
MCSysexes  == {<<1, 2, 3, 4, 5, 6, 7>>, <<9>>}
MCFilters  == {{254}, {144, MIDI_SYSEX, MIDI_CLOCK, 254}}
MCMessages == {}

\* Bounds: at most two clock bytes are on their way to the client; once a
\* sysex was cut off none is, and no sysex is filtered out.
Clocks(s)   == Len(SelectSeq(s, LAMBDA b : b = MIDI_CLOCK))
MCFewClocks ==
  LET n == Clocks(data \o sysex_message
                    \o FlattenSeq(SelectSeq(stream, LAMBDA w : w # Gap)))
  IN  n <= 2 /\ (cuts > 0 => n = 0 /\ filters = {254})
=============================================================================
