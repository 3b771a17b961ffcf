----------------------------- MODULE MCPmOutput ------------------------------
(* PmOutput with a note, a sysex of one, two and four words, and events for *)
(* Pm_Write: a sysex in two calls, one that is interrupted, stray data.     *)
EXTENDS PmOutput

Note  == Word(<<144, 60, 1>>)
Clock == Word(<<248>>)
Start == <<Word(<<240, 1, 2, 3>>), Word(<<4, 0, 0, 5>>)>>
End   == <<Word(<<0, 7, 247>>)>>

MCShorts  == {Note, Clock}
MCSysexes == {<<240, 1, 247>>, <<240, 1, 2, 3, 4, 5, 6, 247>>,
              <<240, 1, 2, 3, 4, 5, 6, 7, 8, 9, 10, 11, 12, 247>>}
MCBuffers == {Start, End, Start \o End, <<Note>> \o End, Start \o <<Note>>}

\* A real-time message among the events of a sysex.
MCEmbedded == {Start \o <<Clock>> \o End}
=============================================================================
