----------------------------- MODULE MCPmQueue ------------------------------
(* PmQueue with three messages of two words; their zeros, and words that *)
(* could be taken for links, in every place.                             *)
EXTENDS PmQueue

MCMessages == {<<0, 2>>, <<2, 0>>, <<1, 3>>}
=============================================================================
