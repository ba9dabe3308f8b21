------------------------------ MODULE MCAbBuf -------------------------------
(* AbBuf for TLC: buffers with one and with two indexes, with no value, one *)
(* and two.                                                                *)
EXTENDS AbBuf

CONSTANTS x1, x2

MCItems == {x1, x2}
MCSchemas == {<<"uniq", "dupl">>, <<"dupl", "uniq">>, <<"list">>}

MCValue(x, u, d) == [val |-> x, uniq |-> u, dupl |-> d, list |-> Null]
MCHeld == {<<>>, <<MCValue(x1, 1, 1)>>, <<MCValue(x1, 1, 1), MCValue(x2, 2, 1)>>}
==============================================================================
