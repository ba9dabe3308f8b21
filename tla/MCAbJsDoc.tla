------------------------------ MODULE MCAbJsDoc ------------------------------
(* AbJsDoc for TLC: the pieces of texts, and documents and paths.          *)
EXTENDS AbJsDoc

Mark(k, c) == [kind |-> k, text |-> <<c>>, type |-> 0, value |-> <<>>]
Scalar(t, type, v) == [kind |-> "scalar", text |-> t, type |-> type, value |-> v]
Quoted(t, v) == [kind |-> "string", text |-> <<QUOTE>> \o t \o <<QUOTE>>,
                 type |-> StringItem, value |-> v]

LO == Mark("{", LBRACE)   RO == Mark("}", RBRACE)
LA == Mark("[", LBRACK)   RA == Mark("]", RBRACK)
CM == Mark(",", COMMA)    CL == Mark(":", COLON)
One == Scalar(<<49, SPACE>>, ULongItem, <<1>>)
Big == Scalar(<<49, 53, 48, SPACE>>, DoubleItem, <<0, 300>>)         \* 150
Half == Scalar(<<MINUS, 49, DOT, 53, SPACE>>, DoubleItem, <<1, 3>>)  \* -1.5
True1 == Scalar(TrueWord, TrueItem, <<>>)
Name(c) == Quoted(<<c>>, <<c>>)
A == Name(97)  B == Name(98)
\* "\n\u20ac": a short escape and three bytes of UTF-8.
Euro == Quoted(<<BSL, 110, BSL, 117, 50, 48, 97, 99>>, <<10, 226, 130, 172>>)
\* "\ud83d": half of a pair.
Lone == [kind |-> "bad", text |-> <<QUOTE, BSL, 117, 100, 56, 51, 100, QUOTE>>,
         type |-> 0, value |-> <<>>]

MCPieces == {LO, RO, LA, RA, CM, CL, One, Big, A, Euro, Lone}

\* {"a":[1,150],"b":1}, {"b":1,"a":[[1],[1,-1.5]]}, {"a":1,"b":{"a":1,"b":[]}},
\* [{"a":150},{"a":"a"},{"b":1},true], [[1,1,1,{"b":{"a":150}}]]
Docs == {
  <<LO, A, CL, LA, One, CM, Big, RA, CM, B, CL, One, RO>>,
  <<LO, B, CL, One, CM, A, CL, LA, LA, One, RA, CM, LA, One, CM, Half, RA, RA, RO>>,
  <<LO, A, CL, One, CM, B, CL, LO, A, CL, One, CM, B, CL, LA, RA, RO, RO>>,
  <<LA, LO, A, CL, Big, RO, CM, LO, A, CL, A, RO, CM, LO, B, CL, One, RO, CM, True1, RA>>,
  <<LA, LA, One, CM, One, CM, One, CM, LO, B, CL, LO, A, CL, Big, RO, RO, RA, RA>>}

MCStrings == {<<98, 99, 100>>}

MCStarts == {<<>>} \cup Docs

Seg(k, n, i) == [kind |-> k, name |-> n, ids |-> i]
MCSegments == {Seg("child", <<97>>, <<>>), Seg("child", <<98>>, <<>>),
               Seg("deep", <<97>>, <<>>), Seg("index", <<>>, <<0>>),
               Seg("index", <<>>, <<3, 1>>), Seg("all", <<>>, <<>>),
               Seg("slice", <<>>, <<0, 4, 2>>), Seg("slice", <<>>, <<1, 3, 1>>),
               Seg("above", <<97>>, <<1>>)}
==============================================================================
