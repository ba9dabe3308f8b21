------------------------------- MODULE AbJsBin ------------------------------
(***************************************************************************)
(* ab_json_parse, which turns a JSON text into a binary document, and      *)
(* ab_json_print, which turns it back (ab_jsonbin.c, first half).  Both    *)
(* are recursive descents, one operator per function here; the state they  *)
(* hand on is a record.  An allocation is taken to succeed.                *)
(***************************************************************************)
EXTENDS AbJsText

CONSTANT PrintBufferSize      \* default_buffer_size, 256 in the code
ASSUME PrintBufferAssumption == PrintBufferSize \in Nat \ {0}

-----------------------------------------------------------------------------
(* Parsing: `at` is the place in the text, jb the document so far, ret the *)
(* first error, and tok the token that ended a list of members.            *)

Fail(s, t, error) == [s EXCEPT !.at = PutBack(t), !.ret = error]

WithBuffer(s, jb) == [s EXCEPT !.jb = jb, !.ret = jb.ret]
Put(s, type, name, value) == WithBuffer(s, PutItem(s.jb, type, name, value))

\* The length of the container whose length stands at `begin`, once its
\* members are there.
Close(s, begin) == WithBuffer(s, UpdateLen(s.jb, begin, Len(s.jb.cells) - begin))

Literals == "FALSE" :> FalseItem @@ "TRUE" :> TrueItem @@ "NULL" :> NullItem

ParseString(x, s, t, name) ==
  LET v == TokenToString(x, t.begin, t.len)
  IN  IF v.ret # "ok" THEN Fail(s, t, v.ret) ELSE Put(s, StringItem, name, v.str)

\* A number that strtoull reads to the end, with the top bit clear, is an
\* unsigned long; any other is a double.
NumberRead(s, t, name, u, d) ==
  CASE u.end = t.next /\ u.value < NumWord \div 2 ->
         Put(s, ULongItem, name, EncodeVarint(u.value))
    [] ~(u.end = t.next /\ u.value < NumWord \div 2) /\ d.end # t.next ->
         Fail(s, t, "invalid_number")
    [] OTHER -> Put(s, DoubleItem, name, DoubleCells(d.halves))

ParseNumber(x, s, t, name) ==
  NumberRead(s, t, name, StrToULL(x, t.begin), StrToD(x, t.begin))

\* What ended the members of a container must be its bracket.
CloseWith(all, head, bracket, error) ==
  CASE all.ret # "ok" -> all
    [] all.ret = "ok" /\ all.tok.type # bracket -> Fail(all, all.tok, error)
    [] OTHER -> Close(all, Len(head.jb.cells))

\* The token behind a member.
Behind(x, s) ==
  LET to(t) == [s EXCEPT !.at = t.next, !.tok = t]
  IN  IF s.ret # "ok" THEN s ELSE to(GetToken(x, s.at))

Goes(s) == s.ret = "ok" /\ s.tok.type = ","

RECURSIVE ParseValue(_, _, _), ParseMembers(_, _), ParseElements(_, _, _)

\* The elements of an array from the id-th on: its name is its number.
ParseElements(x, s, id) ==
  LET more(v) == IF Goes(v) THEN ParseElements(x, v, id + 1) ELSE v
  IN  IF s.ret # "ok" THEN s ELSE more(Behind(x, ParseValue(x, s, Digits(id))))

ArrayFrom(x, head) == CloseWith(ParseElements(x, head, 0), head, "]", "expect_brackets_a")

ParseArray(x, s, name) ==
  LET first == GetToken(x, GetToken(x, s.at).next)
  IN  IF first.type = "]" THEN Put([s EXCEPT !.at = first.next], ArrayItem, name, <<>>)
      ELSE ArrayFrom(x, Put([s EXCEPT !.at = PutBack(first)], ArrayItem, name, <<>>))

\* A member of an object: k and n are its name, c is what should be a colon.
Member(x, s, k, n, c) ==
  CASE k.type # "STRING" -> Fail(s, k, "expect_string")
    [] k.type = "STRING" /\ n.ret # "ok" -> Fail(s, k, n.ret)
    [] k.type = "STRING" /\ n.ret = "ok" /\ c.type # ":" -> Fail(s, c, "expect_colon")
    [] OTHER -> Behind(x, ParseValue(x, [s EXCEPT !.at = c.next], n.str))

MemberFrom(x, s, k) == Member(x, s, k, TokenToString(x, k.begin, k.len), GetToken(x, k.next))

ParseMembers(x, s) ==
  LET more(v) == IF Goes(v) THEN ParseMembers(x, v) ELSE v
  IN  IF s.ret # "ok" THEN s ELSE more(MemberFrom(x, s, GetToken(x, s.at)))

ObjectFrom(x, head) == CloseWith(ParseMembers(x, head), head, "}", "expect_brackets_o")

ParseObject(x, s, name) ==
  LET first == GetToken(x, GetToken(x, s.at).next)
  IN  IF first.type = "}" THEN Put([s EXCEPT !.at = first.next], ObjectItem, name, <<>>)
      ELSE ObjectFrom(x, Put([s EXCEPT !.at = PutBack(first)], ObjectItem, name, <<>>))

\* The value that token t begins.
ValueFrom(x, s, t, name) ==
  LET past == [s EXCEPT !.at = t.next]
      back == [s EXCEPT !.at = PutBack(t)]
  IN  CASE t.type \in DOMAIN Literals -> Put(past, Literals[t.type], name, <<>>)
        [] t.type = "STRING" -> ParseString(x, past, t, name)
        [] t.type = "NUMBER" -> ParseNumber(x, past, t, name)
        [] t.type = "[" -> ParseArray(x, back, name)
        [] t.type = "{" -> ParseObject(x, back, name)
        [] OTHER -> Fail(s, t, "invalid_syntax")

ParseValue(x, s, name) == ValueFrom(x, s, GetToken(x, s.at), name)

\* ab_json_parse of text x into a document of `size` bytes.
AllRead(x, s) ==
  LET end(t) == IF t.type # "END" THEN Fail(s, t, "be_end") ELSE s
  IN  IF s.ret # "ok" THEN s ELSE end(GetToken(x, s.at))

Parse(x, size) ==
  AllRead(x, ParseValue(x, [at |-> 1, jb |-> Buffer(<<>>, size), ret |-> "ok",
                          tok |-> Token("END", 1, 0, 1)], <<>>))

-----------------------------------------------------------------------------
(* Printing: the print buffer holds `text` up to its last NUL, new text    *)
(* goes to offset, and length is its size.  `wild` records a write behind  *)
(* the end of the buffer, or a strlen of text without a NUL.               *)

\* Mutant: the new buffer is sized by the text to come alone.
EnsureShort(p, needed) ==
  LET all == needed + p.offset + 1
  IN  CASE p.offset >= p.length -> [p EXCEPT !.ret = "outofmemory"]
        [] p.offset < p.length /\ all <= p.length -> p
        [] OTHER -> [p EXCEPT !.length = needed * 2]

\* ensure: room for `needed` bytes at offset, in a new buffer if need be.
Ensure(p, needed) ==
  LET all == needed + p.offset + 1
  IN  CASE p.offset >= p.length -> [p EXCEPT !.ret = "outofmemory"]
        [] p.offset < p.length /\ all <= p.length -> p
        [] OTHER -> [p EXCEPT !.length = all * 2]

\* `s` is written at offset, with a NUL behind it if ended, and offset moves on.
Write(p, needed, s, ended, moved) ==
  LET q == Ensure(p, needed)
  IN  IF p.ret # "ok" THEN p
      ELSE IF q.ret # "ok" THEN q
      ELSE [q EXCEPT !.text = SubSeq(@, 1, p.offset) \o s,
                     !.wild = @ \/ p.offset + Len(s) + (IF ended THEN 1 ELSE 0) > q.length,
                     !.ended = ended, !.offset = @ + moved]

UpdateOffset(p) ==
  [p EXCEPT !.offset = Len(p.text), !.wild = @ \/ (~p.ended /\ p.offset < Len(p.text))]

PrintStringPtr(p, u) ==
  LET s == PrintString(u) IN Write(p, Len(s) + 1, s, TRUE, 0)

\* print_double and print_ulong move offset themselves.
PrintNumber(p, s) == Write(p, Len(s) + 1, s, TRUE, Len(s))

Tabs(n) == [i \in 1..n |-> TAB]

RECURSIVE PrintValue(_, _, _, _), PrintFields(_, _, _, _, _), PrintList(_, _, _, _, _)

PrintObject(c, item, p, format) ==
  LET nl   == IF format THEN <<NEWLINE>> ELSE <<>>
      open == Write(p, 2 + Len(nl), <<LBRACE>> \o nl, FALSE, 1 + Len(nl))
      close(all) ==
        [Write(all, IF format THEN all.depth + 1 ELSE 2,
               (IF format THEN Tabs(all.depth - 1) ELSE <<>>) \o <<RBRACE>>, TRUE, 0)
           EXCEPT !.depth = @ - 1]
  IN  close(PrintFields(c, item.value, item.value + item.len,
                        [open EXCEPT !.depth = @ + 1], format))

\* A field: the tabs, the name, the colon, the value, and what stands behind it.
PrintKey(p, name, format) ==
  LET tabs(q)  == IF format THEN Write(q, q.depth, Tabs(q.depth), FALSE, q.depth) ELSE q
      colon(q) == IF format THEN Write(q, 2, <<COLON, TAB>>, FALSE, 2)
                  ELSE Write(q, 1, <<COLON>>, FALSE, 1)
  IN  colon(UpdateOffset(PrintStringPtr(tabs(p), name)))

PrintTail(p, s) == Write(p, Len(s) + 1, s, TRUE, Len(s))

PrintField(c, item, p, more, format) ==
  PrintTail(UpdateOffset(PrintValue(c, item, PrintKey(p, item.name, format), format)),
            (IF more THEN <<COMMA>> ELSE <<>>) \o (IF format THEN <<NEWLINE>> ELSE <<>>))

PrintFields(c, at, end, p, format) ==
  LET item == GetItem(c, at, end)
  IN  CASE p.ret # "ok" \/ at >= end -> p
        [] ~item.ok -> [p EXCEPT !.ret = "no_left_content"]
        [] OTHER -> PrintFields(c, item.next, end,
                                PrintField(c, item, p, item.next < end, format), format)

PrintArray(c, item, p, format) ==
  LET open == Write(p, 1, <<LBRACK>>, FALSE, 1)
      close(all) == [Write(all, 2, <<RBRACK>>, TRUE, 0) EXCEPT !.depth = @ - 1]
  IN  close(PrintList(c, item.value, item.value + item.len,
                      [open EXCEPT !.depth = @ + 1], format))

PrintElement(c, item, p, more, format) ==
  LET comma(q) == IF ~more THEN q
                  ELSE PrintTail(q, IF format THEN <<COMMA, SPACE>> ELSE <<COMMA>>)
  IN  comma(UpdateOffset(PrintValue(c, item, p, format)))

PrintList(c, at, end, p, format) ==
  LET item == GetItem(c, at, end)
  IN  CASE p.ret # "ok" \/ at >= end -> p
        [] ~item.ok -> [p EXCEPT !.ret = "no_left_content"]
        [] OTHER -> PrintList(c, item.next, end,
                              PrintElement(c, item, p, item.next < end, format), format)

PrintValue(c, item, p, format) ==
  CASE item.type \in {NullItem, UnknownItem} -> Write(p, 5, NullWord, TRUE, 0)
    [] item.type = FalseItem -> Write(p, 6, FalseWord, TRUE, 0)
    [] item.type = TrueItem -> Write(p, 5, TrueWord, TRUE, 0)
    [] item.type = DoubleItem -> PrintNumber(p, PrintDouble(DoubleOf(ValueOf(c, item))))
    [] item.type = ULongItem -> PrintNumber(p, PrintULong(GetVarint(c, item.value).value))
    [] item.type = StringItem -> PrintStringPtr(p, ValueOf(c, item))
    [] item.type = ArrayItem -> PrintArray(c, item, p, format)
    [] item.type = ObjectItem -> PrintObject(c, item, p, format)
    [] OTHER -> [p EXCEPT !.ret = "invalid_type"]

\* ab_json_print_func on document c.
PrintDocument(c, format) ==
  LET item == GetItem(c, 1, Len(c) + 1)
      p == [text |-> <<>>, offset |-> 0, length |-> PrintBufferSize, depth |-> 0,
            ended |-> FALSE, wild |-> FALSE, ret |-> "ok"]
  IN  IF ~item.ok THEN [p EXCEPT !.ret = "no_left_content"]
      ELSE UpdateOffset(PrintValue(c, item, p, format))
=============================================================================
