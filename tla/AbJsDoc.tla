------------------------------- MODULE AbJsDoc ------------------------------
(***************************************************************************)
(* A client of the JSON interface: it types a text piece by piece, has     *)
(* ab_json_parse turn it into a document, runs paths on the document that  *)
(* it makes longer segment by segment, and writes values at such paths.    *)
(* AbJsBin and AbJsPath model the calls; this module says what they        *)
(* promise, in terms of the pieces and segments, which the code never      *)
(* sees: only their text reaches it.                                       *)
(***************************************************************************)
EXTENDS AbJsBin, AbJsPath

CONSTANTS
  Pieces,     \* what a text is made of: [kind, text, type, value]
  Starts,     \* texts at hand from the start, the empty one among them
  MaxPieces,  \* bound: longer texts are only those of Starts
  Rooms,      \* sizes of the buffer
  Segments,   \* what a path is made of: [kind, name, ids]
  MaxSegs,    \* bound on the segments of a path
  Longs,      \* the numbers written
  Strings,    \* the strings written
  MaxSets     \* bound on the writes to one document

VARIABLES
  room,       \* buf_size
  text,       \* the text, a sequence of pieces
  doc,        \* the content of the buffer
  path,       \* the path, a sequence of segments
  sets,       \* how many values were written
  did         \* the last call and what it answered

vars == <<room, text, doc, path, sets, did>>

Nothing == [op |-> "none", ret |-> "ok", set |-> <<>>, whole |-> TRUE,
            at |-> <<>>, type |-> 0, value |-> <<>>, before |-> <<>>, wide |-> FALSE]

TextOf(ps) == FlattenSeq([i \in DOMAIN ps |-> ps[i].text])

Dollar == <<36>>
SegText(s) ==
  LET num(n) == Digits(n)
      sep(c) == FlattenSeq([i \in DOMAIN s.ids |-> IF i = 1 THEN num(s.ids[i])
                                                   ELSE <<c>> \o num(s.ids[i])])
  IN  CASE s.kind = "child" -> <<DOT>> \o s.name
        [] s.kind = "deep" -> <<DOT, DOT>> \o s.name
        [] s.kind = "index" -> <<LBRACK>> \o sep(COMMA) \o <<RBRACK>>
        [] s.kind = "all" -> <<LBRACK, 42, RBRACK>>
        [] s.kind = "slice" -> <<LBRACK>> \o sep(COLON) \o <<RBRACK>>
        [] s.kind = "above" ->     \* [?(@.name>n)]
             <<LBRACK, 63, 40, 64, DOT>> \o s.name \o <<62>> \o num(s.ids[1])
               \o <<41, RBRACK>>
PathText(p) == Dollar \o FlattenSeq([i \in DOMAIN p |-> SegText(p[i])])

Init ==
  /\ room \in Rooms
  /\ text \in Starts
  /\ doc = <<>> /\ path = <<>> /\ sets = 0 /\ did = Nothing

\* A text that can no longer become a document is not made longer (bound).
Hopeful(s) == s.ret = "ok" \/ GetToken(TextOf(text), s.at).type = "END"

AddPiece(p) ==
  /\ did = Nothing /\ Len(text) < MaxPieces
  /\ Hopeful(Parse(TextOf(text), room))
  /\ text' = Append(text, p)
  /\ UNCHANGED <<room, doc, path, sets, did>>

\* ab_json_parse: a text that is none leaves the buffer's length as it was.
Load ==
  /\ did = Nothing /\ text # <<>>
  /\ \E s \in {Parse(TextOf(text), room)} :
       /\ doc' = IF s.ret = "ok" THEN s.jb.cells ELSE doc
       /\ did' = [did EXCEPT !.op = "load", !.ret = s.ret]
  /\ UNCHANGED <<room, text, path, sets>>

\* The items that lie one after the other in cells p..end-1.
RECURSIVE Row(_, _, _)
Row(c, p, end) ==
  LET from(item) == IF ~item.ok THEN <<>> ELSE <<p>> \o Row(c, item.next, end)
  IN  from(GetItem(c, p, end))

At(c, p) == GetItem(c, p, Len(c) + 1)
Own(c, p) ==
  LET in(item) ==
        IF item.ok /\ IsContainer(item) THEN Row(c, item.value, item.next) ELSE <<>>
  IN  in(At(c, p))

\* The items in p, itself included.
RECURSIVE Within(_, _)
Within(c, p) == {p} \cup UNION {Within(c, q) : q \in Range(Own(c, p))}

\* Every container is filled exactly by whole items, down from p, and every
\* number and literal has the length of its type.
RECURSIVE Nests(_, _)
Nests(c, p) ==
  LET item == At(c, p)
      own  == Own(c, p)
  IN  /\ item.ok /\ item.type \in FalseItem..ObjectItem
      /\ item.type \in {FalseItem, TrueItem, NullItem} => item.len = 0
      /\ item.type = ULongItem => GetVarint(c, item.value).next = item.next
      /\ item.type = DoubleItem => item.len = 2
      /\ IsContainer(item) /\ item.len # 0 =>
           own # <<>> /\ At(c, LastOf(own)).next = item.next
      /\ \A q \in Range(own) : Nests(c, q)

\* The client goes on with a document only while it is whole, and until it has
\* written MaxSets values (bounds).
Ready == IF doc = <<>> THEN text = <<>> ELSE did.whole

\* ab_json_parse_path, with one segment more than before.
Extend(s) ==
  /\ Ready /\ sets < MaxSets
  /\ Len(path) < MaxSegs
  /\ path' = Append(path, s)
  /\ \E r \in {ParsePath(doc, PathText(Append(path, s)))} :
       did' = [Nothing EXCEPT !.op = "query", !.ret = r.ret, !.set = r.set]
  /\ UNCHANGED <<room, text, doc, sets>>

\* A value was written at the path, in a document at hand from the start (bound).
Wrote(type, value, results) ==
  /\ Ready /\ sets < MaxSets /\ text \in Starts
  /\ \A i \in DOMAIN path : path[i].kind \in {"child", "index", "all"}
  /\ \E r \in results : \E whole \in {Nests(r.c, 1)} :
       /\ doc' = r.c
       /\ did' = [op |-> "set", ret |-> r.ret, set |-> <<>>, whole |-> whole, at |-> path,
                  type |-> type, value |-> value, before |-> doc, wide |-> r.wide]
  /\ path' = <<>> /\ sets' = sets + 1
  /\ UNCHANGED <<room, text>>

SetLong(n) ==
  Wrote(ULongItem, EncodeVarint(n), {FromLong(doc, room, PathText(path), n)})
SetString(u) ==
  Wrote(StringItem, u, {FromString(doc, room, PathText(path), u)})

Next ==
  \/ \E p \in Pieces : AddPiece(p)
  \/ Load
  \/ \E s \in Segments : Extend(s)
  \/ \E n \in Longs : SetLong(n)
  \/ \E u \in Strings : SetString(u)

Spec == Init /\ [][Next]_vars

\* The type invariant: no call writes behind the end of the buffer.
TypeOK ==
  /\ room \in Rooms /\ text \in Starts \cup Seq(Pieces) /\ path \in Seq(Segments)
  /\ doc \in Seq(Nat) /\ Len(doc) <= room
  /\ sets \in 0..MaxSets /\ did.op \in {"none", "load", "query", "set"}

-----------------------------------------------------------------------------
(* What a text means: the grammar of JSON over pieces, and the document    *)
(* that belongs to it.                                                     *)

Item(type, name, value) ==
  <<type>> \o EncodeVarint(Len(name)) \o name \o EncodeVarint(Len(value)) \o value

Nesting(ps, a, i) ==
  Cardinality({j \in a..i : ps[j].kind \in {"{", "["}})
    - Cardinality({j \in a..i : ps[j].kind \in {"}", "]"}})

\* The spans between the commas of ps[a..b] that are not nested.
Parts(ps, a, b) ==
  LET cuts == {i \in a..b : ps[i].kind = "," /\ Nesting(ps, a, i) = 0}
      ends == SetToSortSeq(cuts \cup {b + 1}, <)
  IN  [k \in DOMAIN ends |-> <<IF k = 1 THEN a ELSE ends[k - 1] + 1, ends[k] - 1>>]

\* The documents of ps[a..b] under that name: one, or none if it is no value.
RECURSIVE Documents(_, _, _, _), Content(_, _)
Documents(ps, a, b, name) ==
  IF a > b THEN {}
  ELSE IF a = b THEN IF ps[a].kind \in {"scalar", "string"}
                     THEN {Item(ps[a].type, name, ps[a].value)} ELSE {}
  ELSE IF ps[a].kind = "[" /\ ps[b].kind = "]" THEN
    LET in == Parts(ps, a + 1, b - 1)
        all == Content(ps, [k \in DOMAIN in |-> <<in[k][1], in[k][2], Digits(k - 1)>>])
    IN  {Item(ArrayItem, name, v) : v \in IF b = a + 1 THEN {<<>>} ELSE all}
  ELSE IF ps[a].kind = "{" /\ ps[b].kind = "}" THEN
    LET in == Parts(ps, a + 1, b - 1)
        all == IF \A k \in DOMAIN in : in[k][2] > in[k][1] + 1
                    /\ ps[in[k][1]].kind = "string" /\ ps[in[k][1] + 1].kind = ":"
               THEN Content(ps, [k \in DOMAIN in |->
                      <<in[k][1] + 2, in[k][2], ps[in[k][1]].value>>])
               ELSE {}
    IN  {Item(ObjectItem, name, v) : v \in IF b = a + 1 THEN {<<>>} ELSE all}
  ELSE {}

\* The members of a container, whose spans and names are given, in a row.
Content(ps, spans) ==
  IF spans = <<>> THEN {<<>>}
  ELSE {u \o v : u \in Documents(ps, spans[1][1], spans[1][2], spans[1][3]),
                 v \in Content(ps, Tail(spans))}

(***************************************************************************)
(* ab_json_parse takes exactly the texts that are JSON and whose document  *)
(* fits the buffer, and makes that document of them, whatever their        *)
(* lengths do to the length fields around them.                            *)
(***************************************************************************)
ParseExact ==
  did.op = "load" =>
    LET meant == {v \in Documents(text, 1, Len(text), <<>>) : Len(v) <= room}
    IN  IF did.ret = "ok" THEN meant = {doc} ELSE meant = {}

-----------------------------------------------------------------------------
(* What a document holds, and what a path means: items lie within the      *)
(* value of the container they are in.                                     *)

\* The scalars in p, in order, each with the names of all that it is in.
RECURSIVE Leaves(_, _, _)
Leaves(c, p, names) ==
  LET item == At(c, p)
      own  == Own(c, p)
  IN  IF IsContainer(item)
      THEN FlattenSeq([i \in DOMAIN own |-> Leaves(c, own[i], Append(names, item.name))])
      ELSE << <<Append(names, item.name), item.type, ValueOf(c, item)>> >>

Named(c, items, name) == SelectSeq(items, LAMBDA q : At(c, q).name = name)
FirstOf(items) == SubSeq(items, 1, IF items = <<>> THEN 0 ELSE 1)

RECURSIVE Deep(_, _, _)
Deep(c, p, name) ==
  LET own == Own(c, p)
  IN  IF At(c, p).name = name THEN <<p>>
      ELSE FlattenSeq([i \in DOMAIN own |-> Deep(c, own[i], name)])

\* The number of an item, in halves.
NumberOf(c, p) ==
  LET item == At(c, p)
  IN  CASE item.type = ULongItem -> 2 * GetVarint(c, item.value).value
        [] item.type = DoubleItem -> DoubleOf(ValueOf(c, item))
        [] item.type = TrueItem -> 2
        [] OTHER -> 0

Picked(items, Chosen(_)) ==
  LET on == {i \in DOMAIN items : Chosen(i - 1)}
  IN  [k \in 1..Cardinality(on) |-> items[SetToSortSeq(on, <)[k]]]

\* What segment s selects from item p.
Meant(c, p, s) ==
  LET own    == Own(c, p)
      array  == At(c, p).type = ArrayItem
      field(q) == FirstOf(Named(c, Own(c, q), s.name))
  IN  CASE s.kind = "child" -> FirstOf(Named(c, own, s.name))
        [] s.kind = "deep" -> Deep(c, p, s.name)
        [] s.kind = "above" ->
             SelectSeq(own, LAMBDA q : field(q) # <<>>
                                         /\ NumberOf(c, field(q)[1]) > 2 * s.ids[1])
        [] s.kind = "index" /\ array -> Picked(own, LAMBDA i : i \in Range(s.ids))
        [] s.kind = "slice" /\ array ->
             Picked(own, LAMBDA i : /\ s.ids[1] <= i /\ i < s.ids[2]
                                    /\ (i - s.ids[1]) % s.ids[3] = 0)
        [] s.kind = "all" /\ array -> own
        [] OTHER -> <<>>

RECURSIVE Selected(_, _)
Selected(c, segs) ==
  IF segs = <<>> THEN IF At(c, 1).ok THEN <<1>> ELSE <<>>
  ELSE LET items == Selected(c, Front(segs))
       IN  FlattenSeq([i \in DOMAIN items |-> Meant(c, items[i], Last(segs))])

(***************************************************************************)
(* Where the code is known to mean something else.  It walks past the end  *)
(* of a container that does not end the document; a slice ends only at a   *)
(* member it would take; indexes are counted over all arrays together; and *)
(* a filter needs a member to read its expression on, one with a scalar to *)
(* compare.                                                                *)
(***************************************************************************)
Closed(c, p) == Own(c, p) = <<>> \/ At(c, p).next = Len(c) + 1

Plain(c, items, s) ==
  /\ s.kind \in {"index", "all", "slice", "above"} => \A p \in Range(items) : Closed(c, p)
  /\ s.kind = "child" =>
       \A p \in Range(items) : Closed(c, p) \/ Named(c, Own(c, p), s.name) # <<>>
  /\ s.kind = "deep" => \A p \in Range(items) : \A q \in Within(c, p) : Closed(c, q)
  /\ s.kind = "index" =>
       Cardinality({p \in Range(items) : At(c, p).type = ArrayItem}) < 2
  /\ s.kind = "slice" =>
       \A p \in Range(items) :
         \/ s.ids[2] >= Len(Own(c, p))
         \/ s.ids[1] <= s.ids[2] /\ (s.ids[2] - s.ids[1]) % s.ids[3] = 0
  /\ s.kind = "above" =>
       /\ \E p \in Range(items) : Own(c, p) # <<>>
       /\ \A p \in Range(items) : \A q \in Range(Own(c, p)) :
            \A f \in Range(Named(c, Own(c, q), s.name)) : ~IsContainer(At(c, f))

Regular(c, segs) ==
  \A k \in DOMAIN segs : Plain(c, Selected(c, SubSeq(segs, 1, k - 1)), segs[k])

(***************************************************************************)
(* On a regular document a path selects what it means, in order: the text  *)
(* of the path is cut into the right tokens, and every operator works on   *)
(* all that the one before it selected.                                    *)
(***************************************************************************)
Selects ==
  did.op = "query" /\ Regular(doc, path) =>
    did.ret = "ok" /\ did.set = Selected(doc, path)

\* On any document, what a path of names, wildcards and slices means is among
\* what it selects, and nothing is selected that is no item.
NothingLost ==
  did.op = "query" /\ (\A i \in DOMAIN path : path[i].kind \notin {"index", "above"}) =>
    /\ did.ret = "ok"
    /\ Range(Selected(doc, path)) \subseteq Range(did.set)
    /\ Nests(doc, 1) => Range(did.set) \subseteq Within(doc, 1)

(***************************************************************************)
(* A document that was parsed is printed, with and without layout, as a    *)
(* text that parses to the same document, and the printer never writes or  *)
(* reads behind its buffer, however often that grows.                      *)
(***************************************************************************)
RoundTrip ==
  did.op = "load" /\ did.ret = "ok" =>
    \A format \in BOOLEAN : \E p \in {PrintDocument(doc, format)} :
      /\ p.ret = "ok" /\ ~p.wild
      /\ \E s \in {Parse(p.text, room)} : s.ret = "ok" /\ s.jb.cells = doc

(***************************************************************************)
(* Writing.  The known exceptions: a length that needs more digits when a  *)
(* child is added (wide), a child added to a scalar, and irregular paths.  *)
(***************************************************************************)
Missing(c, segs) == {k \in DOMAIN segs : Selected(c, SubSeq(segs, 1, k)) = <<>>}

Sound(c, segs) ==
  LET into(parents) == parents # <<>> => IsContainer(At(c, LastOf(parents)))
      from(k) == /\ Regular(c, SubSeq(segs, 1, Min({k, Len(segs)})))
                 /\ k \in DOMAIN segs => into(Selected(c, SubSeq(segs, 1, k - 1)))
  IN  from(Min(Missing(c, segs) \cup {Len(segs) + 1}))

\* Two rows of leaves differ in one leaf, which is new or has a new value.
DifferInOne(old, new) ==
  \E k \in DOMAIN new :
    /\ new[k][2] = did.type /\ new[k][3] = did.value
    /\ \/ RemoveAt(new, k) = old
       \/ /\ k \in DOMAIN old /\ RemoveAt(new, k) = RemoveAt(old, k)
          /\ new[k][1] = old[k][1]

\* The path finds what was written at it.
Finds(x) ==
  IF did.type = StringItem
  THEN ToText(doc, x) = [ret |-> "ok", v |-> did.value]
  ELSE ToLong(doc, x) = [ret |-> "ok", v |-> GetVarint(did.value, 1).value]

\* A value that was written is the only thing that changed: the document is
\* whole, and one scalar is new or has a new value.  The path that it was
\* written at finds it there.
Written ==
  did.op = "set" /\ did.ret = "ok" /\ ~did.wide /\ Sound(did.before, did.at) =>
    /\ Nests(doc, 1) /\ At(doc, 1).next = Len(doc) + 1
    /\ DifferInOne(IF did.before = <<>> THEN <<>> ELSE Leaves(did.before, 1, <<>>),
                   Leaves(doc, 1, <<>>))
    /\ (\A k \in Missing(did.before, did.at) : did.at[k].kind = "child")
         => Finds(PathText(did.at))
=============================================================================
