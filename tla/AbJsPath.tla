------------------------------ MODULE AbJsPath ------------------------------
(***************************************************************************)
(* Paths into binary documents (ab_jsonpath.c): the tokens of a path, the  *)
(* recursive descent that runs it on the set of items selected so far, and *)
(* the writing of a value, which makes the items a path lacks.             *)
(*                                                                         *)
(* An item is the place of its first cell.  Numbers of expressions are in  *)
(* halves, as the doubles of AbJsText.                                     *)
(***************************************************************************)
EXTENDS AbJsText

CONSTANT ItemRoom      \* the size of tmpbuf in ab_jspath_add_child, 32
ASSUME ItemRoomAssumption == ItemRoom \in Nat

-----------------------------------------------------------------------------
(* ab_jspath_get_all_token.                                                *)

PathMarks ==
  36 :> "ROOT" @@ 64 :> "CURRENT" @@ LBRACK :> "SUB_START" @@ RBRACK :> "SUB_END"
    @@ 42 :> "WILDCARD" @@ COMMA :> "UNION" @@ COLON :> "SLICE" @@ 63 :> "FILTER"
    @@ 40 :> "EXP_START" @@ 41 :> "EXP_END" @@ PLUS :> "ADD" @@ MINUS :> "SUB"
    @@ 47 :> "DEV" @@ 37 :> "MOD" @@ 62 :> "GT" @@ 60 :> "LT" @@ DOT :> "CHILD"

\* Two characters that are one token.  Those of `Halves` mean nothing alone.
PathPairs ==
  <<DOT, DOT>> :> "RECURSIVE" @@ <<62, 61>> :> "GE" @@ <<60, 61>> :> "LE"
    @@ <<61, 61>> :> "EQ" @@ <<33, 61>> :> "NE" @@ <<124, 124>> :> "OR"
    @@ <<38, 38>> :> "AND"
Halves == {61, 33, 124, 38}

IdChars == 1..255 \ (DOMAIN PathMarks \cup Halves \cup {SPACE, TAB})

PathToken(type, num, str, next) ==
  [type |-> type, num |-> num, str |-> str, next |-> next]

\* The token at b.  At half a pair the loop of the code does not move on: it
\* stores the token it has again, and ends never.
PathTokenAt(s, b) ==
  LET c == Char(s, b)
      two == <<c, Char(s, b + 1)>>
      e == StringStop(s, b + 1)
      string(v) == PathToken(IF v.ret = "ok" THEN "STRING" ELSE "INVALID", 0, v.str, e + 1)
      n == SkipWhile(s, b, DigitChars \cup {DOT})
      m == SkipWhile(s, b, IdChars)
  IN  CASE c = 0 -> PathToken("END", 0, <<>>, b)
        [] c = QUOTE /\ Char(s, e) # QUOTE -> PathToken("INVALID", 0, <<>>, b)
        [] c = QUOTE /\ Char(s, e) = QUOTE -> string(TokenToString(s, b + 1, e - b - 1))
        [] IsDigit(c) -> PathToken("NUMBER", StrToD(s, b).halves, <<>>,
                                   IF s[n - 1] = DOT THEN n - 1 ELSE n)
        [] two \in DOMAIN PathPairs -> PathToken(PathPairs[two], 0, <<>>, b + 2)
        [] c \in Halves /\ two \notin DOMAIN PathPairs ->
             PathToken("ENDLESS", 0, <<>>, b)
        [] c \in DOMAIN PathMarks /\ two \notin DOMAIN PathPairs ->
             PathToken(PathMarks[c], 0, <<>>, b + 1)
        [] OTHER -> PathToken("ID", 0, SubSeq(s, b, m - 1), m)

RECURSIVE PathTokens(_, _)
PathTokens(s, i) ==
  LET from(t) == IF t.type \in {"END", "INVALID", "ENDLESS"} THEN <<t>>
                 ELSE <<t>> \o PathTokens(s, t.next)
  IN  from(PathTokenAt(s, SkipWhile(s, i, {SPACE, TAB})))

-----------------------------------------------------------------------------
(* The parser.  x and cur: the tokens and the current one; c: the cells;   *)
(* base and end: where the document at hand begins and ends (a filter runs *)
(* its expression on a member); room: the size of the buffer; set: what is *)
(* selected; up: parent_map; val: the value of an expression; wide:        *)
(* whether adding a child made the length of a container need more digits. *)

NumVal(n) == [type |-> "num", num |-> n, str |-> <<>>, first |-> 0]
StrVal(v, s, first) == [v EXCEPT !.type = "str", !.str = s, !.first = first]

Type(ps) == IF ps.cur \in DOMAIN ps.x THEN ps.x[ps.cur].type ELSE "NONE"
Tok(ps) == ps.x[ps.cur]
Step(ps) == [ps EXCEPT !.cur = @ + 1]
Error(ps, e) == [ps EXCEPT !.ret = e]
Expected(ps, e) == [ps EXCEPT !.ret = e, !.cur = @ - 1]

\* The division of C, towards zero, for b # 0; the int of a double.
Quotient(a, b) ==
  LET n == IF b < 0 THEN -a ELSE a
      d == IF b < 0 THEN -b ELSE b
  IN  IF n < 0 THEN -((-n) \div d) ELSE n \div d
Remainder(a, b) == a - b * Quotient(a, b)
Whole(h) == Quotient(h, 2)

\* ab_jspath_get_item, ab_jspath_get_child, ab_jspath_get_next.  All of them
\* look up to the end of the document, and so does what follows: the members
\* of a container are followed by what stands behind the container.
ItemAt(ps, p) ==
  IF p \in ps.base..(ps.end - 1) THEN GetItem(ps.c, p, ps.end) ELSE NoItem
Valid(ps, p) == IF ItemAt(ps, p).ok THEN p ELSE Nil
FirstChild(ps, p) ==
  IF p \in ps.base..(ps.end - 1) THEN Valid(ps, GetChild(ps.c, p, ps.end)) ELSE Nil
NextItem(ps, p) == Valid(ps, GetSibling(ps.c, p, ps.end))

RECURSIVE Walk(_, _)
Walk(ps, p) == IF p = Nil THEN <<>> ELSE <<p>> \o Walk(ps, NextItem(ps, p))
Members(ps, p) == Walk(ps, FirstChild(ps, p))

\* The first n members of parent were visited: with is_mkdir they are entered
\* in parent_map, where an entry that exists stays.
Visit(ps, parent, kids, n) ==
  IF ps.mkdir
  THEN [ps EXCEPT !.up = @ @@ [k \in {kids[i] : i \in 1..n} |-> parent]]
  ELSE ps

Select(ps, items) == [ps EXCEPT !.tmp = @ \o items]

\* ab_jspath_swap_set.
Swap(ps) == [ps EXCEPT !.set = ps.tmp, !.tmp = <<>>]
-----------------------------------------------------------------------------
(* Changing the document.                                                  *)

\* The lengths of item and all around it grow by diff, from the inside out.
\* A length that needs more digits makes what is around it longer by those
\* too: ab_jspath_from_value counts them in (counted), ab_jspath_add_child
\* does not.  A length that is not in the document is read and written all the
\* same: what comes of it is undefined.
RECURSIVE Lengthen(_, _, _, _)

\* Mutant: a length that needs more digits is never counted in.
LengthenPlain(ps, item, diff, counted) ==
  LET at == LenAt(ps.c, item)
      jb == UpdateLen(Buffer(ps.c, ps.room), at, diff)
      qs == [ps EXCEPT !.c = jb.cells, !.end = @ + Len(jb.cells) - Len(ps.c)]
  IN  CASE at \notin DOMAIN ps.c -> Error(ps, "undefined")
        [] jb.ret # "ok" -> Error(ps, jb.ret)
        [] item = ps.base -> qs
        [] item \notin DOMAIN ps.up -> Error(qs, "parent_item_lost")
        [] OTHER -> Lengthen(qs, ps.up[item], diff, counted)

Lengthen(ps, item, diff, counted) ==
  LET up(qs, more) ==
        CASE item = ps.base -> qs
          [] item # ps.base /\ item \notin DOMAIN ps.up -> Error(qs, "parent_item_lost")
          [] OTHER -> Lengthen(qs, ps.up[item], IF counted THEN diff + more ELSE diff, counted)
      set(jb, more) ==
        IF jb.ret # "ok" THEN Error(ps, jb.ret)
        ELSE up([ps EXCEPT !.c = jb.cells, !.end = @ + more,
                           !.wide = @ \/ (more # 0 /\ ~counted)], more)
      update(jb) == set(jb, Len(jb.cells) - Len(ps.c))
      from(at) ==
        IF at \notin DOMAIN ps.c \/ GetVarint(ps.c, at).next = Nil
        THEN Error(ps, "undefined")
        ELSE update(UpdateLen(Buffer(ps.c, ps.room), at, diff))
  IN  from(LenAt(ps.c, item))

\* The loop of ab_jspath_add_child over parent and all around it.
LengthenParents(ps, parent, diff) == Lengthen(ps, parent, diff, FALSE)

\* ab_jspath_add_child: a member `name` without type or value at the end of
\* parent, which is then what is selected.
AddChild(ps, parent, name) ==
  LET size == ps.end - ps.base
      insert(new, at) ==
        [ps EXCEPT !.c = SubSeq(@, 1, at - 1) \o new \o SubSeq(@, at, Len(@)),
                   !.end = @ + Len(new)]
      enter(all, at, off) ==
        CASE all.ret = "undefined" -> all
          [] all.ret \notin {"ok", "undefined"} -> [all EXCEPT !.ret = "ok"]
          [] OTHER -> [all EXCEPT !.up = @ @@ ((at + off) :> (parent + off)), !.set = <<at>>]
      \* off: by how much what stands behind the lengths was moved.
      moved(all, new, at) == enter(all, at, all.end - ps.end - Len(new))
      add(new, item) ==
        CASE Len(new) + size > ps.room -> ps
          [] Len(new) + size <= ps.room /\ ~item.ok -> Error(ps, "undefined")
          [] OTHER -> moved(LengthenParents(insert(new, item.next), parent, Len(new)),
                            new, item.next)
  IN  add(PutItem(Buffer(<<>>, ItemRoom), UnknownItem, name, <<>>).cells, ItemAt(ps, parent))

\* The end of exe_child and exe_index: nothing was found under `parent`, the
\* last item looked at.  An error of ab_jspath_add_child is dropped here.
MakeChild(ps, parent, name, type) ==
  IF ~ps.mkdir \/ parent = Nil \/ ps.set # <<>> THEN ps
  ELSE AddChild(IF ItemAt(ps, parent).type = UnknownItem
                THEN [ps EXCEPT !.c[parent] = type] ELSE ps, parent, name)

-----------------------------------------------------------------------------
(* The operators of a path, on every item of the set in turn.              *)

LastOf(items) == IF items = <<>> THEN Nil ELSE items[Len(items)]

\* Mutant: what an earlier item yielded is dropped when the next is searched.
ChildAmongLast(ps, p, kids, name) ==
  LET hits == {i \in DOMAIN kids : ItemAt(ps, kids[i]).name = name}
  IN  IF hits = {} THEN Visit(ps, p, kids, Len(kids))
      ELSE Visit([ps EXCEPT !.tmp = <<kids[Min(hits)]>>], p, kids, Min(hits))

\* ab_jspath_exe_child: the first member of that name, among the members of p.
ChildAmong(ps, p, kids, name) ==
  LET hits == {i \in DOMAIN kids : ItemAt(ps, kids[i]).name = name}
  IN  IF hits = {} THEN Visit(ps, p, kids, Len(kids))
      ELSE Visit(Select(ps, <<kids[Min(hits)]>>), p, kids, Min(hits))

ExeChild(ps, name) ==
  MakeChild(Swap(FoldLeft(LAMBDA qs, p : ChildAmong(qs, p, Members(qs, p), name), ps, ps.set)),
            LastOf(ps.set), name, ObjectItem)

\* ab_jspath_exe_recursive_item: the items of that name in p, none in another.
RECURSIVE ExeRecursiveItem(_, _, _)
ExeRecursiveItem(ps, p, name) ==
  LET kids == Members(ps, p)
  IN  IF ItemAt(ps, p).name = name THEN Select(ps, <<p>>)
      ELSE FoldLeft(LAMBDA qs, k : ExeRecursiveItem(Visit(qs, p, <<k>>, 1), k, name),
                    ps, kids)

ExeRecursive(ps, name) ==
  Swap(FoldLeft(LAMBDA qs, p : ExeRecursiveItem(qs, p, name), ps, ps.set))

Elements(ps, p) == IF ItemAt(ps, p).type = ArrayItem THEN Members(ps, p) ELSE <<>>

\* The members of p numbered as in `on`, which are counted from 0.
SelectNumbers(ps, kids, on) ==
  Select(ps, SetToSortSeq({kids[i + 1] : i \in on}, <))

\* ab_jspath_exe_index: the members whose numbers are in ids.  The count of
\* what was found goes on from array to array, and the search in an array
\* ends when it meets the number of ids.
IndexAmong(ps, p, kids, ids) ==
  LET hits == Range(ids) \cap 0..(Len(kids) - 1)
      full == {i \in hits : Len(ps.tmp) + Cardinality({j \in hits : j <= i}) = Len(ids)}
      last == Min(full \cup {Len(kids) - 1})
  IN  Visit(SelectNumbers(ps, kids, {i \in hits : i <= last}), p, kids, last + 1)

ExeIndex(ps, ids) ==
  MakeChild(Swap(FoldLeft(LAMBDA qs, p : IndexAmong(qs, p, Elements(qs, p), ids), ps, ps.set)),
            LastOf(ps.set), <<>>, ArrayItem)

\* Mutant: the member numbered end is taken as well.
SliceAmongThrough(ps, p, kids, start, end, step) ==
  LET on == {i \in start..(Len(kids) - 1) : (i - start) % step = 0 /\ i <= end}
  IN  Visit(SelectNumbers(ps, kids, on), p, kids, Len(kids))

\* ab_jspath_exe_slice: every step-th member from start on, until one is met
\* whose number is end.
SliceAmong(ps, p, kids, start, end, step) ==
  LET on == {i \in start..(Len(kids) - 1) : (i - start) % step = 0}
  IN  Visit(SelectNumbers(ps, kids, {i \in on : end \in on => i < end}), p, kids,
            IF end \in on THEN end + 1 ELSE Len(kids))

ExeSlice(ps, start, end, step) ==
  IF start < 0 \/ step <= 0 THEN ps
  ELSE Swap(FoldLeft(LAMBDA qs, p : SliceAmong(qs, p, Elements(qs, p), start, end, step),
                     ps, ps.set))

\* ab_jspath_exe_wildcard: all members of arrays.
ExeWildcard(ps) ==
  Swap(FoldLeft(LAMBDA qs, p :
                  Visit(Select(qs, Elements(qs, p)), p, Elements(qs, p), Len(Elements(qs, p))),
                ps, ps.set))

-----------------------------------------------------------------------------
(* Expressions: __opr, on numbers, strings and mixed.                      *)

IsTrue(v) == IF v.type = "num" THEN Whole(v.num) # 0 ELSE v.first # 0

\* strncmp as far as both strings go, which stops at a NUL; then the lengths.
Compare(a, b) ==
  LET stops == {i \in DOMAIN a \cap DOMAIN b : a[i] # b[i] \/ a[i] = 0}
      diff == IF stops = {} THEN 0 ELSE a[Min(stops)] - b[Min(stops)]
  IN  IF diff = 0 THEN Len(a) - Len(b) ELSE diff

Relations == {"EQ", "NE", "LT", "LE", "GT", "GE"}
Holds(op, d) == CASE op = "EQ" -> d = 0 [] op = "NE" -> d # 0 [] op = "LT" -> d < 0
                  [] op = "LE" -> d <= 0 [] op = "GT" -> d > 0 [] op = "GE" -> d >= 0
Truth(b) == NumVal(IF b THEN 2 ELSE 0)

\* The result of an operator on doubles is a whole number of halves again.
\* What is none (1/3, a quotient by zero) the model does not follow, and a
\* remainder by zero is undefined.
Exact(op, a, b) ==
  CASE op = "WILDCARD" -> Remainder(a * b, 2) = 0
    [] op = "DEV" -> b # 0 /\ Remainder(2 * a, b) = 0
    [] op = "MOD" -> Whole(b) # 0
    [] OTHER -> TRUE

Arithmetic(op, a, b) ==
  CASE op = "ADD" -> a + b
    [] op = "SUB" -> a - b
    [] op = "WILDCARD" -> Quotient(a * b, 2)
    [] op = "DEV" -> Quotient(2 * a, b)
    [] op = "MOD" -> 2 * Remainder(Whole(a), Whole(b))

Follows(op, a, b) == a.type # "num" \/ b.type # "num" \/ Exact(op, a.num, b.num)

Opr(op, a, b) ==
  CASE op = "OR" -> Truth(IsTrue(a) \/ IsTrue(b))
    [] op = "AND" -> Truth(IsTrue(a) /\ IsTrue(b))
    [] op \in Relations /\ a.type = b.type ->
         Truth(Holds(op, IF a.type = "num" THEN a.num - b.num ELSE Compare(a.str, b.str)))
    [] op \in Relations /\ a.type # b.type -> Truth(op = "NE")
    [] op \notin Relations \cup {"OR", "AND"} /\ a.type = "num" /\ b.type = "num" ->
         NumVal(Arithmetic(op, a.num, b.num))
    [] op \in {"WILDCARD", "DEV", "MOD"} /\ a.type # b.type -> NumVal(0)
    [] OTHER -> a

\* The operators of ab_jspath_exp_logic_or to ab_jspath_exp_multiplicative,
\* the loosest first.
Levels == << {"OR"}, {"AND"}, {"EQ", "NE"}, {"LT", "LE", "GT", "GE"},
             {"ADD", "SUB"}, {"WILDCARD", "DEV", "MOD"} >>

RECURSIVE ParseTail(_, _), Exp(_, _), ExpMore(_, _), ExpPostfix(_), ExpAtomic(_),
          ParseIndex(_, _, _), ParseSubscript(_), ParseSliceNumber(_), ParseSlice(_, _),
          ParseFilter(_), TailStep(_)

\* What ab_jspath_exp_atomic makes of the first item that @ selects.
ItemValue(ps) ==
  LET of(item) ==
      CASE ~item.ok -> ps
        [] item.type = TrueItem -> [ps EXCEPT !.val = NumVal(2)]
        [] item.type \in {FalseItem, NullItem} -> [ps EXCEPT !.val = NumVal(0)]
        [] item.type = ULongItem ->
             [ps EXCEPT !.val = NumVal(2 * GetVarint(ps.c, item.value).value)]
        [] item.type = DoubleItem ->
             [ps EXCEPT !.val = NumVal(DoubleOf(ValueOf(ps.c, item)))]
        [] item.type = StringItem ->
             [ps EXCEPT !.val = StrVal(ps.val, ValueOf(ps.c, item), Cell(ps.c, item.value))]
        [] OTHER -> Error(ps, "expected_value")
  IN  IF ps.set = <<>> THEN ps ELSE of(ItemAt(ps, ps.set[1]))

ExpAtomic(ps) ==
  CASE Type(ps) = "NUMBER" -> Step([ps EXCEPT !.val = NumVal(Tok(ps).num)])
    [] Type(ps) = "STRING" ->
         Step([ps EXCEPT !.val = StrVal(ps.val, Tok(ps).str, Cell(Tok(ps).str, 1))])
    [] Type(ps) = "CURRENT" ->
         ItemValue(ParseTail(Step([ps EXCEPT !.set = <<ps.base>>, !.tmp = <<>>]), 1))
    [] OTHER -> Error(ps, "expected_value")

ExpEnd(ps) ==
  CASE ps.ret # "ok" -> ps
    [] ps.ret = "ok" /\ Type(ps) # "EXP_END" -> Error(ps, "expected_end_of_expression")
    [] OTHER -> Step(ps)

ExpPostfix(ps) ==
  IF Type(ps) = "EXP_START" THEN ExpEnd(Exp(Step(ps), 1)) ELSE ExpAtomic(ps)

Exp(ps, level) ==
  IF level > Len(Levels) THEN ExpPostfix(ps) ELSE ExpMore(Exp(ps, level + 1), level)

ExpMore(ps, level) ==
  LET go(right) ==
        CASE right.ret # "ok" -> right
          [] right.ret = "ok" /\ ~Follows(Type(ps), ps.val, right.val) ->
               Error(right, "undefined")
          [] OTHER -> ExpMore([right EXCEPT !.val = Opr(Type(ps), ps.val, @)], level)
  IN  IF ps.ret # "ok" \/ Type(ps) \notin Levels[level] THEN ps
      ELSE go(Exp(Step([ps EXCEPT !.val = NumVal(0)]), level + 1))

\* ab_jspath_parse_expression.
ParseExpression(ps) == ExpPostfix(ps)

-----------------------------------------------------------------------------
(* The grammar of a path; every operator runs as soon as it is read.       *)

ParseChild(ps) ==
  LET n == Step(ps)
  IN  CASE Type(n) = "ID" -> Step(ExeChild(n, Tok(n).str))
        [] Type(n) = "NUMBER" /\ ~ps.mkdir -> Step(ExeIndex(n, <<Whole(Tok(n).num)>>))
        [] OTHER -> Expected(n, "expected_identifier")

ParseRecursiveDescent(ps) ==
  LET n == Step(ps)
  IN  IF Type(n) = "ID" THEN Step(ExeRecursive(n, Tok(n).str))
      ELSE Expected(n, "expected_identifier")

\* ab_jspath_parse_index: numbers and expressions are collected, and an error
\* is kept until an expression comes.  i: what was read, with all the numbers.
IndexItem(ps, ids, kept) ==
  LET item(qs, new, e) == [ps |-> qs, ids |-> ids \o new, kept |-> e]
      value(qs) == item(qs, <<Whole(qs.val.num)>>, "ok")
  IN  CASE Type(ps) = "NUMBER" -> item(Step(ps), <<Whole(Tok(ps).num)>>, kept)
        [] Type(ps) = "EXP_START" -> value(ParseExpression(ps))
        [] OTHER -> item(ps, <<>>, "expected_number_wildcard_or_union")

IndexEnd(ps, kept) == IF ps.ret = "ok" THEN Error(ps, kept) ELSE ps

IndexMore(i) ==
  CASE i.ps.ret # "ok" -> i.ps
    [] i.ps.ret = "ok" /\ Type(i.ps) = "UNION" -> ParseIndex(i.ps, i.ids, i.kept)
    [] OTHER -> IndexEnd(ExeIndex(i.ps, i.ids), i.kept)

ParseIndex(ps, ids, kept) ==
  LET n == Step([ps EXCEPT !.val = NumVal(0)])
  IN  IF Type(n) = "WILDCARD" THEN Step(ExeWildcard(n))
      ELSE IndexMore(IndexItem(n, ids, kept))

SubEnd(ps) ==
  CASE ps.ret # "ok" -> ps
    [] ps.ret = "ok" /\ Type(ps) # "SUB_END" -> Expected(ps, "expected_right_bracket")
    [] OTHER -> Step(ps)

ParseSubscript(ps) == SubEnd(ParseIndex(ps, <<>>, "ok"))

\* ab_jspath_parse_slice_number: no number is an error as well.
ParseSliceNumber(ps) ==
  CASE Type(ps) = "NUMBER" -> Step([ps EXCEPT !.val = NumVal(Tok(ps).num)])
    [] Type(ps) = "EXP_START" -> ParseExpression(ps)
    [] Type(ps) \in {"SLICE", "SUB_END"} -> Error(ps, "no_number")
    [] OTHER -> Expected(ps, "invalid_array_slice_number")

\* Where a slice starts, ends and how far it steps if it does not say so.
SliceDefaults == <<0, 99999999, 1>>

\* One more number was read: the slice ends here, or at the next token, or has
\* one number more.
SliceMore(ps, nums) ==
  LET n    == Len(nums)
      none == n = 1 /\ Type(ps) = "SLICE" /\ Type(Step(ps)) = "SUB_END"
      all  == nums \o SubSeq(SliceDefaults, n + 1, 3)
  IN  CASE ps.ret # "ok" -> ps
        [] ps.ret = "ok" /\ (none \/ (n > 1 /\ Type(ps) = "SUB_END")) ->
             Step(ExeSlice(IF none THEN Step(ps) ELSE ps, all[1], all[2], all[3]))
        [] ps.ret = "ok" /\ ~none /\ n < 3 /\ Type(ps) = "SLICE" -> ParseSlice(ps, nums)
        [] OTHER -> Error(ps, IF n = 3 THEN "expected_right_bracket"
                              ELSE "expected_array_slice_symbol")

\* ab_jspath_parse_array_slice_operator, with the numbers read before.
ParseSlice(ps, nums) ==
  LET take(qs) == SliceMore(qs, Append(nums, Whole(qs.val.num)))
      default  == NumVal(2 * SliceDefaults[Len(nums) + 1])
  IN  take(ParseSliceNumber(Step([ps EXCEPT !.val = default])))

\* ab_jspath_parse_filter_operator: the expression is run on every member,
\* by a parser of its own.  Reading goes on behind the token at which the
\* last of them stopped, and behind the first token of all if there was none.
FilterBy(ps, m, item) ==
  ParseExpression([ps EXCEPT
    !.cur = @ + 1, !.base = m, !.end = item.value + item.len,
    !.room = item.value + item.len - m, !.set = <<m>>, !.tmp = <<>>,
    !.up = <<>>, !.val = NumVal(0)])

FilterMember(ps, m) ==
  LET keep(e) == [ps EXCEPT !.c = e.c, !.ret = e.ret, !.expEnd = e.cur,
                            !.tmp = IF IsTrue(e.val) THEN Append(@, m) ELSE @]
  IN  IF ps.ret # "ok" THEN ps ELSE keep(FilterBy(ps, m, ItemAt(ps, m)))

FilterMembers(ps, p, kids) ==
  IF ps.ret # "ok" THEN ps ELSE FoldLeft(FilterMember, Visit(ps, p, kids, Len(kids)), kids)

ParseFilter(ps) ==
  LET close(all) ==
        IF all.ret # "ok" THEN all ELSE Step([Swap(all) EXCEPT !.cur = all.expEnd])
  IN  IF Type(Step(ps)) # "EXP_START" THEN Error(ps, "expected_expression")
      ELSE close(FoldLeft(LAMBDA qs, p : FilterMembers(qs, p, Members(qs, p)),
                          [ps EXCEPT !.expEnd = 1], ps.set))

\* Whether the brackets at hand hold a ':' of their own.
RECURSIVE HasColon(_, _, _)
HasColon(x, i, depth) ==
  LET t == IF i \in DOMAIN x THEN x[i].type ELSE "END"
  IN  CASE depth = 0 \/ t = "END" -> FALSE
        [] depth = 1 /\ t = "SLICE" -> TRUE
        [] OTHER -> HasColon(x, i + 1, CASE t = "SUB_START" -> depth + 1
                                         [] t = "SUB_END" -> depth - 1
                                         [] OTHER -> depth)

TailMarks == {"RECURSIVE", "CHILD", "SUB_START"}

\* One operator of a path.
TailStep(ps) ==
  CASE Type(ps) = "RECURSIVE" -> ParseRecursiveDescent(ps)
    [] Type(ps) = "CHILD" -> ParseChild(ps)
    [] Type(ps) = "SUB_START" ->
         IF Type(Step(ps)) = "FILTER" THEN ParseFilter(Step(ps))
         ELSE IF HasColon(ps.x, ps.cur + 1, 1) THEN ParseSlice(ps, <<>>)
         ELSE ParseSubscript(ps)
    [] OTHER -> Error(ps, "expected_tail_operator")

\* ab_jspath_parse_tail, for the n-th time: if that is more often than there
\* are tokens it calls itself for ever.
ParseTail(ps, n) ==
  LET more(qs) ==
        CASE qs.ret # "ok" \/ Type(qs) \notin TailMarks -> qs
          [] qs.ret = "ok" /\ Type(qs) \in TailMarks /\ n > Len(qs.x) -> Error(qs, "endless")
          [] OTHER -> ParseTail(qs, n + 1)
  IN  IF Type(ps) = "END" THEN ps ELSE more(TailStep(ps))

-----------------------------------------------------------------------------
(* The interface.                                                          *)

\* ab_jspath_init_parser.
Parser(x, c, room, mkdir) ==
  [x |-> x, cur |-> 1, c |-> c, base |-> 1, end |-> Len(c) + 1,
   room |-> room, mkdir |-> mkdir, set |-> <<1>>, tmp |-> <<>>, up |-> <<>>,
   val |-> NumVal(0), expEnd |-> 1, wide |-> FALSE, ret |-> "ok"]

\* The part of ab_json_parse_path and ab_jspath_mkdir up to the end of the path.
Run(ps) ==
  CASE Last(ps.x).type = "ENDLESS" -> Error(ps, "endless")
    [] Last(ps.x).type = "INVALID" -> Error(ps, "invalid_token")
    [] Type(ps) \notin {"ROOT", "CURRENT"} -> Error(ps, "expected_root_or_current_symbol")
    [] OTHER -> ParseTail(Step(ps), 1)
RunPath(c, room, path, mkdir) == Run(Parser(PathTokens(path, 1), c, room, mkdir))

\* ab_json_parse_path: the items selected, in order, up to one that is none.
Answer(ps) ==
  LET bad == {i \in DOMAIN ps.set : ~ItemAt(ps, ps.set[i]).ok}
  IN  [ret |-> ps.ret, set |-> CASE ps.ret # "ok" -> <<>>
                                 [] ps.ret = "ok" /\ bad # {} -> SubSeq(ps.set, 1, Min(bad) - 1)
                                 [] OTHER -> ps.set]
ParsePath(c, path) == Answer(RunPath(c, Len(c), path, FALSE))

\* The last part of ab_jspath_from_value: its own loop over the containers of
\* item, which counts the digits that were added.
LengthenValue(ps, item, diff) == Lengthen(ps, item, diff, TRUE)

\* ab_jspath_from_value: item takes the type and the value, if its own type
\* is one of `from`.
FromValue(ps, item, from, type, value) ==
  LET old  == ItemAt(ps, item)
      diff == Len(value) - old.len
      set  == [ps EXCEPT !.c[item] = type]
      in   == [set EXCEPT !.c = SubSeq(@, 1, old.value - 1) \o value
                                  \o SubSeq(@, old.value + old.len, Len(@)),
                          !.end = @ + diff]
  IN  IF ~old.ok THEN Error(ps, "invalid_ptr")
      ELSE IF old.type \notin from THEN Error(ps, "type_conflict")
      ELSE IF diff > 0 /\ diff + (ps.end - ps.base) > ps.room
           THEN Error(set, "no_left_space")
      ELSE LengthenValue(in, item, diff)

MinRoom == 8

\* ab_jspath_mkdir: the first item of the path is given the value.  A path
\* that fails, or selects nothing, leaves jsbin_len as it was.
Mkdir(c, room, path, from, type, value) ==
  LET c0 == IF c = <<>> THEN PutItem(Buffer(c, room), UnknownItem, <<>>, <<>>).cells ELSE c
      res(ps, ret, len) == [c |-> SubSeq(ps.c, 1, len), ret |-> ret, wide |-> ps.wide]
      set(ps) == res(ps, ps.ret, Len(ps.c))
      run(ps) == CASE ps.ret # "ok" -> res(ps, ps.ret, Len(c0))
                   [] ps.ret = "ok" /\ ps.set = <<>> -> res(ps, "item_not_found", Len(c0))
                   [] OTHER -> set(FromValue(ps, ps.set[1], from, type, value))
  IN  IF room < MinRoom THEN [c |-> c, ret |-> "no_left_space", wide |-> FALSE]
      ELSE run(RunPath(c0, room, path, TRUE))

\* ab_json_from_long, ab_json_from_string.
FromLong(c, room, path, n) ==
  Mkdir(c, room, path, {UnknownItem, ULongItem, DoubleItem}, ULongItem, EncodeVarint(n))
FromString(c, room, path, s) ==
  Mkdir(c, room, path, {UnknownItem, StringItem}, StringItem, s)

\* ab_json_to_long, ab_json_to_string: the value of the first item selected.
First(r, none, Value(_)) ==
  CASE r.ret # "ok" -> [ret |-> r.ret, v |-> none]
    [] r.ret = "ok" /\ r.set = <<>> -> [ret |-> "item_not_found", v |-> none]
    [] OTHER -> [ret |-> "ok", v |-> Value(r.set[1])]

ToLong(c, path) ==
  LET value(p) == GetVarint(c, GetItem(c, p, Len(c) + 1).value).value
  IN  First(ParsePath(c, path), 0, value)
ToText(c, path) ==
  LET value(p) == UpToNul(ValueOf(c, GetItem(c, p, Len(c) + 1)))
  IN  First(ParsePath(c, path), <<>>, value)
=============================================================================
