------------------------------ MODULE AbJsBuf -------------------------------
(***************************************************************************)
(* The binary form of JSON documents (second half of ab_jsonbin.c).        *)
(*                                                                         *)
(* An item is    type  varint(name_len)  name  varint(value_len)  value    *)
(* and the value of an array or object is the items in it, one after the   *)
(* other.  A buffer's content is a sequence of cells, one per byte; a cell *)
(* of a varint is a digit below VarBase, with VarBase added when another   *)
(* digit follows (the code's base is 128).  A pointer is an index, and     *)
(* Nil, the null pointer, is 0.                                            *)
(***************************************************************************)
EXTENDS Integers, Sequences, SequencesExt, FiniteSetsExt

CONSTANT VarBase
ASSUME VarBaseAssumption == VarBase \in Nat /\ VarBase > 1

FalseItem == 1
TrueItem == 2
NullItem == 3
ULongItem == 4
DoubleItem == 5
StringItem == 6
ArrayItem == 7
ObjectItem == 8
UnknownItem == 99

Nil == 0
MaxDigits == 5

(***************************************************************************)
(* ab_jsbuf_encode_varint32, ab_jsbuf_encode_varint64: low digits first.   *)
(***************************************************************************)
EncodeVarint(v) ==
  LET n == Min({k \in 1..MaxDigits : v < VarBase ^ k} \cup {MaxDigits})
  IN  [i \in 1..n |-> ((v \div (VarBase ^ (i - 1))) % VarBase)
                        + (IF i < n THEN VarBase ELSE 0)]

(***************************************************************************)
(* ab_jsbuf_get_varint32 at p: the value and the place behind it, Nil if   *)
(* no digit ends it.  A cell behind the content reads as 0; the callers    *)
(* then find the end passed, whatever was read.                            *)
(***************************************************************************)
Cell(c, i) == IF i \in DOMAIN c THEN c[i] ELSE 0

GetVarint(c, p) ==
  LET ends == {k \in 1..MaxDigits : Cell(c, p + k - 1) < VarBase}
      sum[k \in 0..MaxDigits] ==
        IF k = 0 THEN 0
        ELSE sum[k - 1] + (Cell(c, p + k - 1) % VarBase) * (VarBase ^ (k - 1))
      upTo(n) == [value |-> sum[n], next |-> p + n]
  IN  IF ends = {} THEN [value |-> 0, next |-> Nil] ELSE upTo(Min(ends))

(***************************************************************************)
(* A buffer under construction: its cells, its size, and the first error   *)
(* that writing to it met.                                                 *)
(***************************************************************************)
Buffer(c, size) == [cells |-> c, size |-> size, ret |-> "ok"]

\* ab_jsbuf_append.
PutCells(jb, s) ==
  IF jb.ret # "ok" THEN jb
  ELSE IF Len(jb.cells) + Len(s) > jb.size THEN [jb EXCEPT !.ret = "no_left_space"]
  ELSE [jb EXCEPT !.cells = @ \o s]

\* ab_jsbuf_put_item: the parts are appended one by one, up to the first
\* that does not fit.
PutItem(jb, type, name, value) ==
  FoldLeft(PutCells, jb, << <<type>>, EncodeVarint(Len(name)), name,
                           EncodeVarint(Len(value)), value >>)

\* Mutant: no room is asked for the digits that are added.
UpdateLenOver(jb, pos, diff) ==
  LET old == GetVarint(jb.cells, pos)
  IN  [jb EXCEPT !.cells = SubSeq(@, 1, pos - 1) \o EncodeVarint(old.value + diff)
                             \o SubSeq(@, old.next, Len(@))]

\* ab_jsbuf_update_len: the length at pos grows by diff, and what follows it
\* moves when it needs more or fewer digits.
UpdateLen(jb, pos, diff) ==
  LET old  == GetVarint(jb.cells, pos)
      new  == EncodeVarint(old.value + diff)
      grow == Len(new) - (old.next - pos)
  IN  IF grow # 0 /\ Len(jb.cells) + grow > jb.size
      THEN [jb EXCEPT !.ret = "no_left_space"]
      ELSE [jb EXCEPT !.cells = SubSeq(@, 1, pos - 1) \o new
                                  \o SubSeq(@, old.next, Len(@))]

(***************************************************************************)
(* ab_jsbuf_get_item at p, in content that ends before `end`: ok tells     *)
(* whether a whole item is there.  LenAt is the place of its value_len.    *)
(***************************************************************************)
NoItem == [ok |-> FALSE, type |-> 0, name |-> <<>>, value |-> Nil, len |-> 0, next |-> Nil]

LenAt(c, p) == LET behind(n) == n.next + n.value IN behind(GetVarint(c, p + 1))

GetItem(c, p, end) ==
  LET item(n, v) ==
        IF \/ p + 1 >= end
           \/ n.next >= end \/ n.next = Nil
           \/ n.next + n.value >= end
           \/ v.next > end \/ v.next = Nil
           \/ v.next + v.value > end
        THEN NoItem
        ELSE [ok |-> TRUE, type |-> c[p], name |-> SubSeq(c, n.next, n.next + n.value - 1),
              value |-> v.next, len |-> v.value, next |-> v.next + v.value]
  IN  item(GetVarint(c, p + 1), GetVarint(c, LenAt(c, p)))

IsContainer(item) == item.type \in {ArrayItem, ObjectItem}

\* ab_jsbuf_get_child: the first item in the container at p.
GetChild(c, p, end) ==
  LET first(item) ==
        IF item.ok /\ item.len # 0 /\ IsContainer(item) THEN item.value ELSE Nil
  IN  first(GetItem(c, p, end))

\* ab_jsbuf_get_next: the item behind the one at p.
GetSibling(c, p, end) ==
  LET behind(item) == IF item.ok /\ item.next < end THEN item.next ELSE Nil
  IN  behind(GetItem(c, p, end))

\* The cells of a value.
ValueOf(c, item) == SubSeq(c, item.value, item.value + item.len - 1)
=============================================================================
