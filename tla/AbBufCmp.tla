------------------------------ MODULE AbBufCmp -------------------------------
(***************************************************************************)
(* How a buffer compares keys: ab_buf_cmp of abuf/ab_buf.c.  A negative    *)
(* result means that k1 comes first, 0 that the keys are the same.  The    *)
(* skiplist needs an order: AbBufProofs says when it gets one.             *)
(***************************************************************************)
EXTENDS Integers, Sequences

TwoTo16 == 65536
TwoTo31 == 32768 * TwoTo16
TwoTo32 == TwoTo16 * TwoTo16

\* The values of an unsigned key of len bytes.
Values(len) == IF len = 1 THEN 256
               ELSE IF len = 2 THEN TwoTo16
               ELSE IF len = 4 THEN TwoTo32
               ELSE TwoTo32 * TwoTo32
Unsigned(len) == {k \in Nat : k < Values(len)}

\* A difference is returned as an int: of one of 4 or 8 bytes the low 32
\* bits are left, with their sign.
ToInt(d) ==
  LET low == d % TwoTo32
  IN  IF low < TwoTo31 THEN low ELSE low - TwoTo32

\* ab_buf_cmp_ui.
CmpUi(k1, k2, len) ==
  IF len \in {1, 2} THEN k1 - k2
  ELSE IF len \in {4, 8} THEN ToInt(k1 - k2)
  ELSE 0

\* ab_buf_cmp_str: the first place where the strings differ or one of them
\* ends, by its length or with a NUL.  A char has a sign.
Chars == -128..127
Stops(k1, k2) ==
  {n \in Nat \ {0} : \/ n > Len(k1) \/ n > Len(k2)
                     \/ k1[n] = 0 \/ k2[n] = 0 \/ k1[n] # k2[n]}
Stop(k1, k2) == CHOOSE n \in Stops(k1, k2) : \A m \in Stops(k1, k2) : n <= m

CmpStr(k1, k2) ==
  LET n == Stop(k1, k2)
  IN  IF n <= Len(k1) /\ n <= Len(k2) THEN k1[n] - k2[n]
      ELSE IF n <= Len(k1) THEN k1[n]
      ELSE IF n <= Len(k2) THEN -k2[n]
      ELSE 0

\* What the path of a type_jspath key selects in the document of a value:
\* nothing (or more than one item), or an item with its type and the string
\* or the 64 bits it holds.
Missing == [type |-> "missing", value |-> 0]
IsBase(item) == item.type \notin {"missing", "array", "object"}

\* ab_buf_cmp of such keys.
CmpPath(i1, i2) ==
  CASE ~IsBase(i1) \/ ~IsBase(i2) \/ i1.type # i2.type -> 1
    [] OTHER -> IF i1.type = "string" THEN CmpStr(i1.value, i2.value)
                ELSE IF i1.value = i2.value THEN 0
                ELSE IF i1.value > i2.value THEN 1 ELSE -1
==============================================================================
