------------------------------ MODULE AbJsText ------------------------------
(***************************************************************************)
(* JSON as text (ab_jsonbin.c): the tokens of ab_json_get_token, strings   *)
(* with their escapes, and numbers.  A text is a sequence of character     *)
(* codes; a place in it is an index, and a place behind its end reads as   *)
(* the NUL that ends a C string.                                           *)
(*                                                                         *)
(* Numbers are scaled: an unsigned long is below NumWord (2^64 in the      *)
(* code), and a double is a whole number of halves, kept in two cells      *)
(* (eight bytes in the code).                                              *)
(***************************************************************************)
EXTENDS AbJsBuf

CONSTANT NumWord
ASSUME NumWordAssumption == NumWord \in Nat /\ NumWord > 1

QUOTE == 34   BSL == 92   LBRACE == 123   RBRACE == 125
LBRACK == 91  RBRACK == 93  COMMA == 44   COLON == 58
MINUS == 45   PLUS == 43   DOT == 46   SPACE == 32   TAB == 9   NEWLINE == 10

NullWord == <<110, 117, 108, 108>>
TrueWord == <<116, 114, 117, 101>>
FalseWord == <<102, 97, 108, 115, 101>>

Char(s, i) == IF i \in DOMAIN s THEN s[i] ELSE 0
WordAt(s, i, w) == i + Len(w) - 1 <= Len(s) /\ SubSeq(s, i, i + Len(w) - 1) = w

DigitChars == 48..57
IsDigit(c) == c \in DigitChars
NumberChars == DigitChars \cup {PLUS, MINUS, DOT, 101, 69}

\* Characters are signed: those from 128 on are below 32 as well.
Spaces == 0..32 \cup 128..255

\* The place of the first character from i on that is not in C, or behind the end.
SkipWhile(s, i, C) ==
  Min({j \in i..Len(s) : s[j] \notin C} \cup {Len(s) + 1})

\* Where the search for the end of a string stops: at its quote, behind the
\* text, or at a backslash that has nothing behind it to take along.
RECURSIVE StringStop(_, _)
StringStop(s, i) ==
  IF i > Len(s) \/ s[i] = QUOTE \/ (s[i] = BSL /\ i = Len(s)) THEN i
  ELSE StringStop(s, IF s[i] = BSL THEN i + 2 ELSE i + 1)

(***************************************************************************)
(* ab_json_get_token: the token at or behind i, and where to go on.  The   *)
(* characters that come before a token are skipped first.                  *)
(***************************************************************************)
Token(type, begin, len, next) ==
  [type |-> type, begin |-> begin, len |-> len, next |-> next]

Marks == LBRACE :> "{" @@ RBRACE :> "}" @@ LBRACK :> "[" @@ RBRACK :> "]"
           @@ COMMA :> "," @@ COLON :> ":"

TokenAt(s, b) ==
  LET c == Char(s, b)
      e == StringStop(s, b + 1)
      n == SkipWhile(s, b, NumberChars)
  IN  CASE c = 0 -> Token("END", b, 0, b)
        [] c = QUOTE /\ Char(s, e) # QUOTE -> Token("INVALID", b + 1, 0, e)
        [] c = QUOTE /\ Char(s, e) = QUOTE -> Token("STRING", b + 1, e - b - 1, e + 1)
        [] IsDigit(c) \/ c = MINUS -> Token("NUMBER", b, n - b, n)
        [] c \in DOMAIN Marks -> Token(Marks[c], b, 1, b + 1)
        [] WordAt(s, b, NullWord) -> Token("NULL", b, 4, b + 4)
        [] WordAt(s, b, TrueWord) -> Token("TRUE", b, 4, b + 4)
        [] WordAt(s, b, FalseWord) -> Token("FALSE", b, 5, b + 5)
        [] OTHER -> Token("INVALID", b, 0, b)

GetToken(s, i) == TokenAt(s, SkipWhile(s, i, Spaces))

\* Mutant: the opening quote of a string is not put back.
PutBackShort(t) ==
  IF t.type \in {"END", "INVALID"} \/ t.len >= t.next THEN t.next
  ELSE IF t.type = "STRING" THEN t.next - t.len - 1
  ELSE t.next - t.len

\* ab_json_putback_token: back to the token, with its quotes for a string.
PutBack(t) ==
  IF t.type \in {"END", "INVALID"} \/ t.len >= t.next THEN t.next
  ELSE IF t.type = "STRING" /\ t.next - t.len > 1 THEN t.next - t.len - 2
  ELSE t.next - t.len

(***************************************************************************)
(* Escapes.  parse_hex4 gives 0 for what is no number;                     *)
(* utf16_literal_to_utf8 gives the bytes and how much text they stand for, *)
(* 0 for a pair that is none.  `end` is where the caller says the text     *)
(* ends.                                                                   *)
(***************************************************************************)
HexDigit(c) == CASE c \in 48..57 -> c - 48
                 [] c \in 65..70 -> c - 55
                 [] c \in 97..102 -> c - 87
                 [] OTHER -> 16

ParseHex4(s, p) ==
  LET d == [i \in 0..3 |-> HexDigit(Char(s, p + i))]
  IN  IF \E i \in 0..3 : d[i] = 16 THEN 0
      ELSE d[0] * 4096 + d[1] * 256 + d[2] * 16 + d[3]

Utf8(cp) ==
  LET n == CASE cp < 128 -> 1 [] cp \in 128..2047 -> 2
             [] cp \in 2048..65535 -> 3 [] OTHER -> 4
  IN  IF n = 1 THEN <<cp>>
      ELSE [i \in 1..n |-> IF i = 1
                           THEN <<0, 192, 224, 240>>[n] + cp \div (64 ^ (n - 1))
                           ELSE 128 + ((cp \div (64 ^ (n - i))) % 64)]

Utf16ToUtf8(s, p, end) ==
  LET fail == [used |-> 0, bytes |-> <<>>]
      pair(first, second) ==
        IF \/ end - (p + 6) < 6
           \/ Char(s, p + 6) # BSL \/ Char(s, p + 7) # 117
           \/ second \notin 56320..57343
        THEN fail
        ELSE [used |-> 12,
              bytes |-> Utf8(65536 + ((first % 1024) * 1024) + (second % 1024))]
      one(first) ==
        IF end - p < 6 \/ first \in 56320..57343 THEN fail
        ELSE IF first \in 55296..56319 THEN pair(first, ParseHex4(s, p + 8))
        ELSE [used |-> 6, bytes |-> Utf8(first)]
  IN  one(ParseHex4(s, p + 2))

ShortEscapes == 98 :> 8 @@ 102 :> 12 @@ 110 :> 10 @@ 114 :> 13 @@ 116 :> 9
                  @@ QUOTE :> QUOTE @@ BSL :> BSL @@ 47 :> 47

(***************************************************************************)
(* ab_json_token_to_string: the bytes of the string text s[i..end-1], of   *)
(* length len.  The end passed on for an escape counts len from the escape *)
(* itself, as line 280 does, so that it lies behind the end of the string. *)
(***************************************************************************)
RECURSIVE Unescape(_, _, _, _, _)
Unescape(s, i, end, len, out) ==
  IF i >= end THEN [ret |-> "ok", str |-> out]
  ELSE IF s[i] # BSL THEN Unescape(s, i + 1, end, len, Append(out, s[i]))
  ELSE LET c == Char(s, i + 1)
           unicode(u) ==
             IF u.used = 0 THEN [ret |-> "invalid_unicode", str |-> <<>>]
             ELSE Unescape(s, i + u.used, end, len, out \o u.bytes)
       IN  CASE c \in DOMAIN ShortEscapes ->
                  Unescape(s, i + 2, end, len, Append(out, ShortEscapes[c]))
             [] c = 117 -> unicode(Utf16ToUtf8(s, i, i + len))
             [] OTHER -> [ret |-> "invalid_escape", str |-> <<>>]

TokenToString(s, begin, len) == Unescape(s, begin, begin + len, len, <<>>)

(***************************************************************************)
(* print_string_ptr: a string up to its first NUL, with the quotes.        *)
(***************************************************************************)
Escapes == QUOTE :> QUOTE @@ BSL :> BSL @@ 8 :> 98 @@ 12 :> 102 @@ 10 :> 110
             @@ 13 :> 114 @@ 9 :> 116

HexChar(d) == IF d < 10 THEN 48 + d ELSE 87 + d

EscapeChar(c) ==
  CASE c \in DOMAIN Escapes -> <<BSL, Escapes[c]>>
    [] c < 32 /\ c \notin DOMAIN Escapes ->
         <<BSL, 117, 48, 48, HexChar(c \div 16), HexChar(c % 16)>>
    [] OTHER -> <<c>>

UpToNul(u) == SubSeq(u, 1, Min({i \in DOMAIN u : u[i] = 0} \cup {Len(u) + 1}) - 1)

PrintString(u) ==
  LET v == UpToNul(u)
  IN  <<QUOTE>> \o FlattenSeq([i \in DOMAIN v |-> EscapeChar(v[i])]) \o <<QUOTE>>

(***************************************************************************)
(* Numbers: digits and their value, strtoull and strtod on a token's text. *)
(* strtoull takes a minus, and negates in its word; strtod reads           *)
(* [-]digits[.digits][e[+-]digits].                                        *)
(***************************************************************************)
MaxNumberLen == 9

Digits(n) ==
  LET k == Min({j \in 1..MaxNumberLen : n < 10 ^ j})
  IN  [i \in 1..k |-> 48 + ((n \div (10 ^ (k - i))) % 10)]

DigitsValue(s, a, b) ==
  LET upTo[i \in (a - 1)..b] == IF i < a THEN 0 ELSE 10 * upTo[i - 1] + s[i] - 48
  IN  IF b < a THEN 0 ELSE upTo[b]

DigitsEnd(s, i) == SkipWhile(s, i, DigitChars)

StrToULL(s, b) ==
  LET a   == IF Char(s, b) = MINUS THEN b + 1 ELSE b
      e   == DigitsEnd(s, a)
      mag == DigitsValue(s, a, e - 1)
  IN  [end   |-> IF e = a THEN b ELSE e,
       value |-> CASE mag >= NumWord -> NumWord - 1
                   [] mag < NumWord /\ a = b -> mag
                   [] OTHER -> (NumWord - mag) % NumWord]

\* In halves; what is left of a finer fraction is dropped.  a, e, f: where the
\* digits begin, where they and the fraction end.
DoubleFrom(s, b, a, e, f) ==
  LET sign == IF Char(s, f + 1) \in {PLUS, MINUS} THEN f + 2 ELSE f + 1
      x    == IF Char(s, f) \in {101, 69} THEN DigitsEnd(s, sign) ELSE f
      hasX == x > sign
      half == 2 * DigitsValue(s, a, e - 1)
                + (IF f > e + 1 /\ s[e + 1] >= 53 THEN 1 ELSE 0)
      pow  == 10 ^ (IF hasX THEN DigitsValue(s, sign, x - 1) ELSE 0)
      abs  == IF hasX /\ s[f + 1] = MINUS THEN half \div pow ELSE half * pow
  IN  IF e = a /\ f <= e + 1 THEN [end |-> b, halves |-> 0]
      ELSE [end |-> IF hasX THEN x ELSE f,
            halves |-> IF a = b THEN abs ELSE -abs]

StrToD(s, b) ==
  LET a == IF Char(s, b) = MINUS THEN b + 1 ELSE b
      e == DigitsEnd(s, a)
  IN  DoubleFrom(s, b, a, e, IF Char(s, e) = DOT THEN DigitsEnd(s, e + 1) ELSE e)

DoubleCells(h) == IF h < 0 THEN <<1, -h>> ELSE <<0, h>>
DoubleOf(c) == IF c[1] = 1 THEN -c[2] ELSE c[2]

\* The text of "%1.15g" and "%llu".
PrintDouble(h) ==
  LET a == IF h < 0 THEN -h ELSE h
  IN  (IF h < 0 THEN <<MINUS>> ELSE <<>>) \o Digits(a \div 2)
        \o (IF a % 2 = 1 THEN <<DOT, 53>> ELSE <<>>)
PrintULong(v) == Digits(v)
=============================================================================
