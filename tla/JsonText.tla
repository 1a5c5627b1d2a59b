------------------------------ MODULE JsonText ------------------------------
(***************************************************************************)
(* Values as JSON (src/source/tinybuf_json.c): the writer                  *)
(* tinybuf_value_serialize_as_json and the reader                          *)
(* tinybuf_value_deserialize_from_json, which takes what it needs from the *)
(* front of the text it has and returns 0 when there is not enough of it.  *)
(*                                                                         *)
(* Text is a sequence of character codes.  A run of blanks, line ends and  *)
(* indentation is one blank (gap).  Doubles are whole or end in .5, so the *)
(* 17 digits of the writer never need an exponent.                         *)
(***************************************************************************)
EXTENDS Codec
LOCAL INSTANCE SequencesExt

LF == 10
CR == 13
SPACE == 32
QUOTE == 34
COMMA == 44
MINUS == 45
DOT == 46
ZERO == 48
COLON == 58
LBRACKET == 91
BACKSLASH == 92
RBRACKET == 93
LOWER_U == 117
LBRACE == 123
RBRACE == 125

TrueText == <<116, 114, 117, 101>>
FalseText == <<102, 97, 108, 115, 101>>
NullText == <<110, 117, 108, 108>>

DigitCodes == ZERO .. ZERO + 9
Blanks == {9, LF, CR, SPACE}

(* The characters with an escape of their own: \" \\ \b \f \n \r \t.        *)
Escaped == {QUOTE, BACKSLASH, 8, 12, LF, CR, 9}
EscapeLetter ==
  [c \in Escaped |-> CASE c = 8 -> 98 [] c = 12 -> 102 [] c = LF -> 110
                       [] c = CR -> 114 [] c = 9 -> 116 [] OTHER -> c]
EscapeOf == [e \in {EscapeLetter[c] : c \in Escaped} |->
               CHOOSE c \in Escaped : EscapeLetter[c] = e]

-----------------------------------------------------------------------------
(* Writing.                                                                *)

(* uintToString and json_dump_int.                                          *)
Decimal[n \in Nat] ==
  IF n < 10 THEN <<ZERO + n>> ELSE Decimal[n \div 10] \o <<ZERO + (n % 10)>>
IntText(n) == (IF n < 0 THEN <<MINUS>> ELSE <<>>) \o Decimal[Abs(n)]

(* dump_double: %.17g gives a whole number no fraction.                     *)
DoubleText(h) ==
  (IF h < 0 THEN <<MINUS>> ELSE <<>>) \o Decimal[Abs(h) \div 2]
    \o (IF Abs(h) % 2 = 1 THEN <<DOT, ZERO + 5>> ELSE <<>>)

(* to_char.                                                                 *)
HexDigit(d) == IF d < 10 THEN ZERO + d ELSE 65 + d - 10

(* json_encode_string.                                                      *)
EncodeChar(c) ==
  IF c \in Escaped THEN <<BACKSLASH, EscapeLetter[c]>>
  ELSE IF c < SPACE
       THEN <<BACKSLASH, LOWER_U, ZERO, ZERO, HexDigit(c \div 16), HexDigit(c % 16)>>
       ELSE <<c>>
Quoted(s) == <<QUOTE>> \o FlattenSeq([j \in DOMAIN s |-> EncodeChar(s[j])]) \o <<QUOTE>>

(* tinybuf_value_serialize_as_json_level and its two callbacks; a comma
   follows every member but the last.                                       *)
RECURSIVE WriteJson(_, _)
WriteJson(v, gap) ==
  LET Separated(texts) ==
        FlattenSeq([j \in DOMAIN texts |->
          gap \o texts[j] \o (IF j < Len(texts) THEN <<COMMA>> ELSE <<>>) \o gap])
      Member(key) == Quoted(key) \o gap \o <<COLON>> \o gap \o WriteJson(v.m[key], gap)
  IN  CASE v.t = "null" -> NullText
        [] v.t = "int" -> IntText(v.n)
        [] v.t = "bool" -> IF v.b THEN TrueText ELSE FalseText
        [] v.t = "double" -> DoubleText(v.h)
        [] v.t = "string" -> Quoted(v.s)
        [] v.t = "map" ->
             LET keys == SortedKeys(v.m)
             IN  <<LBRACE>> \o gap \o Separated([j \in DOMAIN keys |-> Member(keys[j])])
                   \o <<RBRACE>>
        [] v.t = "array" ->
             <<LBRACKET>> \o gap \o Separated([j \in DOMAIN v.a |-> WriteJson(v.a[j], gap)])
               \o <<RBRACKET>>

(* The types the writer has a case for, all the way down.                   *)
RECURSIVE HasJson(_)
HasJson(v) ==
  \/ v.t \in {"null", "int", "bool", "double", "string"}
  \/ v.t = "array" /\ \A j \in DOMAIN v.a : HasJson(v.a[j])
  \/ v.t = "map" /\ \A k \in DOMAIN v.m : HasJson(v.m[k])

(* What comes back of a value: a whole double is an integer.                *)
RECURSIVE JsonImage(_)
JsonImage(v) ==
  CASE v.t = "double" /\ v.h % 2 = 0 -> IntValue(v.h \div 2)
    [] v.t = "array" -> ArrayValue([j \in DOMAIN v.a |-> JsonImage(v.a[j])])
    [] v.t = "map" -> MapValue([k \in DOMAIN v.m |-> JsonImage(v.m[k])])
    [] OTHER -> v

-----------------------------------------------------------------------------
(* Reading.  Results count characters: 0 is not enough, -1 is illegal.      *)

(* tinybuf_json_skip_for_simpe, skip_for_complex: past blanks to a character
   of the set.                                                              *)
SkipFor(p, set) ==
  LET Ink == {j \in DOMAIN p : p[j] \notin Blanks}
      first == CHOOSE j \in Ink : \A k \in Ink : j <= k
  IN  IF Ink = {} THEN 0 ELSE IF p[first] \in set THEN first ELSE 0 - 1

(* decodeUnicodeEscapeSequence.                                             *)
HexValue(c) ==
  CASE c \in DigitCodes -> c - ZERO
    [] c \in 65 .. 70 -> c - 65 + 10
    [] c \in 97 .. 102 -> c - 97 + 10
    [] OTHER -> 0 - 1

(* codePointToUTF8.                                                         *)
Utf8(cp) ==
  CASE cp < 128 -> <<cp>>
    [] cp \in 128 .. 2047 -> <<192 + (cp \div 64), 128 + (cp % 64)>>
    [] cp \in 2048 .. 65535 ->
         <<224 + (cp \div 4096), 128 + ((cp \div 64) % 64), 128 + (cp % 64)>>
    [] OTHER -> <<240 + (cp \div 262144), 128 + ((cp \div 4096) % 64),
                  128 + ((cp \div 64) % 64), 128 + (cp % 64)>>

(* tinybuf_load_unicode_once.                                               *)
UnicodeOnce(p) ==
  LET hex == [j \in 1 .. 4 |-> HexValue(p[j + 2])]
  IN  IF Len(p) < 6 THEN [len |-> 0, val |-> 0]
      ELSE IF SubSeq(p, 1, 2) # <<BACKSLASH, LOWER_U>> \/ (\E j \in 1 .. 4 : hex[j] < 0)
      THEN [len |-> 0 - 1, val |-> 0]
      ELSE [len |-> 6, val |-> FoldLeft(LAMBDA x, d : 16 * x + d, 0, hex)]

(* tinybuf_load_unicode: a high surrogate takes the next escape with it.    *)
Unicode(p) ==
  LET one == UnicodeOnce(p)
      two == UnicodeOnce(From(p, one.len))
  IN  IF one.len <= 0 THEN [len |-> one.len, text |-> <<>>]
      ELSE IF one.val \notin 55296 .. 56319 THEN [len |-> 6, text |-> Utf8(one.val)]
      ELSE IF two.len <= 0 THEN [len |-> two.len, text |-> <<>>]
      ELSE [len |-> 12,
            text |-> Utf8(65536 + (one.val % 1024) * 1024 + (two.val % 1024))]

(* What the string reader hands to tinybuf_load_unicode for an escape at j:
   the size it passes is two short of what it has.                          *)
UnicodeText(p, j) == SubSeq(p, j, Len(p) - 2)

(* tinybuf_json_load_for_string, from its opening quote on.                 *)
RECURSIVE StringFrom(_, _, _)
StringFrom(p, j, s) ==
  IF j > Len(p) THEN [n |-> 0, s |-> <<>>]
  ELSE CASE p[j] = QUOTE -> [n |-> j, s |-> s]
         [] p[j] = BACKSLASH ->
              IF j = Len(p) THEN [n |-> 0, s |-> <<>>]
              ELSE IF p[j + 1] = LOWER_U
              THEN LET u == Unicode(UnicodeText(p, j))
                   IN  IF u.len <= 0 THEN [n |-> u.len, s |-> <<>>]
                       ELSE StringFrom(p, j + u.len, s \o u.text)
              ELSE IF p[j + 1] \in DOMAIN EscapeOf
              THEN StringFrom(p, j + 2, Append(s, EscapeOf[p[j + 1]]))
              ELSE [n |-> 0 - 1, s |-> <<>>]
         [] p[j] < SPACE -> [n |-> 0 - 1, s |-> <<>>]
         [] OTHER -> StringFrom(p, j + 1, Append(s, p[j]))
LoadString(p) ==
  LET k == SkipFor(p, {QUOTE})
  IN  IF k <= 0 THEN [n |-> k, s |-> <<>>] ELSE StringFrom(p, k + 1, <<>>)

(* tinybuf_json_load_for_bool, load_for_null.                               *)
Literal(p, text) ==
  IF Len(p) < Len(text) THEN 0 ELSE IF IsPrefix(text, p) THEN Len(text) ELSE 0 - 1

(* tinybuf_json_load_for_number: its first character is taken as it is, and
   the end of what has arrived is the end of the number.                    *)
LoadNumber(p) ==
  LET EndOfDigits(j) ==
        CHOOSE k \in j .. Len(p) + 1 :
          /\ \A x \in j .. k - 1 : p[x] \in DigitCodes
          /\ k <= Len(p) => p[k] \notin DigitCodes
      whole == EndOfDigits(2)
      fraction == whole <= Len(p) /\ p[whole] = DOT
      end == IF fraction THEN EndOfDigits(whole + 1) ELSE whole
      start == IF p[1] = MINUS THEN 2 ELSE 1
      int == FoldLeft(LAMBDA x, c : 10 * x + c - ZERO, 0, SubSeq(p, start, whole - 1))
      half == IF end > whole + 1 /\ p[whole + 1] = ZERO + 5 THEN 1 ELSE 0
      Signed(x) == IF start = 2 THEN 0 - x ELSE x
  IN  [n |-> end - 1,
       v |-> IF fraction THEN DoubleValue(Signed(2 * int + half)) ELSE IntValue(Signed(int))]

Starts == {LBRACE, LBRACKET, MINUS, QUOTE, TrueText[1], FalseText[1], NullText[1]}
            \cup DigitCodes

RECURSIVE ReadJson(_), LoadMap(_, _, _), LoadKey(_, _, _, _), LoadMember(_, _, _, _, _),
          LoadArray(_, _, _), LoadElement(_, _, _, _)

(* tinybuf_json_load_for_map, n characters behind the brace consumed.       *)
LoadMap(p, n, m) ==
  LET open == SkipFor(From(p, n), {QUOTE, RBRACE})
  IN  IF open <= 0 THEN Failed(open, MapValue(m))
      ELSE IF p[n + open] = RBRACE THEN [n |-> n + open, v |-> MapValue(m)]
      ELSE LoadKey(p, n + open - 1, m, LoadString(From(p, n + open - 1)))

LoadKey(p, n, m, key) ==
  LET colon == SkipFor(From(p, n + key.n), {COLON})
      at == n + key.n + colon
  IN  IF key.n <= 0 THEN Failed(key.n, MapValue(m))
      ELSE IF colon <= 0 THEN Failed(colon, MapValue(m))
      ELSE LoadMember(p, at, m, key.s, ReadJson(From(p, at)))

LoadMember(p, n, m, key, member) ==
  LET next == SkipFor(From(p, n + member.n), {COMMA, RBRACE})
      at == n + member.n + next
      held == MapSet(m, key, member.v)
  IN  IF member.n <= 0 THEN Failed(member.n, MapValue(m))
      ELSE IF next <= 0 THEN Failed(next, MapValue(held))
      ELSE IF p[at] = RBRACE THEN [n |-> at, v |-> MapValue(held)]
      ELSE LoadMap(p, at, held)

(* tinybuf_json_load_for_array: where no element can start, the end may be.  *)
LoadArray(p, n, a) == LoadElement(p, n, a, ReadJson(From(p, n)))

LoadElement(p, n, a, e) ==
  LET close == SkipFor(From(p, n), {RBRACKET})
      next == SkipFor(From(p, n + e.n), {COMMA, RBRACKET})
      held == Append(a, e.v)
  IN  IF e.n = 0 - 1
      THEN IF close <= 0 THEN Failed(close, ArrayValue(a))
           ELSE [n |-> n + close, v |-> ArrayValue(a)]
      ELSE IF e.n = 0 THEN Failed(0, ArrayValue(a))
      ELSE IF next <= 0 THEN Failed(next, ArrayValue(held))
      ELSE IF p[n + e.n + next] = RBRACKET THEN [n |-> n + e.n + next, v |-> ArrayValue(held)]
      ELSE LoadArray(p, n + e.n + next, held)

(* tinybuf_value_deserialize_from_json.                                     *)
ReadJson(p) ==
  LET k == SkipFor(p, Starts)
      q == From(p, k)
      r == From(p, k - 1)
      Took(n, v) == [n |-> IF n <= 0 THEN n ELSE k - 1 + n, v |-> IF n <= 0 THEN Null ELSE v]
      Inside(c) == [n |-> IF c.n <= 0 THEN c.n ELSE k + c.n, v |-> c.v]
  IN  IF k <= 0 THEN [n |-> k, v |-> Null]
      ELSE CASE p[k] = LBRACE -> Inside(LoadMap(q, 0, NoKeys))
             [] p[k] = LBRACKET -> Inside(LoadArray(q, 0, <<>>))
             [] p[k] = QUOTE -> LET c == LoadString(r) IN Took(c.n, StringValue(c.s))
             [] p[k] = TrueText[1] -> Took(Literal(r, TrueText), BoolValue(TRUE))
             [] p[k] = FalseText[1] -> Took(Literal(r, FalseText), BoolValue(FALSE))
             [] p[k] = NullText[1] -> Took(Literal(r, NullText), Null)
             [] OTHER -> LET c == LoadNumber(r) IN Took(c.n, c.v)
=============================================================================
