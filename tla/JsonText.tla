------------------------------ MODULE JsonText ------------------------------
(***************************************************************************)
(* JSON text in both directions: the parser of                             *)
(* common/src/common/json/parser.cpp, the serializer of                    *)
(* common/src/common/json/utils.cpp, and the UTF-8 check both use.         *)
(*                                                                         *)
(* A text is a sequence of bytes, positions start at 1.  A value is a      *)
(* record with one field that names its type.  A number with a fraction or *)
(* an exponent is kept as its text: its arithmetic is the library's.       *)
(***************************************************************************)
EXTENDS Integers, Sequences

CONSTANTS
    MaxInput,    \* 8 MiB
    MaxDepth,    \* 64
    MaxNodes,    \* 1000000
    MaxKeys,     \* 4096
    MaxUInt64,   \* 2^64 - 1
    MaxInt64,    \* 2^63 - 1
    MaxExponent  \* 308, the largest exponent of a double

ASSUME JsonAssumption ==
    {MaxInput, MaxDepth, MaxNodes, MaxKeys, MaxUInt64, MaxInt64, MaxExponent} \subseteq Nat

Byte ==
    [quote |-> 34, plus |-> 43, comma |-> 44, minus |-> 45, dot |-> 46, colon |-> 58,
     open |-> 91, backslash |-> 92, close |-> 93, u |-> 117, begin |-> 123, end |-> 125]

Digits == 48..57
Exponents == {69, 101}
Whitespace == {32, 9, 10, 13}
HighSurrogates == 55296..56319
LowSurrogates == 56320..57343

----------------------------------------------------------------------------
(***************************************************************************)
(* UTF-8.                                                                  *)
(***************************************************************************)

\* Mutant: the three-byte forms of surrogates pass.
SecondByteOfSurrogate(first, second) ==
    /\ first = 224 => second >= 160
    /\ first = 240 => second >= 144
    /\ first = 244 => second < 144

\* No overlong form, no surrogate, nothing above U+10FFFF.
SecondByteOK(first, second) ==
    /\ first = 224 => second >= 160
    /\ first = 237 => second < 160
    /\ first = 240 => second >= 144
    /\ first = 244 => second < 144

\* The length of the UTF-8 sequence at p, 0 if there is none.
Utf8Length(t, p) ==
    LET n == CASE t[p] < 128       -> 1
               [] t[p] \in 194..223 -> 2
               [] t[p] \in 224..239 -> 3
               [] t[p] \in 240..244 -> 4
               [] OTHER             -> 0
    IN  IF /\ p + n - 1 <= Len(t)
           /\ \A k \in 1..(n - 1) : t[p + k] \in 128..191
           /\ n > 1 => SecondByteOK(t[p], t[p + 1])
        THEN n ELSE 0

EncodeUtf8(cp) ==
    LET tail(n) == 128 + ((cp \div n) % 64) IN
    CASE cp < 128   -> <<cp>>
      [] cp < 2048  -> <<192 + (cp \div 64), tail(1)>>
      [] cp < 65536 -> <<224 + (cp \div 4096), tail(64), tail(1)>>
      [] OTHER      -> <<240 + (cp \div 262144), tail(4096), tail(64), tail(1)>>

----------------------------------------------------------------------------
(***************************************************************************)
(* The state of the parser is a position; a step that fails is Reject.     *)
(***************************************************************************)
Null == [null |-> TRUE]
Accept(p, n, v) == [ok |-> TRUE, pos |-> p, nodes |-> n, value |-> v]
Reject == [ok |-> FALSE, pos |-> 0, nodes |-> 0, value |-> Null]

Peek(t, p) == IF p <= Len(t) THEN t[p] ELSE 0

\* The first position from p on that does not hold one of the given bytes.
After(bytes, t, p) ==
    CHOOSE q \in p..(Len(t) + 1) :
        /\ \A k \in p..(q - 1) : t[k] \in bytes
        /\ q <= Len(t) => t[q] \notin bytes

SkipWhitespace(t, p) == IF p > Len(t) THEN p ELSE After(Whitespace, t, p)

HexDigit(c) ==
    CASE c \in 48..57  -> c - 48
      [] c \in 97..102 -> c - 87
      [] c \in 65..70  -> c - 55
      [] OTHER         -> 16

IsHex4(t, p) == p + 3 <= Len(t) /\ \A k \in 0..3 : HexDigit(t[p + k]) < 16

Hex4(t, p) ==
    4096 * HexDigit(t[p]) + 256 * HexDigit(t[p + 1]) + 16 * HexDigit(t[p + 2])
        + HexDigit(t[p + 3])

\* The first pass of ParseString: the position of the closing quote, or 0.
RECURSIVE ScanString(_, _)
ScanString(t, p) ==
    CASE p > Len(t)      -> 0
      [] Peek(t, p) = Byte.quote -> p
      [] Peek(t, p) = Byte.backslash ->
            CASE p + 1 > Len(t)                         -> 0
              [] t[p + 1] # Byte.u                     -> ScanString(t, p + 2)
              [] t[p + 1] = Byte.u /\ IsHex4(t, p + 2) -> ScanString(t, p + 6)
              [] OTHER                                  -> 0
      [] OTHER ->
            IF t[p] < 32 \/ Utf8Length(t, p) = 0 THEN 0
            ELSE ScanString(t, p + Utf8Length(t, p))

\* \" \\ \/ \b \f \n \r \t
SimpleEscape ==
    [c \in {34, 92, 47, 98, 102, 110, 114, 116} |->
        CASE c = 98 -> 8 [] c = 102 -> 12 [] c = 110 -> 10 [] c = 114 -> 13 [] c = 116 -> 9
          [] OTHER -> c]

\* Mutant: any \u may follow the first half of a surrogate pair.
PairFollowsAnything(raw, i) ==
    /\ i + 5 <= Len(raw) /\ raw[i] = Byte.backslash /\ raw[i + 1] = Byte.u

\* The second half of a surrogate pair starts at i.
PairFollows(raw, i) ==
    /\ i + 5 <= Len(raw) /\ raw[i] = Byte.backslash /\ raw[i + 1] = Byte.u
    /\ Hex4(raw, i + 2) \in LowSurrogates

\* The second pass: the escapes of raw from i on are replaced.
RECURSIVE DecodeString(_, _, _)
DecodeString(raw, i, out) ==
    IF i > Len(raw) THEN Accept(i, 0, [str |-> out])
    ELSE IF raw[i] # Byte.backslash THEN DecodeString(raw, i + 1, Append(out, raw[i]))
    ELSE IF raw[i + 1] \in DOMAIN SimpleEscape
      THEN DecodeString(raw, i + 2, Append(out, SimpleEscape[raw[i + 1]]))
    ELSE IF raw[i + 1] # Byte.u THEN Reject
    ELSE LET cp == Hex4(raw, i + 2) IN
      CASE cp \in HighSurrogates /\ PairFollows(raw, i + 6) ->
              DecodeString(raw, i + 12,
                  out \o EncodeUtf8(65536 + 1024 * (cp - 55296) + Hex4(raw, i + 8) - 56320))
        [] cp \notin HighSurrogates \cup LowSurrogates ->
              DecodeString(raw, i + 6, out \o EncodeUtf8(cp))
        [] OTHER -> Reject

ParseString(t, p) ==
    LET close == IF Peek(t, p) = Byte.quote THEN ScanString(t, p + 1) ELSE 0
        raw   == DecodeString(SubSeq(t, p + 1, close - 1), 1, <<>>)
    IN  IF close = 0 \/ ~raw.ok THEN Reject ELSE Accept(close + 1, 0, raw.value)

----------------------------------------------------------------------------
(***************************************************************************)
(* Numbers.                                                                *)
(***************************************************************************)

IsDigit(t, p) == Peek(t, p) \in Digits

AfterDigits(t, p) == After(Digits, t, p)

RECURSIVE Decimal(_, _, _)
Decimal(t, p, q) == IF q <= p THEN 0 ELSE 10 * Decimal(t, p, q - 1) + t[q - 1] - 48

\* std::from_chars on a double (external): a number other than zero needs an
\* exponent a double has.  The reference uses the same rule, so the range of a double
\* is assumed, not checked.
Representable(t, p, mantissa, q) ==
    LET digits == IF IsDigit(t, mantissa + 1) THEN mantissa + 1 ELSE mantissa + 2
    IN  \/ mantissa = q
        \/ Decimal(t, digits, q) <= MaxExponent
        \/ \A k \in p..(mantissa - 1) : t[k] \notin Digits \ {48}

\* Mutant: an integer that does not fit wraps around.
IntegerWraps(t, p, first, q) ==
    LET n == Decimal(t, first, q) IN
    IF first > p THEN Accept(q, 0, [int |-> 0 - (n % (MaxInt64 + 1))])
    ELSE Accept(q, 0, [uint |-> n % (MaxUInt64 + 1)])

\* int64_t with a sign, uint64_t without.
Integer(t, p, first, q) ==
    LET n == Decimal(t, first, q) IN
    IF first > p
      THEN IF n > MaxInt64 + 1 THEN Reject ELSE Accept(q, 0, [int |-> 0 - n])
      ELSE IF n > MaxUInt64 THEN Reject ELSE Accept(q, 0, [uint |-> n])

ParseNumber(t, p) ==
    LET first    == IF Peek(t, p) = Byte.minus THEN p + 1 ELSE p
        integer  == IF Peek(t, first) = 48 THEN first + 1 ELSE AfterDigits(t, first)
        fraction == IF Peek(t, integer) = Byte.dot THEN AfterDigits(t, integer + 1) ELSE integer
        sign     == IF Peek(t, fraction + 1) \in {Byte.plus, Byte.minus} THEN 1 ELSE 0
        digits   == fraction + 1 + sign
        last     == IF Peek(t, fraction) \in Exponents THEN AfterDigits(t, digits) ELSE fraction
    IN  IF \/ ~IsDigit(t, first)
           \/ Peek(t, first) = 48 /\ IsDigit(t, integer)
           \/ Peek(t, integer) = Byte.dot /\ ~IsDigit(t, integer + 1)
           \/ Peek(t, fraction) \in Exponents /\ ~IsDigit(t, digits)
          THEN Reject
        ELSE IF last = integer THEN Integer(t, p, first, last)
        ELSE IF Representable(t, p, fraction, last)
          THEN Accept(last, 0, [double |-> SubSeq(t, p, last - 1)])
          ELSE Reject

----------------------------------------------------------------------------
(***************************************************************************)
(* Values.  d is the depth and n the number of values begun so far.        *)
(***************************************************************************)

Literal(t, p, n, word, v) ==
    IF p + Len(word) - 1 <= Len(t) /\ SubSeq(t, p, p + Len(word) - 1) = word
      THEN Accept(p + Len(word), n, v) ELSE Reject

\* What follows a value in an array or object: the closing byte, or a comma and
\* another value.
Closes(t, p, close) == Peek(t, SkipWhitespace(t, p)) = close

Continues(t, p, close) ==
    LET q == SkipWhitespace(t, p) IN
    Peek(t, q) = Byte.comma /\ Peek(t, SkipWhitespace(t, q + 1)) # close

NextItem(t, p) == SkipWhitespace(t, SkipWhitespace(t, p) + 1)

\* Mutant: the last of several equal keys wins.
KeyOKRepeated(key, members) == key.ok /\ Len(members) < MaxKeys

KeyOK(key, members) ==
    /\ key.ok /\ Len(members) < MaxKeys
    /\ \A i \in DOMAIN members : members[i].key # key.value.str

RECURSIVE ParseValue(_, _, _, _), Elements(_, _, _, _, _), Members(_, _, _, _, _)
Elements(t, p, d, n, items) ==
    LET v   == ParseValue(t, p, d, n)
        all == Append(items, v.value)
    IN  CASE ~v.ok -> Reject
          [] v.ok /\ Closes(t, v.pos, Byte.close) ->
                Accept(SkipWhitespace(t, v.pos) + 1, v.nodes, [array |-> all])
          [] v.ok /\ Continues(t, v.pos, Byte.close) ->
                Elements(t, NextItem(t, v.pos), d, v.nodes, all)
          [] OTHER -> Reject

Members(t, p, d, n, members) ==
    LET key   == ParseString(t, SkipWhitespace(t, p))
        colon == SkipWhitespace(t, key.pos)
        v     == IF Peek(t, colon) = Byte.colon
                   THEN ParseValue(t, SkipWhitespace(t, colon + 1), d, n) ELSE Reject
        all   == Append(members, [key |-> key.value.str, value |-> v.value])
    IN  IF ~KeyOK(key, members) \/ ~v.ok THEN Reject
        ELSE CASE Closes(t, v.pos, Byte.end) ->
                    Accept(SkipWhitespace(t, v.pos) + 1, v.nodes, [object |-> all])
               [] Continues(t, v.pos, Byte.end) ->
                    Members(t, NextItem(t, v.pos), d, v.nodes, all)
               [] OTHER -> Reject

ParseArray(t, p, d, n) ==
    LET q == SkipWhitespace(t, p + 1) IN
    IF Peek(t, q) = Byte.close THEN Accept(q + 1, n, [array |-> <<>>])
    ELSE Elements(t, q, d, n, <<>>)

ParseObject(t, p, d, n) ==
    LET q == SkipWhitespace(t, p + 1) IN
    IF Peek(t, q) = Byte.end THEN Accept(q + 1, n, [object |-> <<>>])
    ELSE Members(t, q, d, n, <<>>)

WithNodes(v, n) == [v EXCEPT !.nodes = n]

ParseValue(t, p, d, n) ==
    LET q == SkipWhitespace(t, p)
        c == Peek(t, q)
    IN  IF d >= MaxDepth \/ n + 1 > MaxNodes THEN Reject
        ELSE CASE c = 110 -> Literal(t, q, n + 1, <<110, 117, 108, 108>>, Null)
               [] c = 116 -> Literal(t, q, n + 1, <<116, 114, 117, 101>>, [bool |-> TRUE])
               [] c = 102 -> Literal(t, q, n + 1, <<102, 97, 108, 115, 101>>, [bool |-> FALSE])
               [] c = Byte.quote -> WithNodes(ParseString(t, q), n + 1)
               [] c = Byte.open -> ParseArray(t, q, d + 1, n + 1)
               [] c = Byte.begin -> ParseObject(t, q, d + 1, n + 1)
               [] c = Byte.minus \/ c \in Digits -> WithNodes(ParseNumber(t, q), n + 1)
               [] OTHER -> Reject

Parse(t) ==
    LET root == ParseValue(t, 1, 0, 0) IN
    IF /\ Len(t) <= MaxInput /\ root.ok
       /\ SkipWhitespace(t, root.pos) > Len(t)
      THEN root ELSE Reject

----------------------------------------------------------------------------
(***************************************************************************)
(* The serializer (JSONValue::ToString, compact).  How std::to_chars       *)
(* rounds and writes a double is left out.                                 *)
(***************************************************************************)

HexChar(n) == IF n < 10 THEN 48 + n ELSE 87 + n

UnicodeEscape(c) ==
    <<Byte.backslash, Byte.u, 48, 48, HexChar(c \div 16), HexChar(c % 16)>>

EscapeByte(c) ==
    LET short == [x \in {8, 9, 10, 12, 13, 34, 92} |->
                    CASE x = 8 -> 98 [] x = 9 -> 116 [] x = 10 -> 110 [] x = 12 -> 102
                      [] x = 13 -> 114 [] OTHER -> x]
    IN  CASE c \in DOMAIN short    -> <<Byte.backslash, short[c]>>
          [] c \notin DOMAIN short /\ (c < 32 \/ c >= 128) -> UnicodeEscape(c)
          [] OTHER                 -> <<c>>

\* A UTF-8 sequence is copied, any other byte is escaped.
RECURSIVE Escaped(_, _)
Escaped(s, i) ==
    IF i > Len(s) THEN <<>>
    ELSE LET n == Utf8Length(s, i) IN
         IF n > 1 THEN SubSeq(s, i, i + n - 1) \o Escaped(s, i + n)
         ELSE EscapeByte(s[i]) \o Escaped(s, i + 1)

StringText(s) == <<Byte.quote>> \o Escaped(s, 1) \o <<Byte.quote>>

RECURSIVE DecimalText(_)
DecimalText(n) == (IF n < 10 THEN <<>> ELSE DecimalText(n \div 10)) \o <<48 + (n % 10)>>

RECURSIVE ToText(_), ItemsText(_, _)
ItemsText(items, i) ==
    IF i > Len(items) THEN <<>>
    ELSE (IF i = 1 THEN <<>> ELSE <<Byte.comma>>)
         \o (IF "key" \in DOMAIN items[i]
               THEN StringText(items[i].key) \o <<Byte.colon>> \o ToText(items[i].value)
               ELSE ToText(items[i]))
         \o ItemsText(items, i + 1)

ToText(v) ==
    CASE "null" \in DOMAIN v   -> <<110, 117, 108, 108>>
      [] "bool" \in DOMAIN v   -> IF v.bool THEN <<116, 114, 117, 101>>
                                            ELSE <<102, 97, 108, 115, 101>>
      [] "uint" \in DOMAIN v   -> DecimalText(v.uint)
      [] "int" \in DOMAIN v    -> IF v.int < 0 THEN <<Byte.minus>> \o DecimalText(0 - v.int)
                                             ELSE DecimalText(v.int)
      [] "str" \in DOMAIN v    -> StringText(v.str)
      [] "array" \in DOMAIN v  -> <<Byte.open>> \o ItemsText(v.array, 1) \o <<Byte.close>>
      [] "object" \in DOMAIN v -> <<Byte.begin>> \o ItemsText(v.object, 1) \o <<Byte.end>>
============================================================================
