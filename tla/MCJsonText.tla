----------------------------- MODULE MCJsonText -----------------------------
(***************************************************************************)
(* Parser and serializer against reference definitions.  A behaviour is    *)
(* one call of Parse on a text chosen in the initial state.                *)
(***************************************************************************)
EXTENDS JsonText, FiniteSets, SequencesExt

CONSTANT MaxLength  \* longest number, and longest name

VARIABLES family, input, output

vars == <<family, input, output>>

----------------------------------------------------------------------------
(***************************************************************************)
(* Structure: the texts of small trees, and all texts one byte away.       *)
(***************************************************************************)
Member(c, v) == [key |-> <<c>>, value |-> v]
Leaves == {[array |-> <<>>], [object |-> <<>>]}

\* Arrays and objects of up to two values of S, with distinct keys.
Above(S) ==
    Leaves
      \cup {[array |-> <<v>>] : v \in S}
      \cup {[array |-> <<v, w>>] : v \in S, w \in S}
      \cup {[object |-> <<Member(c, v)>>] : c \in {97, 98}, v \in S}
      \cup {[object |-> <<Member(c, v), Member(195 - c, w)>>] : c \in {97, 98}, v \in S, w \in S}

LowTrees == Above(Leaves)

Words == {Null, [bool |-> TRUE], [bool |-> FALSE]}

Trees == Above(LowTrees) \cup Words \cup Above(Words)

Children(v) ==
    CASE "array" \in DOMAIN v  -> ToSet(v.array)
      [] "object" \in DOMAIN v -> {m.value : m \in ToSet(v.object)}
      [] OTHER                 -> {}

RECURSIVE Depth(_), Size(_)
Depth(v) ==
    IF Children(v) = {} THEN 1
    ELSE 1 + (CHOOSE n \in 1..MaxDepth + 2 :
                 /\ \E c \in Children(v) : Depth(c) = n
                 /\ \A c \in Children(v) : Depth(c) <= n)

Size(v) ==
    CASE "array" \in DOMAIN v  -> FoldLeft(LAMBDA n, c : n + Size(c), 1, v.array)
      [] "object" \in DOMAIN v -> FoldLeft(LAMBDA n, c : n + Size(c.value), 1, v.object)
      [] OTHER                 -> 1

\* The texts of the trees within the parser's limits, without white space.
Canonical ==
    {ToText(v) : v \in {w \in Trees : Depth(w) <= MaxDepth /\ Size(w) <= MaxNodes}}

\* Repeated keys, one key too many, one level too many.
Illegal ==
    {[object |-> <<Member(97, v), Member(97, w)>>] : v \in Leaves, w \in LowTrees}
      \cup {[object |-> [i \in 1..(MaxKeys + 1) |-> Member(96 + i, [array |-> <<>>])]]}
      \cup {[array |-> <<[array |-> <<v>>]>>] : v \in LowTrees}

Punctuation == {32, Byte.comma, Byte.colon, Byte.open, Byte.close, Byte.begin, Byte.end}

\* The byte at i is not part of a key.
Outside(t, i) ==
    /\ Cardinality({k \in 1..(i - 1) : t[k] = Byte.quote}) % 2 = 0
    /\ i <= Len(t) => t[i] # Byte.quote

\* What can be inserted at i: not white space into a word, which Strip would undo.
Insertable(t, i) ==
    IF i \in 2..Len(t) /\ {t[i - 1], t[i]} \subseteq 97..122 THEN Punctuation \ {32}
    ELSE Punctuation

OneByteAway(t) ==
    {RemoveAt(t, i) : i \in {k \in DOMAIN t : Outside(t, k)}}
      \cup {ReplaceAt(t, i, c) : i \in {k \in DOMAIN t : Outside(t, k)}, c \in Punctuation}
      \cup UNION {{InsertAt(t, i, c) : c \in Insertable(t, i)} :
                     i \in {k \in 1..(Len(t) + 1) : Outside(t, k)}}

Structures ==
    LET base == {ToText(v) : v \in {w \in Trees : Size(w) <= 4} \cup Illegal}
    IN  base \cup {ToText(v) : v \in Trees} \cup UNION {OneByteAway(t) : t \in base}

Strip(t) == SelectSeq(t, LAMBDA c : c # 32)

----------------------------------------------------------------------------
(***************************************************************************)
(* Strings: pieces of a literal with the UTF-16 code units they stand for. *)
(***************************************************************************)
Escape(unit) ==
    LET digit(n) == HexChar((unit \div n) % 16) IN
    [text |-> <<Byte.backslash, Byte.u, digit(4096), digit(256), digit(16), digit(1)>>,
     units |-> <<unit>>]

Pieces ==
    {Escape(u) : u \in {0, 65, 127, 128, 2047, 2048, 55295, 55296, 56319, 56320, 57343, 57344, 65535}}
      \cup {[text |-> <<65>>, units |-> <<65>>],
            [text |-> <<195, 169>>, units |-> <<233>>],
            [text |-> <<240, 144, 128, 128>>, units |-> <<55296, 56320>>],
            [text |-> <<Byte.backslash, 110>>, units |-> <<10>>],
            [text |-> <<Byte.backslash, Byte.quote>>, units |-> <<34>>]}

\* Pieces that are not part of any string: a control byte, an unknown escape, a
\* surrogate in UTF-8, an overlong form, an escape cut short.
BadPieces == {<<31>>, <<Byte.backslash, 120>>, <<237, 160, 128>>, <<192, 128>>, <<Byte.backslash, Byte.u, 48, 48>>}

Literals ==
    {<<p, q>> : p \in Pieces, q \in Pieces} \cup {<<p, q, r>> : p \in Pieces, q \in Pieces, r \in Pieces}

WellFormed(units) ==
    /\ \A i \in DOMAIN units : units[i] \in HighSurrogates =>
            i < Len(units) /\ units[i + 1] \in LowSurrogates
    /\ \A i \in DOMAIN units : units[i] \in LowSurrogates =>
            i > 1 /\ units[i - 1] \in HighSurrogates

\* The UTF-8 text of well-formed UTF-16.
Transcoded(units) ==
    FlattenSeq([i \in DOMAIN units |->
        CASE units[i] \in HighSurrogates ->
                EncodeUtf8(65536 + (units[i] - 55296) * 1024 + (units[i + 1] - 56320))
          [] units[i] \in LowSurrogates -> <<>>
          [] OTHER -> EncodeUtf8(units[i])])

Quoted(s) == <<Byte.quote>> \o s \o <<Byte.quote>>

----------------------------------------------------------------------------
(***************************************************************************)
(* Names: byte strings as the kernel reports them.                         *)
(***************************************************************************)
NameBytes == {10, 31, 34, 65, 92, 128, 143, 144, 159, 160, 191, 194, 224, 237, 240, 244, 245}

Names ==
    BoundedSeq(NameBytes, MaxLength - 2)
      \cup {<<a, b, c, d>> : a \in {240, 244, 245}, b \in {143, 144, 191},
                              c \in {65, 128, 191}, d \in {65, 128, 191}}

\* The code point n bytes at i stand for, were they UTF-8.
CodePoint(s, i, n) ==
    FoldLeft(LAMBDA cp, c : cp * 64 + c - 128,
             CASE n = 2 -> s[i] - 192 [] n = 3 -> s[i] - 224 [] OTHER -> s[i] - 240,
             SubSeq(s, i + 1, i + n - 1))

IsUtf8(s, i, n) ==
    /\ i + n - 1 <= Len(s)
    /\ LET cp == CodePoint(s, i, n) IN
        /\ cp \in 128..1114111 /\ cp \notin HighSurrogates \cup LowSurrogates
        /\ EncodeUtf8(cp) = SubSeq(s, i, i + n - 1)

\* docs/protocol.md: "invalid UTF-8 bytes are escaped as U+00xx".
RECURSIVE Repaired(_, _)
Repaired(s, i) ==
    IF i > Len(s) THEN <<>>
    ELSE IF s[i] < 128 THEN <<s[i]>> \o Repaired(s, i + 1)
    ELSE IF \E n \in 2..4 : IsUtf8(s, i, n)
      THEN LET n == CHOOSE n \in 2..4 : IsUtf8(s, i, n)
           IN  SubSeq(s, i, i + n - 1) \o Repaired(s, i + n)
    ELSE EncodeUtf8(s[i]) \o Repaired(s, i + 1)

----------------------------------------------------------------------------
(***************************************************************************)
(* Numbers: every short text, against the grammar of RFC 8259.             *)
(***************************************************************************)
Numerals == BoundedSeq({Byte.minus, Byte.plus, Byte.dot, 48, 49, 57, 101}, MaxLength) \ {<<>>}

AreDigits(s) == s # <<>> /\ ToSet(s) \subseteq Digits

IsSigned(s, signs, Body(_)) == Body(s) \/ (s # <<>> /\ s[1] \in signs /\ Body(Tail(s)))

IsInteger(s) == AreDigits(s) /\ (s[1] = 48 => Len(s) = 1)
IsFraction(s) == s = <<>> \/ (s[1] = Byte.dot /\ AreDigits(Tail(s)))
IsExponent(s) ==
    s = <<>> \/ (s[1] = 101 /\ IsSigned(Tail(s), {Byte.plus, Byte.minus}, AreDigits))

Magnitude(s) == IF s[1] = Byte.minus THEN Decimal(s, 2, Len(s) + 1) ELSE Decimal(s, 1, Len(s) + 1)

\* s is a number, i bytes of it an integer and j - i a fraction.
Splits(s, i, j) ==
    /\ IsSigned(SubSeq(s, 1, i), {Byte.minus}, IsInteger)
    /\ IsFraction(SubSeq(s, i + 1, j))
    /\ IsExponent(SubSeq(s, j + 1, Len(s)))

InRange(s, i, j) ==
    IF i = Len(s)
      THEN Magnitude(s) <= IF s[1] = Byte.minus THEN MaxInt64 + 1 ELSE MaxUInt64
      ELSE \/ j = Len(s)
           \/ LET e == SelectSeq(SubSeq(s, j + 2, Len(s)), LAMBDA c : c \in Digits)
              IN  Decimal(e, 1, Len(e) + 1) <= MaxExponent
           \/ \A k \in 1..j : s[k] \notin {49, 57}

----------------------------------------------------------------------------
None == [ok |-> FALSE, pos |-> 0, nodes |-> 0, value |-> [null |-> FALSE]]

Init ==
    /\ output = None
    /\ \/ family = "structure" /\ input \in Structures
       \/ family = "string" /\ input \in Literals
       \/ family = "bad string" /\ input \in {<<p, b>> : p \in Pieces, b \in BadPieces}
       \/ family = "name" /\ input \in Names
       \/ family = "number" /\ input \in Numerals

Text ==
    CASE family \in {"structure", "number"} -> input
      [] family = "string" -> Quoted(FlattenSeq([i \in DOMAIN input |-> input[i].text]))
      [] family = "bad string" -> Quoted(input[1].text \o input[2])
      [] family = "name" -> ToText([str |-> input])

Next ==
    /\ output = None
    /\ output' = Parse(Text)
    /\ UNCHANGED <<family, input>>

Spec == Init /\ [][Next]_vars

Done(f) == output # None /\ family = f

----------------------------------------------------------------------------
(***************************************************************************)
(* Properties.                                                             *)
(***************************************************************************)

\* Parse accepts exactly the texts ToString writes, with white space between
\* the tokens, for trees within the limits of depth, nodes and keys and without
\* a repeated key; and it returns the tree that was written.  A missing or
\* trailing comma, a wrong bracket, a cut word or anything left over is rejected.
StructureAgrees ==
    Done("structure") =>
        /\ output.ok <=> Strip(input) \in Canonical
        /\ output.ok => ToText(output.value) = Strip(input)

\* A literal is accepted if and only if its code units are well-formed UTF-16,
\* however escapes and raw bytes are mixed, and decodes to their UTF-8 text.
StringsDecode ==
    /\ Done("string") =>
        LET units == FlattenSeq([i \in DOMAIN input |-> input[i].units]) IN
        /\ output.ok <=> WellFormed(units)
        /\ output.ok => output.value = [str |-> Transcoded(units)]
    /\ Done("bad string") => ~output.ok

\* Whatever bytes a process name has, the text the server writes is a document
\* the client accepts, and differs from the name only in the bytes that were
\* not UTF-8.
NamesSurvive ==
    Done("name") => output.ok /\ output.value = [str |-> Repaired(input, 1)]

\* Parse accepts exactly the numbers of the JSON grammar that fit int64_t,
\* uint64_t or double, and an integer is written again as it was read (-0 as 0).
NumbersParse ==
    Done("number") =>
        /\ output.ok <=>
              \E i \in 1..Len(input) : \E j \in i..Len(input) :
                  Splits(input, i, j) /\ InRange(input, i, j)
        /\ output.ok /\ "double" \notin DOMAIN output.value /\ input # <<Byte.minus, 48>>
              => ToText(output.value) = input
============================================================================
