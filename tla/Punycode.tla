------------------------------ MODULE Punycode ------------------------------
(* Punycode.cpp: how an identifier with letters beyond ASCII stands in a     *)
(* mangled name, and the bytes that are read from it.  Characters are their  *)
(* codes.  Codes are small enough that no int of the source overflows.       *)
EXTENDS Naturals, Sequences, SequencesExt, FiniteSetsExt

Base == 36
TMin == 1
TMax == 26
Skew == 38
Damp == 700
InitialBias == 72
InitialN == 128
Delimiter == 95

digit_value(digit) == IF digit < 26 THEN 97 + digit ELSE 65 - 26 + digit
IsDigit(char) == char \in 97..122 \union 65..74
digit_index(char) == IF char \in 97..122 THEN char - 97 ELSE char - 65 + 26

isValidUnicodeScalar(s) == s < 55296 \/ s \in 57344..2097151

RECURSIVE Adapted(_, _)
Adapted(delta, k) ==
    IF delta > ((Base - TMin) * TMax) \div 2 THEN Adapted(delta \div (Base - TMin), k + Base)
    ELSE k + ((Base - TMin + 1) * delta) \div (delta + Skew)

adapt(delta, numpoints, firsttime) ==
    LET scaled == IF firsttime THEN delta \div Damp ELSE delta \div 2
    IN Adapted(scaled + scaled \div numpoints, 0)

\* t, by the place of the digit
Threshold(k, bias) ==
    IF k <= bias THEN TMin ELSE IF k >= bias + TMax THEN TMax ELSE k - bias

-----------------------------------------------------------------------------
(* Decoding.  What does not decode ends the name without an error.           *)

\* The number that text begins with, added to i, and what follows it.
RECURSIVE Numeral(_, _, _, _, _)
Numeral(text, i, w, k, bias) ==
    IF text = <<>> \/ ~IsDigit(text[1]) THEN [found |-> FALSE, i |-> i, rest |-> text]
    ELSE LET digit == digit_index(text[1])
             t == Threshold(k, bias)
         IN IF digit < t THEN [found |-> TRUE, i |-> i + digit * w, rest |-> Tail(text)]
            ELSE Numeral(Tail(text), i + digit * w, w * (Base - t), k + Base, bias)

RECURSIVE Inserted(_, _, _, _, _)
Inserted(text, points, n, i, bias) ==
    LET next == Numeral(text, i, 1, Base, bias)
        size == Len(points) + 1
    IN IF text = <<>> \/ ~next.found THEN points
       ELSE Inserted(next.rest, InsertAt(points, (next.i % size) + 1, n + next.i \div size),
                     n + next.i \div size, (next.i % size) + 1,
                     adapt(next.i - i, size, i = 0))

decodePunycode(text) ==
    LET delimiters == {i \in DOMAIN text : text[i] = Delimiter}
        last == IF delimiters = {} THEN 0 ELSE Max(delimiters)
        basic == SubSeq(text, 1, last - 1)
        foreign == {i \in DOMAIN basic : basic[i] > 127}
    IN IF foreign # {} THEN SubSeq(basic, 1, Min(foreign) - 1)
       ELSE Inserted(SubSeq(text, last + 1, Len(text)), basic, InitialN, 0, InitialBias)

-----------------------------------------------------------------------------
(* Encoding.                                                                 *)

RECURSIVE Places(_, _, _)
Places(q, k, bias) ==
    LET t == Threshold(k, bias)
    IN IF q < t THEN <<digit_value(q)>>
       ELSE <<digit_value(t + ((q - t) % (Base - t)))>>
            \o Places((q - t) \div (Base - t), k + Base, bias)

\* One more occurrence of the code n, or one more smaller code, at a time.
Occurrence(state, c, b) ==
    IF c < state.n THEN [state EXCEPT !.delta = @ + 1]
    ELSE IF c > state.n THEN state
    ELSE [state EXCEPT !.out = @ \o Places(state.delta, Base, state.bias),
                       !.bias = adapt(state.delta, state.h + 1, state.h = b),
                       !.delta = 0, !.h = @ + 1]

RECURSIVE Rounds(_, _, _)
Rounds(points, state, b) ==
    IF state.h = Len(points) THEN state.out
    ELSE LET m == Min({c \in Range(points) : c >= state.n})
             round == FoldLeft(LAMBDA sofar, c : Occurrence(sofar, c, b),
                        [state EXCEPT !.delta = @ + (m - state.n) * (state.h + 1), !.n = m], points)
         IN Rounds(points, [round EXCEPT !.delta = @ + 1, !.n = @ + 1], b)

encodePunycode(points) ==
    LET basic == SelectSeq(points, LAMBDA c : c < 128)
    IN IF \E c \in Range(points) : ~isValidUnicodeScalar(c) THEN <<>>
       ELSE Rounds(points, [n |-> InitialN, delta |-> 0, bias |-> InitialBias, h |-> Len(basic),
                            out |-> basic \o IF basic = <<>> THEN <<>> ELSE <<Delimiter>>],
                   Len(basic))

-----------------------------------------------------------------------------
Continuation(s) == 128 + (s % 64)

EncodedScalar(s) ==
    IF s < 128 THEN <<s>>
    ELSE IF s < 2048 THEN <<192 + s \div 64, Continuation(s)>>
    ELSE IF s < 65536 THEN <<224 + s \div 4096, Continuation(s \div 64), Continuation(s)>>
    ELSE <<240 + s \div 262144, Continuation(s \div 4096), Continuation(s \div 64), Continuation(s)>>

encodeToUTF8(scalars) ==
    IF \E s \in Range(scalars) : ~isValidUnicodeScalar(s) THEN <<>>
    ELSE FlattenSeq([i \in DOMAIN scalars |-> EncodedScalar(scalars[i])])

decodePunycodeUTF8(text) == encodeToUTF8(decodePunycode(text))
=============================================================================
