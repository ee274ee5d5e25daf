------------------------------ MODULE JSONCodec ------------------------------
(***************************************************************************)
(* KSJSONCodec.c: the encoder that crash reports and the state file are    *)
(* written with, and the decoder that reads them back.  The encoder keeps  *)
(* no document: every call hands pieces of text to a callback which writes *)
(* them to a file, and which may fail.  Its callers in KSCrashReport.c     *)
(* ignore what a call returns and go on with the next one.                 *)
(*                                                                         *)
(* A text is a sequence of characters, each a string of its own; "bs" is   *)
(* the backspace and "ctl" any other character below the space that has no *)
(* escape.  Bytes that \u escapes stand for are their decimal numbers.      *)
(***************************************************************************)
EXTENDS Integers, SequencesExt, TLC

CONSTANTS Names, Strings,    \* texts used as keys and as string values
          Whole,             \* texts of integers, which %lld prints exactly
          Double,            \* doubles, named in Lg
          Raw,               \* texts given to ksjson_addJSONElement
          WorkBufferSize,    \* KSJSONCODEC_WorkBufferSize
          MaxInteger,        \* largest integer of the decoder
          MaxCalls, MaxLevel \* bounds: calls of a caller, nesting

BufferAssumption == WorkBufferSize \in Nat /\ WorkBufferSize >= 2

VARIABLES
    level, isObject, first,  \* containerLevel, isObject, containerFirstEntry
    pretty,                  \* prettyPrint
    out,                     \* the text the callback has written
    sinkOk,                  \* whether it can write; a full disk stays full
    inString,                \* between beginStringElement and endStringElement
    called, done,            \* calls made; ksjson_endEncode returned
    \* history: the elements whose calls succeeded, whether a call refused what
    \* it was given, and the most that was put into the work buffer
    events, refused, buffered

vars == <<level, isObject, first, pretty, out, sinkOk, inString, called, done,
          events, refused, buffered>>

NoName == <<>>
Quote == <<"\"">>
Digit == {"0", "1", "2", "3", "4", "5", "6", "7", "8", "9"}
FPChar == Digit \union {".", "e", "E", "+", "-"}
Blank == {" ", "\n", "\t", "\r", "\f"}
Word == ("true" :> <<"t", "r", "u", "e">>) @@ ("false" :> <<"f", "a", "l", "s", "e">>)
        @@ ("null" :> <<"n", "u", "l", "l">>)

(* What %lg prints of a double: six digits, without a point if there is    *)
(* nothing behind it, with an exponent if they do not reach; and a word of  *)
(* one that is not a number, or not finite.                                *)
Lg == ("two" :> <<"2">>) @@ ("a third" :> <<"0", ".", "3", "3", "3", "3", "3", "3">>)
      @@ ("ten to 20" :> <<"1", "e", "+", "2", "0">>) @@ ("NaN" :> <<"n", "a", "n">>)
      @@ ("infinite" :> <<"i", "n", "f">>) @@ ("-infinite" :> <<"-", "i", "n", "f">>)
NotFinite == {"NaN", "infinite", "-infinite"}

-----------------------------------------------------------------------------
(* Strings are escaped in portions of half the work buffer.                *)
Letter == ("\n" :> "n") @@ ("\t" :> "t") @@ ("\r" :> "r") @@ ("\f" :> "f") @@ ("bs" :> "b")

Escape(c) ==
    CASE c \in {"\\", "\""} -> <<"\\", c>>
      [] c \in DOMAIN Letter -> <<"\\", Letter[c]>>
      [] OTHER -> <<c>>

Encoded(portion) == FlattenSeq([i \in DOMAIN portion |-> Escape(portion[i])])

InPortions(s, size) ==
    [i \in 1..((Len(s) + size - 1) \div size) |->
        SubSeq(s, (i - 1) * size + 1, Min({i * size, Len(s)}))]

\* Mutant: portions of the whole buffer.
MutPortions(s) == InPortions(s, WorkBufferSize)

Portions(s) == InPortions(s, WorkBufferSize \div 2)

(* A call is the pieces it hands to the callback, and whether it gets to   *)
(* its end: it stops before a portion with a control character, and at a   *)
(* missing name.                                                           *)
Call(pieces, ok) == [pieces |-> pieces, ok |-> ok]
Text(text) == Call(<<text>>, TRUE)
Then(c, d) == IF c.ok THEN Call(c.pieces \o d.pieces, d.ok) ELSE c

EscapedString(s) ==
    LET portions == Portions(s)
        bad == {i \in DOMAIN portions : "ctl" \in Range(portions[i])}
        good == IF bad = {} THEN Len(portions) ELSE Min(bad) - 1
    IN  Call([i \in 1..good |-> Encoded(portions[i])], bad = {})

QuotedEscapedString(s) == Then(Text(Quote), Then(EscapedString(s), Text(Quote)))

\* A line break and the indent, one blank for four, when printing prettily.
NewLine(depth) == IF pretty THEN <<<<"\n">>>> \o [i \in 1..depth |-> <<" ">>] ELSE <<>>

(* ksjson_beginElement: comma, line and indent, and in an object the name.   *)
BeginElement(name) ==
    LET comma == IF first THEN <<>> ELSE <<<<",">>>>
        before == comma \o (IF level > 0 THEN NewLine(level) ELSE <<>>)
    IN  IF ~isObject[level] THEN Call(before, TRUE)
        ELSE IF name = NoName THEN Call(before, FALSE)
        ELSE Then(Call(before, TRUE),
                  Then(QuotedEscapedString(name), Text(IF pretty THEN <<":", " ">> ELSE <<":">>)))

(* The callback writes the first n pieces of c and then, if some are left, *)
(* it fails.                                                               *)
Write(c, n) ==
    /\ out' = out \o FlattenSeq(SubSeq(c.pieces, 1, n))
    /\ sinkOk' = (n = Len(c.pieces))
    /\ refused' = (refused \/ (sinkOk' /\ ~c.ok))

\* A call that succeeds adds event to the document.
WriteFor(c, event) ==
    \E n \in 0..Len(c.pieces) :
        /\ Write(c, n)
        /\ events' = IF sinkOk' /\ c.ok THEN Append(events, event) ELSE events

Used(s) == Max({0} \union {Len(Encoded(p)) : p \in Range(Portions(s))})
Buffer(s) == buffered' = Max({buffered, Used(s)})

-----------------------------------------------------------------------------
(* ksjson_beginEncode.                                                     *)
Init ==
    /\ pretty \in BOOLEAN
    /\ level = 0 /\ isObject = [l \in 0..MaxLevel |-> FALSE] /\ first = TRUE
    /\ out = <<>> /\ sinkOk = TRUE /\ inString = FALSE
    /\ called = 0 /\ done = FALSE
    /\ events = <<>> /\ refused = FALSE /\ buffered = 0

Calling == ~done /\ sinkOk /\ called < MaxCalls /\ called' = called + 1

(* The callers begin a container first and add to it until they have ended *)
(* it.  One whose begin was refused ends its parent instead, and may go on  *)
(* behind the end of the document.                                         *)
Adding == Calling /\ ~inString /\ (level > 0 \/ refused)

Key(name) == IF isObject[level] THEN name ELSE NoName

Element(name, body, event) ==
    /\ Adding
    /\ WriteFor(Then(BeginElement(name), body), event)
    /\ first' = FALSE
    /\ UNCHANGED <<level, isObject, pretty, done>>

AddStringElement(name, s) ==
    /\ Element(name, QuotedEscapedString(s), <<"string", Key(name), s>>)
    /\ Buffer(s) /\ UNCHANGED inString

AddIntegerElement(name, text) ==
    /\ Element(name, Text(text), <<"number", Key(name), text>>)
    /\ UNCHANGED <<inString, buffered>>

(* ksjson_addFloatingPointElement takes any double and prints what it is.   *)
AddFloatingPointElement(name, d) ==
    /\ Element(name, Text(Lg[d]), <<IF d \in NotFinite THEN "not finite" ELSE "number",
                                    Key(name), Lg[d]>>)
    /\ UNCHANGED <<inString, buffered>>

\* ksjson_addBooleanElement, ksjson_addNullElement
AddWord(name, word) ==
    /\ Element(name, Text(Word[word]), <<word, Key(name), <<>>>>)
    /\ UNCHANGED <<inString, buffered>>

(* ksjson_addJSONElement looks at the first character of the text only.    *)
AddJSONElement(name, text) ==
    IF Head(text) \in {"[", "{", "\"", "f", "t", "n", "-"} \union Digit
    THEN /\ Element(name, Text(text), <<"json", Key(name), text>>)
         /\ UNCHANGED <<inString, buffered>>
    ELSE /\ Adding /\ refused' = TRUE
         /\ UNCHANGED <<level, isObject, first, pretty, out, sinkOk, inString, done,
                        events, buffered>>

(* ksjson_beginStringElement.  Its caller, kscrw_i_addTextFileElement, goes *)
(* on to the end of the element when it or an append was refused.          *)
BeginStringElement(name) ==
    /\ Element(name, Text(Quote), <<"string", Key(name), <<>>>>)
    /\ inString' = TRUE /\ UNCHANGED buffered

(* What an append or the end of a string element adds to the last event.   *)
Extend(c, s) ==
    \E n \in 0..Len(c.pieces) :
        /\ Write(c, n)
        /\ events' = IF events # <<>> /\ Last(events)[1] = "string"
                     THEN [events EXCEPT ![Len(events)][3] = @ \o s] ELSE events

AppendStringElement(s) ==
    /\ Calling /\ inString
    /\ Extend(EscapedString(s), s)
    /\ Buffer(s)
    /\ UNCHANGED <<level, isObject, first, pretty, inString, done>>

\* ksjson_appendDataElement with one byte, whose two nybbles are given
AppendDataElement(high, low) ==
    /\ Calling /\ inString
    /\ Extend(Text(<<high, low>>), <<high, low>>)
    /\ UNCHANGED <<level, isObject, first, pretty, inString, done, buffered>>

EndStringElement ==
    /\ Calling /\ inString
    /\ Extend(Text(Quote), <<>>)
    /\ inString' = FALSE
    /\ UNCHANGED <<level, isObject, first, pretty, done, buffered>>

(* ksjson_beginObject and ksjson_beginArray.                               *)
BeginContainer(object, name) ==
    LET begin == BeginElement(name)
        c == Then(begin, Text(IF object THEN <<"{">> ELSE <<"[">>))
    IN  /\ Calling /\ ~inString /\ level < MaxLevel
        /\ (level > 0 \/ refused \/ out = <<>>)
        /\ WriteFor(c, <<IF object THEN "object" ELSE "array", Key(name), <<>>>>)
        /\ IF begin.ok
           THEN /\ level' = level + 1 /\ first' = TRUE
                /\ isObject' = [isObject EXCEPT ![level + 1] = object]
           ELSE first' = FALSE /\ UNCHANGED <<level, isObject>>
        /\ UNCHANGED <<pretty, inString, done, buffered>>

\* The text of ksjson_endContainer.
Ending == Call((IF first THEN <<>> ELSE NewLine(level - 1))
               \o <<IF isObject[level] THEN <<"}">> ELSE <<"]">>>>, TRUE)

EndContainer ==
    /\ ~done /\ sinkOk /\ ~inString /\ level > 0
    /\ WriteFor(Ending, <<"end", NoName, <<>>>>)
    /\ level' = level - 1 /\ first' = FALSE
    /\ UNCHANGED <<isObject, pretty, inString, called, done, buffered>>

(* ksjson_endEncode, whose loop over the open containers is EndContainer.   *)
EndEncode ==
    /\ ~done /\ sinkOk /\ ~inString /\ level = 0 /\ out # <<>>
    /\ done' = TRUE
    /\ UNCHANGED <<level, isObject, first, pretty, out, sinkOk, inString, called,
                   events, refused, buffered>>

Next ==
    \/ \E name \in Names \union {NoName} :
          \/ \E s \in Strings : AddStringElement(name, s)
          \/ \E text \in Whole : AddIntegerElement(name, text)
          \/ \E d \in Double : AddFloatingPointElement(name, d)
          \/ \E word \in DOMAIN Word : AddWord(name, word)
          \/ \E text \in Raw : AddJSONElement(name, text)
          \/ BeginStringElement(name)
          \/ \E object \in BOOLEAN : BeginContainer(object, name)
    \/ \E s \in Strings : AppendStringElement(s)
    \/ AppendDataElement("0", "7")
    \/ EndStringElement
    \/ EndContainer
    \/ EndEncode

Spec == Init /\ [][Next]_vars

-----------------------------------------------------------------------------
(***************************************************************************)
(* The decoder.  A result is a code, the position behind what was read,    *)
(* and the callbacks that were made, which do not fail here.               *)
(***************************************************************************)
Result(code, at, calls) == [code |-> code, at |-> at, calls |-> calls]
Ok(at, calls) == Result("OK", at, calls)

\* Mutant: a loop that runs out of data returns the code of its last element.
MutIncomplete(at, calls) == Ok(at, calls)

Incomplete(at, calls) == Result("INCOMPLETE", at, calls)
Invalid(at, calls) == Result("INVALID_CHARACTER", at, calls)

\* The first position from p on, up to one past the end, with none of chars.
PastAll(d, p, chars) == Min({q \in p..(Len(d) + 1) : q > Len(d) \/ d[q] \notin chars})
SkipWhitespace(d, p) == PastAll(d, p, Blank)
AtEnd(d, p) == p > Len(d)

RECURSIVE ClosingQuote(_, _)
ClosingQuote(d, p) ==
    IF AtEnd(d, p) \/ d[p] = "\"" THEN p
    ELSE ClosingQuote(d, IF d[p] = "\\" THEN p + 2 ELSE p + 1)

DigitValue == [c \in Digit |-> CHOOSE v \in 0..9 : ToString(v) = c]

Unescaped == [c \in {Letter[e] : e \in DOMAIN Letter} |->
                 CHOOSE e \in DOMAIN Letter : Letter[e] = c]
             @@ ("\"" :> "\"") @@ ("\\" :> "\\") @@ ("/" :> "/")

(* The value of a hexadecimal digit; any other makes the number too large.   *)
(* Bytes that are not ASCII, which index before the table, do not come here. *)
Invalid16 == 65536
HexValue(c) ==
    CASE c \in Digit -> DigitValue[c]
      [] c \in {"a", "A"} -> 10 [] c \in {"b", "B"} -> 11 [] c \in {"c", "C"} -> 12
      [] c \in {"d", "D"} -> 13 [] c \in {"e", "E"} -> 14 [] c \in {"f", "F"} -> 15
      [] OTHER -> Invalid16

Unit16(digits) == FoldLeft(LAMBDA acc, c : 16 * acc + HexValue(c), 0, digits)

IsLead(unit) == unit \in 55296..56319    \* 0xd800 to 0xdbff
IsTrail(unit) == unit \in 56320..57343   \* 0xdc00 to 0xdfff

\* The 20 bits are not offset by 0x10000, where the characters of pairs begin.
Combined(lead, trail) == (lead - 55296) * 1024 + (trail - 56320)

\* A byte of ASCII is its character.
Ascii == ("n" :> 10) @@ ("a" :> 97) @@ ("\"" :> 34) @@ ("\\" :> 92)
Byte(b) == IF b \in Range(Ascii) THEN CHOOSE c \in DOMAIN Ascii : Ascii[c] = b ELSE ToString(b)

\* Mutant: the first character of three bytes is written with two.
MutUTF8Length(c) == IF c <= 127 THEN 1 ELSE IF c <= 2048 THEN 2 ELSE IF c <= 65535 THEN 3 ELSE 4

UTF8Length(c) == IF c <= 127 THEN 1 ELSE IF c <= 2047 THEN 2 ELSE IF c <= 65535 THEN 3 ELSE 4

\* The character c in n bytes; every byte but the first has six bits.
InBytes(c, n) ==
    [i \in 1..n |-> IF i = 1 THEN Byte(<<0, 192, 224, 240>>[n] + c \div 64 ^ (n - 1))
                    ELSE Byte(128 + ((c \div 64 ^ (n - i)) % 64))]
UTF8(c) == InBytes(c, UTF8Length(c))

(* \u and four digits, which stand behind the u at position at; for half of  *)
(* a pair the other half must follow.                                        *)
UnitAt(s, at) == Unit16(SubSeq(s, at + 1, at + 4))

Pair(at, lead, between, trail) ==
    IF between # <<"\\", "u">> \/ ~IsTrail(trail) THEN Invalid(at, <<>>)
    ELSE Ok(at + 11, UTF8(Combined(lead, trail)))

UnescapeUnit(s, at, unit) ==
    IF unit >= Invalid16 \/ IsTrail(unit) THEN Invalid(at, <<>>)
    ELSE IF ~IsLead(unit) THEN Ok(at + 5, UTF8(unit))
    ELSE IF at + 10 > Len(s) THEN Incomplete(at, <<>>)
    ELSE Pair(at, unit, SubSeq(s, at + 5, at + 6), UnitAt(s, at + 6))

UnescapeUnicode(s, at) ==
    IF at + 4 > Len(s) THEN Incomplete(at, <<>>) ELSE UnescapeUnit(s, at, UnitAt(s, at))

\* Mutant: a backslash before a letter is dropped.
MutUnescape(s, i) ==
    IF s[i] # "\\" THEN Ok(i + 1, <<s[i]>>)
    ELSE IF s[i + 1] = "u" THEN UnescapeUnicode(s, i + 1) ELSE Ok(i + 2, <<s[i + 1]>>)

\* The character of s at i and the position behind it.
Unescape(s, i) ==
    CASE s[i] # "\\" -> Ok(i + 1, <<s[i]>>)
      [] s[i] = "\\" /\ s[i + 1] = "u" -> UnescapeUnicode(s, i + 1)
      [] s[i] = "\\" /\ s[i + 1] \in DOMAIN Unescaped -> Ok(i + 2, <<Unescaped[s[i + 1]]>>)
      [] OTHER -> Invalid(i, <<>>)

RECURSIVE StringValue(_, _)
Prepend(chars, rest) == [rest EXCEPT !.calls = chars \o @]
Followed(s, c) == IF c.code # "OK" THEN c ELSE Prepend(c.calls, StringValue(s, c.at))

\* The characters of s from i on, which stand in calls.
StringValue(s, i) == IF i > Len(s) THEN Ok(i, <<>>) ELSE Followed(s, Unescape(s, i))

(* ksjsoncodec_i_decodeString; the value stands in calls.                   *)
Closed(close, value) ==
    IF value.code # "OK" THEN [value EXCEPT !.calls = <<>>] ELSE Ok(close + 1, value.calls)

DecodeString(d, p) ==
    LET close == ClosingQuote(d, p + 1)
    IN  IF d[p] # "\"" THEN Invalid(p, <<>>)
        ELSE IF AtEnd(d, close) THEN Incomplete(p, <<>>)
        ELSE Closed(close, StringValue(SubSeq(d, p + 1, close - 1), 1))

Accumulated(digits) == FoldLeft(LAMBDA acc, c : 10 * acc + DigitValue[c], 0, digits)

(* A number ends before the first other character, so one at the end of    *)
(* the data is incomplete.  Digits whose value overflows are floating point *)
(* like those with a point or an exponent.  A sign at the end is judged by *)
(* the byte behind the data; it is an error either way.                    *)
DecodeNumber(d, p, name) ==
    LET start == IF d[p] = "-" THEN p + 1 ELSE p
        digits == PastAll(d, start, Digit)
        stop == PastAll(d, start, FPChar)
        exact == Accumulated(SubSeq(d, start, digits - 1)) <= MaxInteger
        kind == IF stop = digits /\ exact THEN "integer" ELSE "float"
    IN  IF start > p /\ (AtEnd(d, start) \/ d[start] \notin Digit) THEN Invalid(start, <<>>)
        ELSE IF AtEnd(d, digits) \/ AtEnd(d, stop) THEN Incomplete(stop, <<>>)
        ELSE Ok(stop, <<<<kind, name, SubSeq(d, p, stop - 1)>>>>)

DecodeWord(d, p, word, name) ==
    LET last == p + Len(Word[word]) - 1
    IN  IF last > Len(d) THEN Incomplete(p, <<>>)
        ELSE IF SubSeq(d, p, last) = Word[word] THEN Ok(last + 1, <<<<word, name, <<>>>>>>)
        ELSE Invalid(p, <<>>)

RECURSIVE DecodeElement(_, _, _), DecodeMembers(_, _, _, _)

(* Behind a member a comma is skipped, not required.                       *)
AfterMember(d, member, object, calls) ==
    LET next == SkipWhitespace(d, member.at)
    IN  IF member.code # "OK" THEN [member EXCEPT !.calls = calls \o @]
        ELSE IF AtEnd(d, next) THEN Incomplete(next, calls \o member.calls)
        ELSE DecodeMembers(d, IF d[next] = "," THEN next + 1 ELSE next, object,
                           calls \o member.calls)

AfterKey(d, key, calls) ==
    LET colon == SkipWhitespace(d, key.at)
    IN  IF key.code # "OK" THEN [key EXCEPT !.calls = calls]
        ELSE IF AtEnd(d, colon) THEN Incomplete(colon, calls)
        ELSE IF d[colon] # ":" THEN Invalid(colon, calls)
        ELSE AfterMember(d, DecodeElement(d, SkipWhitespace(d, colon + 1), key.calls), TRUE, calls)

(* The members of a container from p on, after the callbacks in calls.      *)
DecodeMembers(d, p, object, calls) ==
    LET q == SkipWhitespace(d, p)
    IN  IF AtEnd(d, q) THEN Incomplete(q, calls)
        ELSE IF d[q] = (IF object THEN "}" ELSE "]")
        THEN Ok(q + 1, Append(calls, <<"end", NoName, <<>>>>))
        ELSE IF object THEN AfterKey(d, DecodeString(d, q), calls)
        ELSE AfterMember(d, DecodeElement(d, q, NoName), FALSE, calls)

AfterString(string, name) ==
    IF string.code = "OK" THEN Ok(string.at, <<<<"string", name, string.calls>>>>) ELSE string

\* ksjsoncodec_i_decodeElement
DecodeElement(d, from, name) ==
    LET p == SkipWhitespace(d, from)
    IN  IF AtEnd(d, p) THEN Incomplete(p, <<>>)
        ELSE CASE d[p] = "[" -> DecodeMembers(d, p + 1, FALSE, <<<<"array", name, <<>>>>>>)
               [] d[p] = "{" -> DecodeMembers(d, p + 1, TRUE, <<<<"object", name, <<>>>>>>)
               [] d[p] = "\"" -> AfterString(DecodeString(d, p), name)
               [] d[p] = "t" -> DecodeWord(d, p, "true", name)
               [] d[p] = "f" -> DecodeWord(d, p, "false", name)
               [] d[p] = "n" -> DecodeWord(d, p, "null", name)
               [] d[p] \in Digit \union {"-"} -> DecodeNumber(d, p, name)
               [] OTHER -> Invalid(p, <<>>)

\* ksjson_decode; what stands behind the element is not looked at
Decode(d) == DecodeElement(d, 1, NoName)

-----------------------------------------------------------------------------
(* How an element comes back.  A double comes back as the six digits that   *)
(* were printed, without point or exponent as an integer; the least integer *)
(* as a floating-point number; a JSON text as the elements it holds.        *)
NumberKind(text) ==
    LET digits == IF Head(text) = "-" THEN Tail(text) ELSE text
    IN  IF Range(digits) \subseteq Digit /\ Accumulated(digits) <= MaxInteger
        THEN "integer" ELSE "float"

Returned(event) ==
    CASE event[1] = "number" -> <<<<NumberKind(event[3]), event[2], event[3]>>>>
      [] event[1] = "json" -> DecodeElement(event[3], 1, event[2]).calls
      [] OTHER -> <<event>>
Issued(n) == FlattenSeq([i \in 1..n |-> Returned(events[i])])

(* What the encoder writes the decoder reads back, element for element, in *)
(* a document none of whose calls was refused (ksjson_beginElement, the     *)
(* escapes, ksjson_endContainer against ksjsoncodec_i_decodeElement); but   *)
(* up to the first double that is not finite, which the encoder accepts and *)
(* the decoder takes for an invalid character (KSJSONCodec.c:343-355, 1106, *)
(* 1120, 1183).                                                            *)
RoundTrip ==
    LET notFinite == {i \in DOMAIN events : events[i][1] = "not finite"}
        back == Decode(out)
    IN  done /\ ~refused =>
            IF notFinite = {} THEN back.code = "OK" /\ back.calls = Issued(Len(events))
            ELSE /\ back.code = "INVALID_CHARACTER"
                 /\ back.calls = Issued(Min(notFinite) - 1)

(* \u escapes denote UTF-16: what is well formed is read as the characters *)
(* that it denotes, and nothing else is read.  Which character a pair is    *)
(* read as is left out: it is the one 0x10000 before (KSJSONCodec.c:913).   *)
SampleUnits == {10, 127, 128, 2047, 2048, 55295, 55296, 56319, 56320, 57343, 57344, 65535}
HexDigit(v) == <<"0", "1", "2", "3", "4", "5", "6", "7", "8", "9", "a", "B", "c", "D", "e", "F">>[v + 1]
UnitEscape(u) == <<"\\", "u">> \o [i \in 1..4 |-> HexDigit((u \div 16 ^ (4 - i)) % 16)]
Quoted(s) == Quote \o s \o Quote

ByteValue(name) ==
    IF name \in DOMAIN Ascii THEN Ascii[name] ELSE CHOOSE v \in 0..255 : ToString(v) = name

\* The shortest form of a character, read bit by bit.
Denotes(bytes, c) ==
    LET v == [i \in DOMAIN bytes |-> ByteValue(bytes[i])]
    IN  CASE Len(v) = 1 -> c = v[1] /\ c < 128
          [] Len(v) = 2 -> c = (v[1] % 32) * 64 + (v[2] % 64) /\ c >= 128
          [] Len(v) = 3 -> c = (v[1] % 16) * 4096 + (v[2] % 64) * 64 + (v[3] % 64) /\ c >= 2048
          [] OTHER -> FALSE

EscapesRead ==
    LET single(u) == ~IsLead(u) /\ ~IsTrail(u)
        Read(text) == DecodeString(Quoted(text), 1)
        Alone(u, one) ==
            /\ (one.code = "OK") = single(u)
            /\ single(u) => Denotes(one.calls, u)
        Together(u, v, two) ==
            /\ (two.code = "OK") = ((single(u) /\ single(v)) \/ (IsLead(u) /\ IsTrail(v)))
            /\ single(u) /\ single(v) =>
                   \E n \in 1..Len(two.calls) :
                       /\ Denotes(SubSeq(two.calls, 1, n), u)
                       /\ Denotes(SubSeq(two.calls, n + 1, Len(two.calls)), v)
    IN  \A u \in SampleUnits :
            /\ Alone(u, Read(UnitEscape(u)))
            /\ \A n \in 3..5 : Read(SubSeq(UnitEscape(u), 1, n)).code # "OK"
            /\ \A n \in 3..6 : Read([UnitEscape(u) EXCEPT ![n] = "g"]).code # "OK"
            /\ \A v \in SampleUnits : Together(u, v, Read(UnitEscape(u) \o UnitEscape(v)))

(* A text that was cut anywhere, by a full disk or by a process that died, *)
(* never passes for a whole one, and what the decoder reported before it   *)
(* noticed is the beginning of what was written (kscrashstate_i_loadState   *)
(* keeps it).                                                              *)
CutIsNoticed ==
    (done \/ ~sinkOk) /\ ~refused =>
        LET issued == Issued(Len(events))
        IN  \A n \in (IF done THEN 0..(Len(out) - 1) ELSE {Len(out)}) :
                LET cut == Decode(SubSeq(out, 1, n))
                IN  cut.code # "OK" /\ IsPrefix(cut.calls, issued)

(* A portion fits into the work buffer when every character of it needs an *)
(* escape (ksjsoncodec_i_addEscapedString).                                *)
BufferHolds == buffered <= WorkBufferSize
=============================================================================
