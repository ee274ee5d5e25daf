---------------------------- MODULE RecorderTools ----------------------------
(***************************************************************************)
(* How the recorder reads memory that may be gone, takes it for text,      *)
(* moves bytes to and from files and shows a UUID:                          *)
(* ksmach_copyMaxPossibleMem (KSMach.c), KSString.c, the checks of names    *)
(* and the tagged pointers of KSObjC.c, KSFileUtils.c, KSCrashReport.c.     *)
(* These keep no state.  Introspection and JSONCodec stand on them and take *)
(* a pointer, a text or a write as a whole.                                 *)
(*                                                                         *)
(* Memory is the set of the addresses that can be read, or a function from *)
(* them to bytes; of a byte only the kind matters.                         *)
(***************************************************************************)
EXTENDS Integers, SequencesExt, TLC

-----------------------------------------------------------------------------
(* ksmach_copyMem copies a range whole or not at all.  Between at and max   *)
(* there is a byte that cannot be read, unless nothing has failed yet.      *)
Copies(readable, at, end) == at..(end - 1) \subseteq readable

RECURSIVE CopyOn(_, _, _, _)
CopyOn(readable, at, end, max) ==
    IF end <= at THEN at
    ELSE IF Copies(readable, at, end)
    THEN CopyOn(readable, end, end + ((max - end) \div 2), max)
    ELSE IF end - at <= 1 THEN at
    ELSE CopyOn(readable, at, at + ((end - at) \div 2), end)

\* How many of numBytes from src on are copied.
CopyMaxPossibleMem(readable, src, numBytes) ==
    IF src \notin readable THEN 0
    ELSE IF numBytes <= 1 THEN numBytes
    ELSE CopyOn(readable, src, src + numBytes, src + numBytes) - src

-----------------------------------------------------------------------------
(* Kinds of bytes: "nul", printable ASCII ("plain"), "control", the bytes   *)
(* that begin a character of two to six ("two" and so on), those that       *)
(* continue one ("more"), and 0xfe and 0xff, which do neither ("none").     *)
Continuations == "two" :> 1 @@ "three" :> 2 @@ "four" :> 3 @@ "five" :> 4 @@ "six" :> 5
Following(byte) == IF byte \in DOMAIN Continuations THEN Continuations[byte] ELSE 0

Continued(window, i, count) ==
    /\ i + count <= Len(window)
    /\ \A k \in 1..count : window[i + k] = "more"

RECURSIVE NulFrom(_, _)
\* Where the text ends whose character begins at i, 0 if it is none.
NulFrom(window, i) ==
    IF i > Len(window) THEN 0
    ELSE IF window[i] = "nul" THEN i
    ELSE IF window[i] \in {"plain"} \union DOMAIN Continuations
            /\ Continued(window, i, Following(window[i]))
    THEN NulFrom(window, i + Following(window[i]) + 1)
    ELSE 0

IsNullTerminatedUTF8String(window, minLength) ==
    LET nul == NulFrom(window, 1) IN nul > 0 /\ nul - 1 >= minLength

(* kscrw_i_isValidString: the whole buffer must be readable, however short  *)
(* the text is, and end before the last address.                            *)
IsValidString(bytes, address, bufferSize, minLength, space) ==
    /\ address # 0
    /\ address + bufferSize < space
    /\ Copies(DOMAIN bytes, address, address + bufferSize)
    /\ IsNullTerminatedUTF8String([i \in 1..bufferSize |-> bytes[address + i - 1]], minLength)

-----------------------------------------------------------------------------
(* ksstring_extractHexValue, of a text of "0", "x", other digits and others. *)
(* The value is that of the last digits, as many as fit into the number.    *)
HexDigits == {"0", "7", "f"}

DigitsAt(text, from) ==
    LET stop == Min({i \in from..(Len(text) + 1) : i > Len(text) \/ text[i] \notin HexDigits})
    IN  SubSeq(text, from, stop - 1)

PrefixFrom(text, from) ==
    {i \in from..(Len(text) - 1) : text[i] = "0" /\ text[i + 1] = "x"}

RECURSIVE DigitsFrom(_, _)
\* The digits behind the first prefix that has some, <<>> if there is none.
DigitsFrom(text, from) ==
    LET found == PrefixFrom(text, from)
        digits == DigitsAt(text, Min(found) + 2)
    IN  IF found = {} THEN <<>>
        ELSE IF digits = <<>> THEN DigitsFrom(text, Min(found) + 2) ELSE digits

ExtractHexValue(text, width) ==
    LET digits == DigitsFrom(text, 1)
    IN  SubSeq(digits, Max({1, Len(digits) - width + 1}), Len(digits))

-----------------------------------------------------------------------------
(* Names and types of ivars, in the bytes that could be copied: letters,    *)
(* digits, the symbols of types, "nul", and others ("bad").  What is wrong  *)
(* in a type is passed over until its end.                                  *)
NameStart == {"letter"}
NameChars == {"letter", "digit"}
TypeChars == {"letter", "digit", "symbol"}

IsValidName(copied) ==
    /\ copied # <<>> /\ copied[1] \in NameStart
    /\ \E n \in 2..Len(copied) :
          copied[n] = "nul" /\ \A i \in 2..(n - 1) : copied[i] \in NameChars

IsValidIvarType(copied) ==
    /\ copied # <<>> /\ copied[1] \in TypeChars
    /\ "nul" \in Range(copied)

-----------------------------------------------------------------------------
(* A tagged string has its length in four bits and its characters in the   *)
(* 56 above them: bytes, or indexes into a table of letters, of which the   *)
(* first is the highest.  A longer text is left out, but not its length.    *)
LengthBits == 4
CharBits(length) ==
    CASE length <= 7 -> 8 [] length \in {8, 9} -> 6 [] length \in {10, 11} -> 5 [] OTHER -> 0

\* The bits of the i-th character.
BitsOf(length, i) ==
    LET width == CharBits(length)
        lowest == LengthBits + width * (IF length <= 7 THEN i - 1 ELSE length - i)
    IN  lowest..(lowest + width - 1)

\* extractTaggedNSString: how many characters are copied, and where the 0 is put.
TaggedCopied(length, bufferLength) == Min({length, bufferLength - 1})
TaggedEnd(length) == length + 1

-----------------------------------------------------------------------------
(* KSFileUtils.c.  The answers are what the kernel returns to one call after *)
(* the other: bytes moved, or that it failed.  A call that is answered with *)
(* nothing moved is made again; "waiting" is a loop that has not ended.      *)
Failure == -1

RECURSIVE Transfer(_, _, _, _)
Transfer(length, available, answers, moved) ==
    IF moved = length THEN [moved |-> moved, result |-> "done"]
    ELSE IF answers = <<>> THEN [moved |-> moved, result |-> "waiting"]
    ELSE IF Head(answers) = Failure THEN [moved |-> moved, result |-> "failed"]
    ELSE Transfer(length, available, Tail(answers), Min({moved + Head(answers), available}))

\* The kernel writes no more than it is given, and may write less.
WriteBytesToFD(bytes, answers) ==
    LET end == Transfer(Len(bytes), Len(bytes), answers, 0)
    IN  [written |-> SubSeq(bytes, 1, end.moved), result |-> end.result]

\* Behind the end of the file nothing is read, again and again.
ReadBytesFromFD(file, length, answers) ==
    LET end == Transfer(length, Min({length, Len(file)}), answers, 0)
    IN  [read |-> SubSeq(file, 1, end.moved), result |-> end.result]

(* ksfu_readEntireFile reads as much as there was before it was opened.       *)
ReadEntireFile(size, file, answers) == ReadBytesFromFD(file, size, answers)

-----------------------------------------------------------------------------
(* kscrw_i_addUUIDElement: a byte is shown by its nybbles, the high one     *)
(* first; there is a hyphen between groups of bytes.                        *)
GroupStarts == <<1, 5, 7, 9, 11, 17>>
Nybbles(byte) == <<<<"high", byte>>, <<"low", byte>>>>
Hyphen == <<"-">>

UUIDText(bytes) ==
    FlattenSeq([g \in 1..5 |->
        (IF g = 1 THEN <<>> ELSE <<Hyphen>>)
        \o FlattenSeq([i \in 1..(GroupStarts[g + 1] - GroupStarts[g]) |->
                          Nybbles(bytes[GroupStarts[g] + i - 1])])])

-----------------------------------------------------------------------------
(* As much is copied as can be, wherever the memory that can be read ends.  *)
CopiesLongest ==
    \A readable \in SUBSET (1..6), src \in 1..6, n \in 0..6 :
        CopyMaxPossibleMem(readable, src, n)
            = Max({k \in 0..n : Copies(readable, src, src + k)})

\* The reference: every byte is where its neighbours say.
WellFormed(text) ==
    \A i \in DOMAIN text :
        /\ text[i] \in {"plain", "more"} \union DOMAIN Continuations
        /\ Continued(text, i, Following(text[i]))
        /\ text[i] = "more" =>
               \E j \in 1..(i - 1) :
                   j + Following(text[j]) >= i /\ \A k \in (j + 1)..i : text[k] = "more"

(* What is taken for text is: whole characters and a 0, within a buffer    *)
(* that can be read.                                                        *)
TextIsText ==
    /\ \A window \in [1..5 -> {"nul", "plain", "control", "more", "two", "three"}], n \in 0..2 :
          IsNullTerminatedUTF8String(window, n) <=>
              \E end \in (n + 1)..5 :
                  window[end] = "nul" /\ WellFormed(SubSeq(window, 1, end - 1))
    /\ \A readable \in SUBSET (0..7), address \in 0..7, end \in 0..7 :
          LET bytes == [a \in readable |-> IF a = end THEN "nul" ELSE "plain"]
          IN  IsValidString(bytes, address, 3, 1, 8) =>
                  end \in (address + 1)..(address + 2) /\ address..end \subseteq readable

(* What is shown as a name or a type ends in memory that can be read.       *)
NamesEnd ==
    \A readable \in SUBSET (1..4), bytes \in [1..4 -> {"letter", "digit", "bad", "nul"}] :
        LET copied == SubSeq(bytes, 1, CopyMaxPossibleMem(readable, 1, 4))
        IN  IsValidName(copied) \/ IsValidIvarType(copied) =>
                \E end \in 2..4 : bytes[end] = "nul" /\ 1..end \subseteq readable

(* The first number with a prefix is found, and read to its end.            *)
AddressFound ==
    \A text \in [1..6 -> {"0", "x", "7", "g"}] :
        LET starts == {i \in PrefixFrom(text, 1) : i < 5 /\ text[i + 2] \in HexDigits}
            digits == ExtractHexValue(text, 2)
        IN  IF starts = {} THEN digits = <<>>
            ELSE \E end \in (Min(starts) + 2)..6 :
                    /\ Range(SubSeq(text, Min(starts) + 2, end)) \subseteq HexDigits
                    /\ end < 6 => text[end + 1] \notin HexDigits
                    /\ digits = SubSeq(text, Max({Min(starts) + 2, end - 1}), end)

(* The characters of a tagged string do not share bits, and there is room   *)
(* for all of them in the pointer.                                          *)
TaggedCharsApart ==
    \A length \in 0..15 :
        LET copied == IF CharBits(length) = 0 THEN 0 ELSE TaggedCopied(length, 200)
        IN  /\ TaggedEnd(length) <= 200
            /\ \A i \in 1..copied : BitsOf(length, i) \subseteq LengthBits..59
            /\ \A i, j \in 1..copied : i # j => BitsOf(length, i) \intersect BitsOf(length, j) = {}

(* What a failed write leaves is a beginning, a write that succeeds leaves  *)
(* it all, and of a file that shrank nothing is returned.                    *)
TransfersTrue ==
    \A answers \in UNION {[1..n -> {Failure, 0, 1, 2}] : n \in 0..4}, size \in 0..3 :
        LET bytes == <<"a", "b", "c">>
            write == WriteBytesToFD(bytes, answers)
            read == ReadEntireFile(3, SubSeq(bytes, 1, size), answers)
        IN  /\ IsPrefix(write.written, bytes)
            /\ (write.result = "done") <=> (write.written = bytes)
            /\ (read.result = "done") => (read.read = bytes /\ size = 3)

(* The text of a UUID fits its buffer of 37 with the hyphens where a reader  *)
(* expects them, and shows every nybble once, in order.                      *)
UUIDShown ==
    LET text == UUIDText([i \in 1..16 |-> i])
    IN  /\ Len(text) < 37
        /\ {i \in DOMAIN text : text[i] = Hyphen} = {9, 14, 19, 24}
        /\ SelectSeq(text, LAMBDA c : c # Hyphen) = FlattenSeq([i \in 1..16 |-> Nybbles(i)])

ToolsRight ==
    /\ CopiesLongest /\ TextIsText /\ NamesEnd /\ AddressFound
    /\ TaggedCharsApart /\ TransfersTrue /\ UUIDShown
=============================================================================
