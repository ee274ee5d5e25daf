----------------------------- MODULE MCRecorder -----------------------------
(* What the recorder leaves on disk: the report, the encoder that writes it  *)
(* and the state file, each on its own.  The report is written of one of     *)
(* six families of crashes, each of which varies one thing: where pointers   *)
(* lead, what damaged memory holds, the characters of a string, the stacks   *)
(* and the images, the processor with what is on its stack, the kind of      *)
(* crash with the configuration.  The state file is carried through three    *)
(* launches with a crash or a user report in each.  What reads memory and    *)
(* files for them is looked at once, over all its small inputs.              *)
EXTENDS CrashState, Integers, SequencesExt, TLC

CONSTANTS Null, Wild, TaggedSlot, Restricted, Zombies, MaxHops, MaxIvars, SearchDepth,
    StringBuffer, MaxBacktrace, MaxPrinted, OverflowThreshold, GiveUpPoint, MaxUserCalls,
    PushedDistance, PoppedDistance, Space, NameBuffer

VARIABLES part,   \* "report", "encoder", "state" or "tools"
    level, isObject, first, pretty, text, sinkOk, inString, called, done,
    events, refused, buffered,
    mem, junk, cpu, crash, threads, images, config, todo, open, reportFile, console, failed,
    userCalls

Codec == INSTANCE JSONCodec WITH
    out <- text,
    Names <- {<<"k">>},
    Strings <- {<<>>, <<"\"", "\n", "\\">>, <<"a", "a", "ctl">>},
    Whole <- {<<"-", "8">>}, Double <- {"a third", "NaN"},
    Raw <- {<<"[", "1", "]">>, <<"x">>},
    WorkBufferSize <- 4, MaxInteger <- 7, MaxCalls <- 4, MaxLevel <- 3

Report == INSTANCE CrashReport WITH file <- reportFile
Tools == INSTANCE RecorderTools

codecVars == <<level, isObject, first, pretty, text, sinkOk, inString, called, done,
               events, refused, buffered>>

reportVars == <<mem, junk, cpu, crash, threads, images, config, todo, open, reportFile,
                console, failed, userCalls>>

ASSUME Codec!BufferAssumption /\ Report!BacktraceAssumption /\ BoundsAssumption

-----------------------------------------------------------------------------
(* Memory.  A class stands at its name, with its metaclass.                  *)
Nothing == [isa |-> Wild, super |-> Wild, ro |-> Wild, text |-> FALSE, slots |-> <<>>,
            units |-> <<>>]

Super == "NSObject" :> Null @@ "Thing" :> "NSObject" @@ "__NSCFString" :> "NSObject"
         @@ "__NSArrayI" :> "NSObject" @@ "__NSArrayM" :> "NSObject"
         @@ "__NSCFArray" :> "NSObject" @@ "NSNumber" :> "NSObject" @@ "NSBlock" :> "NSObject"
         @@ "__NSStackBlock__" :> "NSBlock"
Meta(c) == c \o "Meta"

Class(c, ivars) ==
    [Nothing EXCEPT !.isa = Meta(c), !.super = Super[c],
        !.ro = [name |-> c, root |-> c = "NSObject", meta |-> FALSE, ivars |-> ivars]]

MetaClass(c) ==
    [Nothing EXCEPT !.isa = Meta("NSObject"),
        !.super = IF c = "NSObject" THEN c ELSE Meta(Super[c]),
        !.ro = [name |-> c, root |-> c = "NSObject", meta |-> TRUE, ivars |-> Null]]

ThingIvars == <<"pointer", "value", "pointer">>

Classes(ivars) ==
    [c \in DOMAIN Super |-> Class(c, IF c = "Thing" THEN ivars ELSE Null)]
    @@ [c \in {Meta(d) : d \in DOMAIN Super} |->
            MetaClass(CHOOSE d \in DOMAIN Super : Meta(d) = c)]

Object(class, slots) == [Nothing EXCEPT !.isa = class, !.slots = slots]
Chars(units) == [Nothing EXCEPT !.text = TRUE, !.units = units]

Heap(a, b, units) ==
    "a" :> a @@ "b" :> b @@ "s" :> Object("__NSCFString", <<"chars">>)
    @@ "list" :> Object("__NSArrayI", <<"a">>) @@ "block" :> Object("__NSStackBlock__", <<>>)
    @@ "chars" :> Chars(units)

MCTaggedSlot == "tag" :> 2 @@ "date" :> 6 @@ "bad tag" :> 7
Thing(x, y) == Object("Thing", <<x, "b", y>>)
Targets == {Null, Wild, "a", "b", "s", "list"}
Plain == Heap(Thing("b", "s"), Thing("a", Null), <<"1", "2">>)

(* Stacks and images.                                                        *)
Fields(pc, lr, pointers) ==
    "pc" :> Report!Word(pc, Null) @@ "lr" :> Report!Word(lr, Null)
    @@ [r \in {"r" \o ToString(i) : i \in DOMAIN pointers} |->
            Report!Word(0, pointers[CHOOSE i \in DOMAIN pointers : r = "r" \o ToString(i)])]

Ctx(pc, lr, frames, pointers) ==
    [known |-> TRUE, fields |-> Fields(pc, lr, pointers), frames |-> frames, stack |-> <<>>,
     queue |-> <<"l", "a", "b", "e", "l">>]
Image(slide, segments, functions) ==
    [sound |-> TRUE, slide |-> slide, linkEdit |-> 1, segments |-> segments, functions |-> functions,
     symbols |-> {0} \union {f[1] : f \in functions}]

TheImages ==
    <<[Image(0, {}, {}) EXCEPT !.sound = FALSE],
      [Image(0, {<<39, 41>>}, {}) EXCEPT !.linkEdit = 0],
      Image(10, {<<1, 9>>}, {<<1, 4>>, <<4, 7>>, <<7, 9>>}),
      Image(20, {<<1, 2>>, <<2, 3>>}, {<<1, 3>>})>>

\* In, at the end of and behind the functions, and outside of all of them.
Addresses == <<12, 14, 17, 19, 22, 40>>
Stack(n, turn, zero) ==
    [i \in 1..n |-> IF i = zero THEN 0 ELSE Addresses[((i + turn) % Len(Addresses)) + 1]]

Resting == Ctx(14, 0, <<12>>, <<>>)
Ordinary(pointers) == <<Ctx(12, 0, <<14, 17>>, pointers), Resting>>

(* Crashes.  On the route of signals the crashed thread writes the report.   *)
Fault(mach, code, signal) == [mach |-> mach, code |-> code, signal |-> signal]
Faults ==
    {Fault("EXC_BAD_ACCESS", "KERN_INVALID_ADDRESS", "SIGSEGV"),
     Fault("EXC_BAD_ACCESS", "KERN_PROTECTION_FAILURE", "SIGBUS"),
     Fault("EXC_BAD_INSTRUCTION", "1", "SIGILL"), Fault("EXC_ARITHMETIC", "1", "SIGFPE"),
     Fault("EXC_BREAKPOINT", "1", "SIGTRAP"), Fault("EXC_EMULATION", "1", "SIGEMT")}

Raised(type, self, f) ==
    [type |-> type, offending |-> 1, self |-> self, stackTrace |-> <<>>, mach |-> f.mach,
     code |-> f.code, signal |-> f.signal, mentions |-> Null,
     fault |-> <<f.mach, f.signal>>, isStackOverflow |-> FALSE,
     crashedDuringCrashHandling |-> FALSE]

Trapped == {Raised("mach", 2, f) : f \in Faults} \union {Raised("signal", 1, f) : f \in Faults}
Software == {[Raised(type, 1, Fault("0", "0", "0")) EXCEPT !.fault = <<>>, !.stackTrace = trace,
                  !.mentions = p] :
                 type \in {"ns", "cpp", "user"}, trace \in {<<>>, <<17, 19>>}, p \in {Null, "a"}}
            \union {[Raised("deadlock", 2, Fault("0", "0", "0")) EXCEPT !.fault = <<>>]}

Access == Raised("mach", 2, Fault("EXC_BAD_ACCESS", "KERN_PROTECTION_FAILURE", "SIGBUS"))

Usual == [printTrace |-> TRUE, fileExists |-> FALSE, systemInfo |-> TRUE, userInfo |-> FALSE,
          onCrashNotify |-> FALSE, introspection |-> TRUE, listsThreads |-> TRUE,
          queueNames |-> FALSE, soundJSON |-> TRUE, lastException |-> Null]
Configs == {[printTrace |-> TRUE, fileExists |-> exists, systemInfo |-> system,
             userInfo |-> ~system, onCrashNotify |-> notify, introspection |-> FALSE,
             listsThreads |-> lists, queueNames |-> lists, soundJSON |-> ~lists,
             lastException |-> last] :
                exists, system, notify, lists \in BOOLEAN, last \in {Null, "s"}}

Situation(machine, heap, ivars, trapped, stacks, configured) ==
    /\ cpu = machine /\ mem = heap @@ Classes(ivars)
    /\ crash = trapped /\ threads = stacks /\ config = configured /\ images = TheImages

Pointers ==
    \E x \in Targets \union {"tag"}, y, z \in Targets, u \in {Null, "a", "s"} :
        /\ junk = Null
        /\ Situation("arm", Heap(Thing(x, y), Thing(z, u), <<"1">>), ThingIvars, Access,
                 Ordinary(<<"a", "list">>), Usual)

Damaged ==
    \E isa \in {Null, Wild, "Thing", "b", "chars", "NSObject", "ThingMeta", "NSNumber",
                 "__NSArrayM", "__NSCFArray"},
       slots \in {<<>>, <<"b">>, <<Wild>>, <<"b", Wild, "s">>},
       ivars \in {ThingIvars, Null, Wild, <<"pointer", "broken">>, <<"broken">>, <<"other">>},
       p \in {Null, Wild, "a", "block", "Thing", "chars", "tag", "date", "bad tag"} :
        /\ junk \in {Null, Wild, "s"}
        /\ p = "a" \/ (slots = <<>> /\ junk = Null)   \* the others do not lead to a
        /\ Situation("arm", Heap(Object(isa, slots), Thing("a", "a"), <<"1">>), ivars, Access,
                 Ordinary(<<p>>), Usual)

Strings ==
    \E n \in 1..4 : \E units \in [1..n -> {"1", "2", "3", "lead", "tail"}] :
        /\ junk = Null
        /\ Situation("arm", Heap(Thing("b", "s"), Thing("a", Null), units), ThingIvars, Access,
                 Ordinary(<<"s">>), Usual)

OnItsStack == Raised("signal", 1, Fault("EXC_BAD_ACCESS", "KERN_PROTECTION_FAILURE", "SIGBUS"))

Stacks ==
    \E n \in 0..8, pc \in {0, 14}, lr \in {0, 14}, known \in BOOLEAN,
       trapped \in {Access, OnItsStack, [OnItsStack EXCEPT !.crashedDuringCrashHandling = TRUE]} :
    \E turn \in 0..5, zero \in 0..n :
        /\ turn = 0 \/ zero = 0
        /\ known \/ (turn = 0 /\ zero = 0)
        /\ junk = Null
        /\ Situation("arm", Plain, ThingIvars, trapped,
                     <<Ctx(pc, lr, Stack(n, turn, zero), <<>>), [Resting EXCEPT !.known = known]>>,
                     Usual)

(* Every register holds another number.  Of the stack the first word is     *)
(* never readable, a hole or what is behind top may not be either; the word *)
(* at a place of it refers to an object.                                    *)
MachineNamed ==
    "arm" :> Report!Arm @@ "arm64" :> Report!Arm64 @@ "x86_32" :> Report!X86_32
    @@ "x86_64" :> Report!X86_64

Holding(machine, sp, hole, top, place) ==
    LET names == MachineNamed[machine].fields \o MachineNamed[machine].exceptionNames
    IN  [known |-> TRUE, frames |-> <<14>>, queue |-> <<"unprintable">>,
         fields |-> [f \in Range(names) |->
                        IF f = MachineNamed[machine].stack THEN Report!Word(sp, Null)
                        ELSE Report!Word(100 + SelectInSeq(names, LAMBDA n : n = f), Null)],
         stack |-> [a \in (1..top) \ {hole} |->
                       Report!Word(a, IF a = place THEN "s" ELSE Null)]]

Processors ==
    \E machine \in DOMAIN MachineNamed, sp \in 0..(Space - 1), hole \in {0, 6},
       top \in {10, Space - 1}, place \in {2, 5, 8, Space - 1}, f \in Faults :
        /\ machine = "x86_32" \/ (hole = 0 /\ top = 10 /\ place = 5)
        /\ f.code = "KERN_PROTECTION_FAILURE" \/ sp = 5
        /\ junk = Null
        /\ Situation(machine, Plain, ThingIvars, Raised("mach", 2, f),
                     <<Holding(machine, sp, hole, top, place), Resting>>, Usual)

Configured ==
    \E trapped \in Trapped \union Software, during \in BOOLEAN, configured \in Configs :
        /\ junk = Null
        /\ Situation("arm", Plain, ThingIvars, [trapped EXCEPT !.crashedDuringCrashHandling = during],
                 Ordinary(<<>>), configured)

-----------------------------------------------------------------------------
EncoderRests ==
    /\ level = 0 /\ isObject = <<>> /\ first = TRUE /\ pretty = FALSE /\ text = <<>>
    /\ sinkOk = TRUE /\ inString = FALSE /\ called = 0 /\ done = TRUE /\ events = <<>>
    /\ refused = FALSE /\ buffered = 0

ReportRests ==
    /\ junk = Null /\ mem = <<>> /\ cpu = "arm" /\ crash = <<>> /\ threads = <<>> /\ config = <<>>
    /\ images = <<>>

MCInit ==
    /\ Init /\ Report!Init
    /\ \/ part = "report" /\ EncoderRests
          /\ (Pointers \/ Damaged \/ Strings \/ Stacks \/ Processors \/ Configured)
       \/ part = "encoder" /\ Codec!Init /\ ReportRests
       \/ part \in {"state", "tools"} /\ EncoderRests /\ ReportRests

MCNext ==
    \/ part = "report" /\ Report!Next /\ UNCHANGED <<part, codecVars, vars>>
    \/ part = "encoder" /\ Codec!Next /\ UNCHANGED <<part, reportVars, vars>>
    \/ part = "state" /\ Next /\ UNCHANGED <<part, reportVars, codecVars>>

MCSpec == MCInit /\ [][MCNext]_<<part, reportVars, codecVars, vars>>

\* What the encoder wrote is read back as what was given, a text that was cut is
\* not taken for a whole one, and escapes are read as UTF-16 (JSONCodec).
WrittenIsRead ==
    part = "encoder" =>
        /\ Codec!RoundTrip /\ Codec!CutIsNoticed
        /\ called = 0 /\ ~pretty => Codec!EscapesRead
\* No pointer makes the recorder crash while the classes are intact (CrashReport).
IntactClassesAreSafe == Report!IntactClassesAreSafe
\* What is shown of memory from one address is limited, strings are shown in
\* whole characters (CrashReport), and the readers below keep to what can be
\* read (RecorderTools).
MemoryShownInBounds ==
    /\ Report!IntrospectionBounded /\ Report!StringsAreWhole
    /\ part = "tools" => Tools!ToolsRight
\* A backtrace is what the stack holds, and a caller is named after the function
\* that holds the call (CrashReport).
BacktraceTrue == Report!BacktraceTrue
\* The parts of a thread that are read in different ways agree (CrashReport).
MachineShown == Report!MachineShown
\* The recorder's sections are where a reader looks for them (CrashReport).
SectionsInPlace == Report!SectionsInPlace
\* One fault has one description, with names where there are any (CrashReport).
FaultNamed == Report!FaultNamed
=============================================================================
