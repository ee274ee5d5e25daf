----------------------------- MODULE CrashReport -----------------------------
(***************************************************************************)
(* KSCrashReport.c: the report that kscrash_i_onCrash writes of a crash,   *)
(* with the backtraces of KSBacktrace.c, the symbols of KSDynamicLinker.c  *)
(* and the names of KSSignalInfo.c.  The other threads are suspended: the  *)
(* report is one sequence of sections, in which only the memory that is    *)
(* found (Introspection) and the user's own section come from elsewhere.   *)
(*                                                                         *)
(* A section is one element with the containers it is in; the text of the  *)
(* elements is the matter of JSONCodec.                                    *)
(***************************************************************************)
EXTENDS MachineContext

CONSTANTS
    MaxBacktrace,       \* kMaxBacktraceDepth, 150 in the code
    MaxPrinted,         \* kMaxStackTracePrintLines, 40 in the code
    OverflowThreshold,  \* kStackOverflowThreshold, 200 in the code
    GiveUpPoint,        \* kBacktraceGiveUpPoint
    PushedDistance,     \* kStackContentsPushedDistance and kStackNotableSearchBackDistance,
    PoppedDistance,     \* and ...PoppedDistance and ...ForwardDistance: 20 and 10 words
    NameBuffer,         \* bytes for the name of a queue, 128 in the code
    MaxUserCalls        \* bound: calls of the writer by the user's handler

BacktraceAssumption ==
    /\ {MaxBacktrace, MaxPrinted, OverflowThreshold, GiveUpPoint} \subseteq Nat \ {0}
    /\ MaxPrinted < MaxBacktrace /\ MaxBacktrace + 1 < OverflowThreshold
    /\ OverflowThreshold < GiveUpPoint

VARIABLES
    crash,     \* KSCrash_SentryContext, and .fault, what the processor trapped
    threads,   \* what the kernel tells of the threads, in the order it lists them
    images,    \* _dyld_get_image_header and the commands behind it
    config,    \* KSCrash_Configuration
    todo,      \* the sections to come
    open,      \* containers that are open
    file,      \* elements written: the containers they are in, key and value
    console,   \* backtrace printed to the console
    failed,    \* the recorder itself has crashed
    userCalls  \* calls of the user's handler

vars == <<mem, junk, cpu, crash, threads, images, config, todo, open, file, console, failed,
          userCalls>>

None == <<>>
Thread == DOMAIN threads

-----------------------------------------------------------------------------
(* KSBacktrace.c.  A context has the return addresses of the frames that   *)
(* can be reached from its frame pointer.                                  *)
BacktraceLength(ctx) ==
    CASE InstructionAddress(ctx) = 0 -> 0
      [] InstructionAddress(ctx) # 0 /\ ctx.frames = <<>> -> 1
      [] OTHER -> Min({Len(ctx.frames), GiveUpPoint})

IsBacktraceTooLong(ctx, max) ==
    InstructionAddress(ctx) # 0 /\ (ctx.frames = <<>> \/ Len(ctx.frames) >= max)

Registers(ctx, skip) ==
    (IF skip = 0 THEN <<InstructionAddress(ctx)>> ELSE <<>>)
    \o (IF skip <= 1 /\ LinkRegister(ctx) # 0 THEN <<LinkRegister(ctx)>> ELSE <<>>)

\* The walk stops before a return address of zero and before the last frame.
Callers(ctx, from) ==
    LET stop == Min({i \in from..Len(ctx.frames) : ctx.frames[i] = 0} \union {Len(ctx.frames)})
    IN  SubSeq(ctx.frames, from, stop - 1)

BacktraceThreadState(ctx, skip, max) ==
    LET first == Registers(ctx, skip)
    IN  CASE Len(first) >= max -> AtMost(first, max)
          [] Len(first) < max /\ Len(ctx.frames) < Max({skip, 1}) -> <<>>
          [] OTHER -> AtMost(first \o Callers(ctx, Max({skip, 1})), max)

(* KSCrashReport.c: where the state and the backtrace of a thread come from. *)
MachineContext(t) ==
    IF t = crash.offending /\ crash.type = "signal" THEN threads[t]
    ELSE IF t = crash.self \/ ~threads[t].known THEN None
    ELSE threads[t]

\* Mutant: the entries above the buffer are skipped whatever the length.
MutSkipped(ctx, size) == Max({BacktraceLength(ctx) - size, 0})

Skipped(ctx, size) ==
    IF BacktraceLength(ctx) >= OverflowThreshold THEN BacktraceLength(ctx) - size ELSE 0

NoBacktrace == [entries |-> <<>>, skipped |-> 0]

Backtrace(t, size) ==
    LET ctx == MachineContext(t)
    IN  IF t = crash.offending /\ crash.stackTrace # <<>> /\ crash.type \in {"cpp", "ns", "user"}
        THEN [entries |-> crash.stackTrace, skipped |-> 0]
        ELSE IF ctx = None THEN NoBacktrace
        ELSE [entries |-> BacktraceThreadState(ctx, Skipped(ctx, size), size),
              skipped |-> Skipped(ctx, size)]

IsStackOverflow(t) ==
    MachineContext(t) # None /\ IsBacktraceTooLong(MachineContext(t), OverflowThreshold)

-----------------------------------------------------------------------------
(* KSDynamicLinker.c.  An image has a header it can read or not, a slide,  *)
(* the file address of its link editor segment (0 if it has none), segments *)
(* <<from, to>> and symbols, whose value 0 means an external one.  Addresses *)
(* are unsigned: one below the slide is in no segment.                      *)
FirstCmdAfterHeader(image) == image.sound
SegmentBase(image) == IF FirstCmdAfterHeader(image) THEN image.linkEdit ELSE 0

InSegment(image, address) ==
    /\ FirstCmdAfterHeader(image)
    /\ \E s \in image.segments : address - image.slide \in s[1]..(s[2] - 1)

ImageIndexContaining(address) ==
    SelectInSeq(images, LAMBDA image : InSegment(image, address))

\* The address of the nearest symbol at or before address, 0 if there is none.
DlAddr(address) ==
    LET index == ImageIndexContaining(address)
        values == {v \in images[index].symbols : v # 0 /\ v <= address - images[index].slide}
    IN  IF index = 0 THEN 0
        ELSE IF SegmentBase(images[index]) + images[index].slide = 0 \/ values = {} THEN 0
        ELSE Max(values) + images[index].slide

\* Mutant: a return address is looked up as it stands.
MutSymbolicate(trace) == [i \in DOMAIN trace.entries |-> DlAddr(trace.entries[i])]

\* The call is before the address it returns to; only the first entry is no call.
Symbolicate(trace) ==
    [i \in DOMAIN trace.entries |->
        IF i = 1 /\ trace.skipped = 0 THEN DlAddr(trace.entries[i])
        ELSE DlAddr(trace.entries[i] - 1)]

BacktraceSection(trace) == [entries |-> trace.entries, symbols |-> Symbolicate(trace),
                            skipped |-> trace.skipped]

-----------------------------------------------------------------------------
(* KSSignalInfo.c.                                                         *)
SignalForMachException(exception, code) ==
    CASE exception = "EXC_ARITHMETIC" -> "SIGFPE"
      [] exception = "EXC_BAD_ACCESS" ->
             IF code = "KERN_INVALID_ADDRESS" THEN "SIGSEGV" ELSE "SIGBUS"
      [] exception = "EXC_BAD_INSTRUCTION" -> "SIGILL"
      [] exception = "EXC_BREAKPOINT" -> "SIGTRAP"
      [] exception = "EXC_EMULATION" -> "SIGEMT"
      [] exception = "EXC_SOFTWARE" /\ code = "EXC_UNIX_BAD_SYSCALL" -> "SIGSYS"
      [] exception = "EXC_SOFTWARE" /\ code = "EXC_UNIX_BAD_PIPE" -> "SIGPIPE"
      [] exception = "EXC_SOFTWARE" /\ code = "EXC_UNIX_ABORT" -> "SIGABRT"
      [] exception = "EXC_SOFTWARE" /\ code = "EXC_SOFT_SIGNAL" -> "SIGKILL"
      [] OTHER -> "0"

MachExceptionForSignal(signal) ==
    CASE signal = "SIGFPE" -> "EXC_ARITHMETIC"
      [] signal \in {"SIGSEGV", "SIGBUS"} -> "EXC_BAD_ACCESS"
      [] signal = "SIGILL" -> "EXC_BAD_INSTRUCTION"
      [] signal = "SIGTRAP" -> "EXC_BREAKPOINT"
      [] signal = "SIGEMT" -> "EXC_EMULATION"
      [] signal = "SIGSYS" -> "EXC_UNIX_BAD_SYSCALL"
      [] signal = "SIGPIPE" -> "EXC_UNIX_BAD_PIPE"
      [] signal = "SIGABRT" -> "EXC_CRASH"
      [] signal = "SIGKILL" -> "EXC_SOFT_SIGNAL"
      [] OTHER -> "0"

\* The tables of names, of which a number that is not in them gets none.  In
\* that of the signals SIGTERM stands where SIGTRAP belongs, with its codes.
NamedExceptions ==
    {"EXC_BAD_ACCESS", "EXC_BAD_INSTRUCTION", "EXC_ARITHMETIC", "EXC_EMULATION", "EXC_SOFTWARE",
     "EXC_BREAKPOINT", "EXC_SYSCALL", "EXC_MACH_SYSCALL", "EXC_RPC_ALERT", "EXC_CRASH"}

NamedSignals ==
    {"SIGABRT", "SIGBUS", "SIGFPE", "SIGILL", "SIGPIPE", "SIGSEGV", "SIGSYS", "SIGTERM"}

\* Mutant: every access is corrected, and not the overflow of a stack.
MutMachCode(code) ==
    IF code = "KERN_PROTECTION_FAILURE" THEN "KERN_INVALID_ADDRESS" ELSE code

MachCode(code) ==
    IF code = "KERN_PROTECTION_FAILURE" /\ crash.isStackOverflow
    THEN "KERN_INVALID_ADDRESS" ELSE code

-----------------------------------------------------------------------------
(* Sections.  Standard and Minimal are the order of                        *)
(* kscrashreport_writeStandardReport and kscrashreport_writeMinimalReport. *)
Begin(key) == <<"begin", key>>
Close == <<"close">>
If(condition, steps) == IF condition THEN steps ELSE <<>>
ThreadSteps ==
    If(config.listsThreads,
       <<Begin("threads")>> \o [t \in Thread |-> <<"thread", t>>] \o <<Close>>)

UserSection == If(config.onCrashNotify, <<Begin("user_atcrash"), <<"user handler">>, Close>>)
CrashSection == <<Begin("crash")>> \o ThreadSteps \o <<<<"error">>, Close>>

\* Mutant: the handler is called before the crash is described.
MutLastSections(user) == user \o CrashSection

LastSections(user) == CrashSection \o user

Standard ==
    <<Begin("report"), <<"info", "standard">>, <<"images">>, <<"process state">>>>
    \o If(config.systemInfo, <<<<"system">>>>)
    \o <<Begin("system_atcrash"), <<"memory">>, <<"stats">>, Close>>
    \o If(config.userInfo, <<<<"user">>>>)
    \o LastSections(UserSection) \o <<Close, <<"end">>>>

Minimal ==
    <<Begin("report"), <<"info", "minimal">>, Begin("crash"),
      <<"crashed thread">>, <<"error">>, Close, Close, <<"end">>>>

Init ==
    /\ todo = <<<<"log">>, <<"file">>>>
    /\ open = <<>> /\ file = <<>> /\ console = NoBacktrace
    /\ failed = FALSE /\ userCalls = 0

Given == <<mem, junk, cpu, threads, images, config>>
At(step) == todo # <<>> /\ Head(todo) = step
Going == todo' = Tail(todo)
Element(key, value) == Append(file, [at |-> open, key |-> key, value |-> value])

(* kscrashreport_logCrash, when config.printTraceToStdout is set.          *)
LogCrash ==
    /\ At(<<"log">>)
    /\ console' = IF config.printTrace THEN Backtrace(crash.offending, MaxPrinted) ELSE console
    /\ Going
    /\ UNCHANGED <<Given, crash, open, file, failed, userCalls>>

(* kscrw_i_openCrashReportFile refuses a file that is there already; then  *)
(* the overflow of the stack is recorded in the context.                   *)
OpenFile ==
    /\ At(<<"file">>)
    /\ IF config.fileExists THEN todo' = <<>> /\ UNCHANGED crash
       ELSE /\ todo' = IF crash.crashedDuringCrashHandling THEN Minimal ELSE Standard
            /\ crash' = IF IsStackOverflow(crash.offending)
                        THEN [crash EXCEPT !.isStackOverflow = TRUE] ELSE crash
    /\ UNCHANGED <<Given, open, file, console, failed, userCalls>>

BeginContainer ==
    /\ todo # <<>> /\ Head(todo)[1] = "begin"
    /\ file' = Element(Head(todo)[2], None)
    /\ open' = Append(open, Head(todo)[2])
    /\ Going
    /\ UNCHANGED <<Given, crash, console, failed, userCalls>>

EndContainer ==
    /\ At(Close)
    /\ open' = IF open = <<>> THEN open ELSE Front(open)
    /\ Going
    /\ UNCHANGED <<Given, crash, file, console, failed, userCalls>>

Write(step, key, value) ==
    /\ At(step)
    /\ file' = Element(key, value)
    /\ Going
    /\ UNCHANGED <<Given, crash, open, console, failed, userCalls>>

(* Memory may be found that makes the recorder crash: nothing more is      *)
(* written to this file.                                                   *)
WriteFound(step, key, value, fault) ==
    /\ At(step)
    /\ IF fault THEN todo' = <<>> /\ failed' = TRUE /\ UNCHANGED file
       ELSE Going /\ file' = Element(key, value) /\ UNCHANGED failed
    /\ UNCHANGED <<Given, crash, open, console, userCalls>>

WriteReportInfo == \E type \in {"standard", "minimal"} : Write(<<"info", type>>, "report", type)
WriteBinaryImages ==
    Write(<<"images">>, "binary_images", {i \in DOMAIN images : FirstCmdAfterHeader(images[i])})

(* kscrw_i_addJSONElement: a text that the encoder refuses is written as a  *)
(* string, in an object with the error.                                     *)
AddJSONElement(step, key, sound) ==
    /\ At(step)
    /\ file' = IF sound THEN Element(key, None)
               ELSE Element(key, None) \o <<[at |-> Append(open, key), key |-> "refused",
                                            value |-> None]>>
    /\ Going
    /\ UNCHANGED <<Given, crash, open, console, failed, userCalls>>

WriteSystem == AddJSONElement(<<"system">>, "system", config.soundJSON)
WriteMemoryInfo == Write(<<"memory">>, "memory", None)
WriteAppStats == Write(<<"stats">>, "application_stats", None)
WriteUser == AddJSONElement(<<"user">>, "user", config.soundJSON)

Referenced(p) == IF p = Null THEN Writer ELSE WriteMemoryContents(Writer, p)

\* The last NSException that was deallocated, if any, and what its reason refers to.
WriteProcessState ==
    LET written == Referenced(config.lastException)
    IN  WriteFound(<<"process state">>, "process", written.out, written.fault)

(* A thread: its registers, for the crashed one also those of the exception, *)
(* what is on its stack, and the memory that registers and stack refer to.  *)
BasicRegisters(ctx) ==
    [n \in DOMAIN Machine.names |-> <<Machine.names[n], RegisterValue(ctx, n)>>]
ExceptionRegisters(ctx) ==
    [n \in DOMAIN Machine.exceptionNames |->
        <<Machine.exceptionNames[n], ExceptionRegisterValue(ctx, n)>>]

StackContents(ctx) ==
    LET range == Around(StackPointer(ctx), PushedDistance, PoppedDistance)
        low == Min(range)
    IN  IF StackPointer(ctx) = 0 THEN None
        ELSE [sp |-> StackPointer(ctx), low |-> low, high |-> Max(range) + 1,
              contents |-> IF Copied(ctx, range)
                           THEN [i \in 1..Cardinality(range) |-> ctx.stack[low + i - 1]]
                           ELSE None]

\* Mutant: the distances are taken in the direction of the other machines.
MutSearchedStack(ctx) ==
    IF StackPointer(ctx) = 0 THEN {}
    ELSE {a \in Around(StackPointer(ctx), -PushedDistance, -PoppedDistance) : Copied(ctx, {a})}

SearchedStack(ctx) ==
    IF StackPointer(ctx) = 0 THEN {}
    ELSE {a \in Around(StackPointer(ctx), PushedDistance, PoppedDistance) : Copied(ctx, {a})}

Candidates(ctx) ==
    LET addresses == SetToSortSeq(SearchedStack(ctx), <)
    IN  BasicRegisters(ctx)
        \o [i \in DOMAIN addresses |-> <<"stack", addresses[i], ctx.stack[addresses[i]]>>]

NotableAddresses(ctx) ==
    LET candidates == SelectSeq(Candidates(ctx), LAMBDA c : IsNotable(Last(c).pointer))
    IN  [i \in DOMAIN candidates |->
            [at |-> Front(candidates[i]),
             found |-> WriteMemoryContents(Writer, Last(candidates[i]).pointer)]]

(* ksmach_getThreadQueueName: the label of the queue that a thread works   *)
(* for, if there is one and it can be printed.                             *)
QueueName(t) ==
    LET label == threads[t].queue
    IN  IF ~config.queueNames \/ "unprintable" \in Range(label) THEN <<>>
        ELSE AtMost(label, NameBuffer - 1)

Index(t) == IF config.listsThreads THEN t - 1 ELSE -1

WriteThread(step, t, key, withNotable) ==
    LET ctx == MachineContext(t)
        trace == Backtrace(t, MaxBacktrace)
        crashed == t = crash.offending
        notable == IF withNotable /\ crashed /\ ctx # None THEN NotableAddresses(ctx) ELSE <<>>
    IN  WriteFound(step, key,
            [index |-> Index(t), crashed |-> crashed, current |-> t = crash.self,
             backtrace |-> BacktraceSection(trace),
             registers |-> IF ctx = None THEN None ELSE BasicRegisters(ctx),
             exception |-> IF ctx # None /\ crashed THEN ExceptionRegisters(ctx) ELSE None,
             stack |-> IF ctx # None /\ crashed THEN StackContents(ctx) ELSE None,
             queue |-> QueueName(t),
             overflow |-> ctx # None /\ crashed /\ trace.skipped > 0,
             notable |-> notable],
            \E i \in DOMAIN notable : notable[i].found.fault)

WriteThreads == \E t \in Thread : WriteThread(<<"thread", t>>, t, "thread", config.introspection)
WriteCrashedThread == WriteThread(<<"crashed thread">>, crash.offending, "crashed_thread", FALSE)

\* The numbers of exception and signal, each with the name that is written
\* behind it, if any.
Described(exception, signal) ==
    [exception |-> exception, exceptionName |-> {exception} \intersect NamedExceptions,
     signal |-> signal, signalName |-> {signal} \intersect NamedSignals]

ErrorNames ==
    CASE crash.type = "mach" ->
             Described(crash.mach, SignalForMachException(crash.mach, MachCode(crash.code)))
      [] crash.type = "signal" -> Described(MachExceptionForSignal(crash.signal), crash.signal)
      [] crash.type \in {"cpp", "ns", "user"} -> Described("EXC_CRASH", "SIGABRT")
      [] crash.type = "deadlock" -> Described("0", "0")

\* The thread's state may not be had; the address of a signal is the kernel's.
Address ==
    IF crash.type = "mach" /\ threads[crash.offending].known
    THEN FaultAddress(threads[crash.offending], crash.mach) ELSE 0

\* The reason of an NSException may hold the address of an object.
WriteError ==
    LET written == IF crash.type = "ns" THEN Referenced(crash.mentions) ELSE Writer
    IN  WriteFound(<<"error">>, "error", [names |-> ErrorNames, address |-> Address],
                   written.fault)

(* onCrashNotify: the user's handler calls the writer as it likes.         *)
InHandler == At(<<"user handler">>) /\ userCalls < MaxUserCalls /\ userCalls' = userCalls + 1

UserBegin ==
    /\ InHandler
    /\ file' = Element("theirs", None) /\ open' = Append(open, "theirs")
    /\ UNCHANGED <<Given, crash, todo, console, failed>>

UserEnd ==
    /\ InHandler
    /\ open' = IF open = <<>> THEN open ELSE Front(open)
    /\ UNCHANGED <<Given, crash, todo, file, console, failed>>

UserReturns ==
    /\ At(<<"user handler">>)
    /\ Going
    /\ UNCHANGED <<Given, crash, open, file, console, failed, userCalls>>

\* ksjson_endEncode closes what is open.
EndReport ==
    /\ At(<<"end">>)
    /\ open' = <<>> /\ file' = Append(file, [at |-> <<>>, key |-> "closed", value |-> None])
    /\ Going
    /\ UNCHANGED <<Given, crash, console, failed, userCalls>>

Next ==
    \/ LogCrash \/ OpenFile \/ BeginContainer \/ EndContainer
    \/ WriteReportInfo \/ WriteBinaryImages \/ WriteProcessState \/ WriteSystem
    \/ WriteMemoryInfo \/ WriteAppStats \/ WriteUser
    \/ WriteThreads \/ WriteCrashedThread \/ WriteError
    \/ UserBegin \/ UserEnd \/ UserReturns \/ EndReport

Spec == Init /\ [][Next]_vars

-----------------------------------------------------------------------------
Written(key) == {file[i] : i \in {j \in DOMAIN file : file[j].key = key}}
Latest(keys) == {e \in {Last(file) : i \in DOMAIN file} : e.key \in keys}
ThreadWritten == Latest({"thread", "crashed_thread"})
Found == UNION {{e.value.notable[i].found.out : i \in DOMAIN e.value.notable} : e \in ThreadWritten}
         \union {e.value : e \in Latest({"process"})}

(* The classes, strings and stores of a program whose heap is damaged      *)
(* elsewhere.                                                              *)
IntactMemory ==
    /\ \A p \in DOMAIN mem :
        /\ mem[p].ro # Wild =>
              /\ ValidName(mem[p].ro.name)
              /\ mem[p].ro.ivars = Null \/ (mem[p].ro.ivars # Wild /\
                    \A i \in DOMAIN mem[p].ro.ivars : mem[p].ro.ivars[i] # "broken")
        /\ ClassTypeOf(p) \in {"string", "url"} => IsMeta(Isa(p)) \/ Readable(Slot(p, 1))
        /\ StoreSound(p)
        /\ IsMeta(Isa(p)) => HasROData(p)
    /\ Restricted = {}

(* While the classes are intact no pointer makes the recorder crash: one   *)
(* that dangles, that is in a circle, or that leads to memory which is not *)
(* what it was.  Else the report ends in the middle (KSObjC.c:847-899,      *)
(* KSCrashReport.c:979-1068).                                              *)
IntactClassesAreSafe == failed => ~IntactMemory

Nesting(out) ==
    LET depth(i) == Cardinality({j \in 1..i : out[j][1] \in {"object", "ivars"}})
                    - Cardinality({j \in 1..i : out[j][1] = "end"})
    IN  Max({0} \union {depth(i) : i \in DOMAIN out})

(* From one address a report shows few objects, in circles too, although   *)
(* an object may exceed the limit by its own ivars; and their containers   *)
(* are not nested deeper than the limit, far from the 200 that the encoder *)
(* has room for (KSCrashReport.c:73-74, 850, 874, 984).                    *)
IntrospectionBounded ==
    \A out \in Found :
        /\ Cardinality({i \in DOMAIN out : out[i][1] = "object"}) < SearchDepth + MaxIvars
        /\ Nesting(out) <= SearchDepth + 1

Whole(units, text) ==
    text = FlattenSeq([i \in 1..Last(text)[1] |->
               IF units[i] = "tail" THEN <<>> ELSE Bytes(i, Width[units[i]])])

(* A string is shown from its beginning in whole characters, all of it if  *)
(* there is room; except one that ends in half a pair, which is followed   *)
(* by what stands behind it (KSObjC.c:1044-1137).                          *)
StringsAreWhole ==
    \A out \in Found : \A i \in DOMAIN out :
        out[i][1] = "text" /\ Last(out[i][2]) # "lead" =>
            LET text == out[i][3] units == out[i][2]
            IN  /\ Len(text) < StringBuffer
                /\ Whole(units, text)
                /\ Len(text) + 4 < StringBuffer =>
                       Last(text)[1] = Len(units) \/ (units[Len(units)] = "tail"
                                                      /\ Last(text)[1] = Len(units) - 1)

StackOf(ctx) == Registers(ctx, 0) \o Callers(ctx, 1)

(* A backtrace that is written or printed is what the thread's stack holds: *)
(* its innermost entries and all of them if they fit, or, of an overflow,  *)
(* its outermost ones with the number of those left out.  The marks of an  *)
(* overflow agree (KSCrashReport.c:515-531, 542-555, 2093-2101).           *)
Accounts(ctx, trace, size) ==
    IF trace.skipped = 0
    THEN trace.entries = AtMost(StackOf(ctx), size)
    ELSE /\ 0 \notin ToSet(ctx.frames) => Len(trace.entries) = size
         /\ trace.skipped + size = Min({Len(ctx.frames), GiveUpPoint})
         /\ \A i \in DOMAIN trace.entries : trace.entries[i] = ctx.frames[trace.skipped + i - 1]

FromState(t) ==
    /\ MachineContext(t) # None
    /\ crash.type \notin {"cpp", "ns", "user"} \/ t # crash.offending
    /\ threads[t].frames # <<>> /\ InstructionAddress(threads[t]) # 0

TracesAccount ==
    /\ \A e \in ThreadWritten : \A t \in Thread :
        e.value.index = t - 1 /\ FromState(t) =>
            /\ Accounts(threads[t], e.value.backtrace, MaxBacktrace)
            /\ e.value.crashed => e.value.overflow = crash.isStackOverflow
    /\ console # NoBacktrace /\ FromState(crash.offending) =>
            Accounts(threads[crash.offending], console, MaxPrinted)

(* Every caller in a backtrace is named after the function that holds the  *)
(* call, also when the call is its last instruction and the address it     *)
(* returns to belongs to the next function (KSBacktrace.c:241-259).        *)
FunctionAt(address) ==
    UNION {{f[1] + images[i].slide : f \in {g \in images[i].functions :
                address - images[i].slide \in g[1]..(g[2] - 1)}} : i \in DOMAIN images}

CallersNamed ==
    \A e \in ThreadWritten :
        LET trace == e.value.backtrace
        IN  \A i \in DOMAIN trace.entries :
                i > 1 \/ trace.skipped > 0 =>
                    FunctionAt(trace.entries[i] - 1) \subseteq {trace.symbols[i]}

BacktraceTrue == TracesAccount /\ CallersNamed

NearAnEnd(sp) == sp < PoppedDistance \/ sp + PushedDistance >= Space
NearStack(sp) == (sp - PoppedDistance)..(sp + PushedDistance - 1)

Under(name, registers) == {r[2] : r \in {s \in Range(registers) : s[1] = name}}
Shown(e, name) == Under(name, e.value.registers)

ThreadShown ==
    \A e \in ThreadWritten : \A t \in Thread :
        e.value.index = t - 1 /\ MachineContext(t) # None =>
            LET ctx == threads[t] stack == e.value.stack
            IN  /\ \A name \in DOMAIN ctx.fields \intersect Range(Machine.names) :
                       Shown(e, name) = {ctx.fields[name]}
                /\ FromState(t) /\ e.value.backtrace.skipped = 0 =>
                       {w.number : w \in Shown(e, Machine.instruction)}
                           = {e.value.backtrace.entries[1]}
                /\ stack # None /\ ~NearAnEnd(stack.sp) =>
                       /\ stack.low..(stack.high - 1) = NearStack(stack.sp)
                       /\ Copied(ctx, NearStack(stack.sp)) <=> stack.contents # None
                /\ \A i \in DOMAIN e.value.notable :
                       LET at == e.value.notable[i].at
                       IN  at[1] = "stack" /\ ~NearAnEnd(stack.sp) =>
                               at[2] \in NearStack(stack.sp)

FaultShown ==
    \A e \in Latest({"error"}), t \in {s.value : s \in Written("thread")} :
        crash.type = "mach" /\ t.crashed /\ t.registers # None =>
            e.value.address \in
                {w.number : w \in IF crash.mach = "EXC_BAD_ACCESS"
                                  THEN Under(Machine.fault, t.exception)
                                  ELSE Under(Machine.instruction, t.registers)}

(* The parts of a thread that are read in different ways agree: the        *)
(* registers, by number and by field, with the backtrace that starts with  *)
(* one of them, and with the address of the fault; the words shown of the  *)
(* stack with those whose objects are shown.  What is searched is near the *)
(* stack pointer, except when that is near an end of the address space     *)
(* (KSCrashReport.c:1231-1311, KSCrashSentry_MachException.c:288-299).     *)
MachineShown == ThreadShown /\ FaultShown

(* Whatever the user's handler leaves open or closes too often, every      *)
(* section of the recorder's own is where a reader looks for it, and the   *)
(* file is closed (KSCrashReport.c:2229-2240).                             *)
SectionsInPlace ==
    Written("closed") # {} =>
        /\ open = <<>>
        /\ \A i \in DOMAIN file :
            LET key == file[i].key
            IN  /\ key \in {"crash", "binary_images", "process", "system", "system_atcrash",
                            "user", "user_atcrash"} => file[i].at = <<"report">>
                /\ key \in {"threads", "error", "crashed_thread"} =>
                       file[i].at = <<"report", "crash">>
                /\ key = "thread" => file[i].at = <<"report", "crash", "threads">>
        /\ ~crash.crashedDuringCrashHandling /\ config.listsThreads =>
               {e.value.index : e \in Written("thread")} = {t - 1 : t \in Thread}

(* One fault has one description: the exception and the signal of an error  *)
(* do not depend on which sentry caught it (KSSignalInfo.c:166-231), and    *)
(* both are written with their own names, but for SIGTRAP and SIGEMT, which *)
(* get none (KSSignalInfo.c:100-137).  An overflow of the stack is the      *)
(* exception, the kernel's signal is kept.                                  *)
FaultNamed ==
    \A e \in Latest({"error"}) :
        crash.fault # None /\ ~crash.isStackOverflow =>
            e.value.names = [exception |-> crash.fault[1], exceptionName |-> {crash.fault[1]},
                             signal |-> crash.fault[2],
                             signalName |-> {crash.fault[2]} \ {"SIGTRAP", "SIGEMT"}]
=============================================================================
