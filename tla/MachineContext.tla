--------------------------- MODULE MachineContext ---------------------------
(***************************************************************************)
(* What the recorder reads of the registers of a stopped thread.  There is *)
(* a source file for each processor, KSMach_Arm.c, KSMach_Arm64.c,         *)
(* KSMach_x86_32.c and KSMach_x86_64.c, and the compiler takes one.        *)
(*                                                                         *)
(* A machine lists its registers: the names a report gives them and the    *)
(* fields of the thread state that are read for them.  A context has these *)
(* fields, those of the exception state, and the memory of the stack; what *)
(* is not listed holds nothing.  Addresses on a stack count words.         *)
(***************************************************************************)
EXTENDS Introspection

CONSTANT Space   \* words of the address space

VARIABLE cpu     \* the processor the recorder was compiled for

Numbered(prefix, first, last) ==
    [i \in 1..(last - first + 1) |-> prefix \o ToString(first + i - 1)]

\* Both kinds of ARM keep the return address of a leaf function in a register.
Arm ==
    [names |-> Numbered("r", 0, 11) \o <<"ip", "sp", "lr", "pc", "cpsr">>,
     fields |-> Numbered("r", 0, 12) \o <<"sp", "lr", "pc", "cpsr">>,
     exceptionNames |-> <<"exception", "fsr", "far">>,
     frame |-> "r7", stack |-> "sp", instruction |-> "pc", link |-> "lr", fault |-> "far"]

\* There are 29 numbered fields: what is read for x29 is the field behind them.
Arm64 ==
    [names |-> Numbered("x", 0, 29) \o <<"fp", "lr", "sp", "pc", "cpsr">>,
     fields |-> Numbered("x", 0, 28) \o <<"fp", "fp", "lr", "sp", "pc", "cpsr">>,
     exceptionNames |-> <<"exception", "esr", "far">>,
     frame |-> "fp", stack |-> "sp", instruction |-> "pc", link |-> "lr", fault |-> "far"]

IA32Registers ==
    <<"eax", "ebx", "ecx", "edx", "edi", "esi", "ebp", "esp", "ss", "eflags", "eip",
      "cs", "ds", "es", "fs", "gs">>

X86_32 ==
    [names |-> IA32Registers, fields |-> IA32Registers,
     exceptionNames |-> <<"trapno", "err", "faultvaddr">>,
     frame |-> "ebp", stack |-> "esp", instruction |-> "eip", link |-> "none",
     fault |-> "faultvaddr"]

AMD64Registers ==
    <<"rax", "rbx", "rcx", "rdx", "rdi", "rsi", "rbp", "rsp">> \o Numbered("r", 8, 15)
    \o <<"rip", "rflags", "cs", "fs", "gs">>

X86_64 ==
    [names |-> AMD64Registers, fields |-> AMD64Registers,
     exceptionNames |-> <<"trapno", "err", "faultvaddr">>,
     frame |-> "rbp", stack |-> "rsp", instruction |-> "rip", link |-> "none",
     fault |-> "faultvaddr"]

Machine ==
    CASE cpu = "arm" -> Arm [] cpu = "arm64" -> Arm64
      [] cpu = "x86_32" -> X86_32 [] cpu = "x86_64" -> X86_64

(* A word is a number to one reader and a pointer into the memory that     *)
(* Introspection looks at to another.                                      *)
Word(number, pointer) == [number |-> number, pointer |-> pointer]
Zero == Word(0, Null)

Field(ctx, name) == IF name \in DOMAIN ctx.fields THEN ctx.fields[name] ELSE Zero

StackPointer(ctx) == Field(ctx, Machine.stack).number
InstructionAddress(ctx) == Field(ctx, Machine.instruction).number
LinkRegister(ctx) == IF Machine.link = "none" THEN 0 ELSE Field(ctx, Machine.link).number

\* Mutant: a register is read one field further on.
MutRegisterValue(ctx, n) == Field(ctx, Machine.fields[Min({n + 1, Len(Machine.fields)})])

RegisterValue(ctx, n) == Field(ctx, Machine.fields[n])
ExceptionRegisterValue(ctx, n) == Field(ctx, Machine.exceptionNames[n])

\* What the handler of exceptions notes as the address of a fault.
FaultAddress(ctx, exception) ==
    IF exception = "EXC_BAD_ACCESS" THEN Field(ctx, Machine.fault).number
    ELSE InstructionAddress(ctx)

\* Every stack grows towards lower addresses.
Around(sp, pushed, popped) ==
    LET ends == {(sp + pushed) % Space, (sp - popped) % Space}
    IN  Min(ends)..(Max(ends) - 1)

\* ksmach_copyMem copies a range whole or not at all.
Copied(ctx, range) == range \subseteq DOMAIN ctx.stack
=============================================================================
