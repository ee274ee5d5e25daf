---------------------------- MODULE Introspection ----------------------------
(***************************************************************************)
(* What a report says of the memory that a register or a word of the stack *)
(* points to: ksobjc_objectType and its companions (KSObjC.c) and the      *)
(* kscrw_i_write...Contents of KSCrashReport.c.  The program has crashed:   *)
(* a pointer may dangle, memory may hold anything, and objects may refer   *)
(* to each other in circles.                                               *)
(*                                                                         *)
(* mem gives, for every address that can be read, what stands there when   *)
(* it is taken for an object (isa, slots), for a class (super, ro: what    *)
(* class_rw_t and class_ro_t say) and for characters (text, units).        *)
(***************************************************************************)
EXTENDS Integers, FiniteSets, SequencesExt, TLC

CONSTANTS
    Null, Wild,       \* the null pointer; a pointer to memory nobody can read
    TaggedSlot,       \* tagged pointers, with their slot of the table of classes
    Restricted,       \* restrictedClasses
    Zombies,          \* pointers whose class kszombie_className knows
    MaxHops,          \* classes ksobjc_baseClass looks at, 20 in the code
    MaxIvars,         \* ivars shown of an object, 10 in the code
    SearchDepth,      \* kDefaultMemorySearchDepth, 15 in the code
    StringBuffer      \* bytes of the buffer for a string, 200 in the code

VARIABLES mem,
          junk        \* what the variable pointer holds before it is assigned

AtMost(s, n) == SubSeq(s, 1, Min({n, Len(s)}))

Tagged(p) == p \in DOMAIN TaggedSlot
Readable(p) == p \in DOMAIN mem
Isa(p) == IF Readable(p) THEN mem[p].isa ELSE Wild
RO(class) == IF Readable(class) THEN mem[class].ro ELSE Wild
HasROData(class) == RO(class) # Wild
Name(class) == IF HasROData(class) THEN RO(class).name ELSE Wild
Ivars(class) == IF HasROData(class) THEN RO(class).ivars ELSE Wild
SuperClass(class) == IF Readable(class) THEN mem[class].super ELSE Wild
IsRoot(class) == HasROData(class) /\ RO(class).root
IsMeta(class) == HasROData(class) /\ RO(class).meta
ValidName(name) == name \notin {Null, Wild, "unprintable"}

(* An ivar is "pointer", "value", "other" or "broken"; the check of a list *)
(* skips its first entry.                                                  *)
ValidIvars(class) ==
    LET ivars == Ivars(class)
    IN  \/ ivars = Null
        \/ ivars # Wild /\ \A i \in 2..Len(ivars) : ivars[i] # "broken"

RECURSIVE BaseFrom(_, _, _)
BaseFrom(class, below, hops) ==
    IF hops = 0 THEN Null
    ELSE IF IsRoot(class) THEN below
    ELSE IF HasROData(SuperClass(class)) THEN BaseFrom(SuperClass(class), class, hops - 1)
    ELSE Null

BaseClass(class) == BaseFrom(class, class, MaxHops)
BaseName(class) == IF BaseClass(class) = Null THEN Null ELSE Name(BaseClass(class))

(* The tests of ksobjc_objectType in their order.  What a test reads       *)
(* without asking the kernel can be read if sound; the type is found when  *)
(* go does not hold.                                                       *)
Test(sound, go, type) == [sound |-> sound, go |-> go, type |-> type]

ClassTests(isa) ==
    <<Test(HasROData(isa), ValidName(Name(isa)), "unknown"),
      Test(BaseName(isa) # Wild, BaseName(isa) # "NSBlock", "block"),
      Test(HasROData(isa), IsMeta(isa), "object"),
      Test(HasROData(isa), ValidIvars(isa), "unknown"),
      Test(HasROData(isa), ValidName(Name(isa)), "unknown"),
      Test(TRUE, FALSE, "class")>>

PointerTests(p) ==
    <<Test(TRUE, Readable(p), "unknown"), Test(Readable(p), Readable(Isa(p)), "unknown")>>

\* Mutant: the data of the class are not asked for.
MutTests(p) == PointerTests(p) \o ClassTests(Isa(p))

Tests(p) ==
    PointerTests(p) \o <<Test(Readable(p), HasROData(Isa(p)), "unknown")>> \o ClassTests(Isa(p))

ObjectType(p) ==
    LET tests == Tests(p)
        stop == SelectInSeq(tests, LAMBDA t : ~(t.sound /\ t.go))
    IN  CASE p = Null -> "unknown"
          [] Tagged(p) -> "object"
          [] OTHER -> IF tests[stop].sound THEN tests[stop].type ELSE "fault"

\* g_classData, in which the arrays have a subtype.
ClassTypeNamed(name) ==
    CASE name \in {"__NSCFString", "NSCFString", "__NSCFConstantString", "NSCFConstantString"}
              -> "string"
      [] name \in {"__NSArray0", "__NSArrayI"} -> "array"
      [] name = "__NSArrayM" -> "mutable array"
      [] name \in {"__NSCFArray", "NSCFArray"} -> "stored array"
      [] name \in {"__NSDate", "NSDate"} -> "date"
      [] name \in {"__NSCFNumber", "NSCFNumber", "NSNumber"} -> "number"
      [] name = "NSURL" -> "url"
      [] OTHER -> "unknown"

\* g_taggedClassData, whose slots are counted from 0; two of them have no name.
Slotted(name, type) == [name |-> name, type |-> type]
TaggedClassData ==
    <<Slotted("NSAtom", "unknown"), Slotted(Null, "unknown"), Slotted("NSString", "string"),
      Slotted("NSNumber", "number"), Slotted("NSIndexPath", "unknown"),
      Slotted("NSManagedObjectID", "unknown"), Slotted("NSDate", "date"),
      Slotted(Null, "unknown")>>
ClassDataOf(p) == TaggedClassData[TaggedSlot[p] + 1]

ClassTypeOf(p) == IF Tagged(p) THEN ClassDataOf(p).type ELSE ClassTypeNamed(Name(Isa(p)))
ValidTagged(p) == ClassDataOf(p).type # "unknown"

\* Null for a tagged pointer of a class whose values cannot be told.
ObjectClassName(p) ==
    CASE ~Tagged(p) -> Name(Isa(p))
      [] Tagged(p) /\ ValidTagged(p) -> ClassDataOf(p).name
      [] OTHER -> Null

-----------------------------------------------------------------------------
(* Characters of an NSString, in UTF-16: the units are the code points by  *)
(* the bytes they take in UTF-8 ("1", "2", "3") and the halves of a pair.  *)
(* at is the unit to be read, remaining an unsigned number; a byte of the  *)
(* result is the unit it comes from and its number.                        *)
Width == ("1" :> 1) @@ ("2" :> 2) @@ ("3" :> 3) @@ ("lead" :> 4)
Unit(units, i) == IF i <= Len(units) THEN units[i] ELSE "1"
Bytes(i, n) == [k \in 1..n |-> <<i, k>>]

RECURSIVE Convert(_, _, _, _)
Convert(units, at, remaining, out) ==
    LET unit == Unit(units, at)
        room == StringBuffer - 1 - Len(out)
        wide == unit = "lead"
    IN  IF remaining = 0 \/ room <= 0 THEN out
        ELSE IF unit = "tail" \/ (wide /\ Unit(units, at + 1) # "tail") THEN <<>>
        ELSE IF Width[unit] > 1 /\ room < Width[unit] THEN out
        ELSE Convert(units, at + (IF wide THEN 2 ELSE 1),
                     remaining - (IF wide THEN 2 ELSE 1), out \o Bytes(at, Width[unit]))

\* Mutant: a wide character is written as soon as there is any room.
MutCopyString(units) ==
    LET chars == Convert(units, 1, Len(units), <<>>)
    IN  IF chars # <<>> /\ Len(chars) < StringBuffer - 1 /\ Last(chars)[1] < Len(units)
        THEN Append(chars, <<Last(chars)[1] + 1, 1>>) ELSE chars

CopyString(units) == Convert(units, 1, Len(units), <<>>)

-----------------------------------------------------------------------------
(* A writer: what has been written, the limit all calls share, and whether *)
(* memory was read that cannot be.                                         *)
Writer == [out |-> <<>>, limit |-> SearchDepth, fault |-> FALSE]
Put(w, what) == [w EXCEPT !.out = Append(@, what)]
End(w) == Put(w, <<"end">>)
Unless(w, sound) == [w EXCEPT !.fault = @ \/ ~sound]

Slot(p, i) == IF i <= Len(mem[p].slots) THEN mem[p].slots[i] ELSE Wild
Contents(p) == IF Tagged(p) THEN <<"1">> ELSE mem[Slot(p, 1)].units

\* A URL is read as if it were a string.
WriteString(w, p) ==
    IF ~Tagged(p) /\ ~Readable(Slot(p, 1)) THEN Unless(w, FALSE)
    ELSE LET text == CopyString(Contents(p))
         IN  IF text = <<>> THEN w ELSE Put(w, <<"text", Contents(p), text>>)

Listed(class) ==
    IF Ivars(class) = Null THEN <<>> ELSE AtMost(Ivars(class), MaxIvars)

ValidString(p) == Readable(p) /\ mem[p].text
IsRestricted(p) == ObjectClassName(p) \in Restricted

(* What is shown of a date or a number: what the pointer itself holds if it *)
(* is tagged, what it points to if not.                                     *)
ValueOf(p) == IF Tagged(p) /\ ValidTagged(p) THEN <<"payload", p>> ELSE <<"stored", p>>
WriteValue(w, p) == Put(w, <<"value", ValueOf(p)>>)

(* The entries of an array follow its count, or are in a store, which is    *)
(* read without asking; those of a mutable one are not looked for.  A slot  *)
(* is there if the count says so and the entry can be copied.               *)
StoreSound(p) ==
    ClassTypeOf(p) = "stored array" /\ mem[p].slots # <<>> => Readable(Slot(p, 1))

OwnEntries(p) == IF ClassTypeOf(p) = "mutable array" THEN <<>> ELSE mem[p].slots
StoredEntries(p) ==
    IF mem[p].slots # <<>> /\ StoreSound(p) THEN mem[Slot(p, 1)].slots ELSE <<>>

FirstEntry(p) ==
    AtMost(IF ClassTypeOf(p) = "stored array" THEN StoredEntries(p) ELSE OwnEntries(p), 1)

RECURSIVE WriteMemoryContents(_, _), WriteUnknown(_, _), WriteIvars(_, _, _, _)

WriteArray(w, p) ==
    IF FirstEntry(p) = <<>> THEN Unless(w, StoreSound(p))
    ELSE WriteMemoryContents(w, FirstEntry(p)[1])

\* The ivars from the i-th on; one that cannot be copied leaves pointer as it is.
WriteIvars(w, p, i, pointer) ==
    LET ivars == Listed(Isa(p))
        got == IF i <= Len(mem[p].slots) THEN mem[p].slots[i] ELSE pointer
    IN  IF i > Len(ivars) THEN w
        ELSE CASE ivars[i] = "value" -> WriteIvars(Put(w, <<"value">>), p, i + 1, pointer)
               [] ivars[i] = "other" -> WriteIvars(w, p, i + 1, pointer)
               [] ivars[i] = "broken" -> WriteIvars(Unless(w, FALSE), p, i + 1, pointer)
               [] ivars[i] = "pointer" ->
                      WriteIvars(WriteMemoryContents(w, got), p, i + 1, got)

\* Mutant: neither the object nor its ivars count against the limit.
MutCharge(w, ivars) == w

Charge(w, ivars) == [w EXCEPT !.limit = @ - 1 - ivars]

WriteUnknown(w, p) ==
    LET shown == Put(w, <<"ivars", p>>)
    IN  End(IF Tagged(p) THEN Put(Charge(shown, 0), <<"value">>)
            ELSE IF Ivars(Isa(p)) = Wild THEN Unless(Charge(shown, 0), FALSE)
            ELSE WriteIvars(Charge(shown, Len(Listed(Isa(p)))), p, 1, junk))

WriteObject(w, p) ==
    LET type == ClassTypeOf(p)
    IN  CASE type \in {"string", "url"} -> WriteString(w, p)
          [] type \in {"date", "number"} -> WriteValue(w, p)
          [] type \in {"array", "mutable array", "stored array"} /\ w.limit > 0 -> WriteArray(w, p)
          [] type = "unknown" /\ w.limit > 0 -> WriteUnknown(w, p)
          [] OTHER -> w

WriteMemoryContents(w, p) ==
    LET type == ObjectType(p)
        begun == Put([w EXCEPT !.limit = @ - 1], <<"object", p, type>>)
        class == ObjectClassName(p)
    IN  End(CASE type = "fault" -> Unless(begun, FALSE)
              [] type = "unknown" /\ ValidString(p) -> Put(begun, <<"value">>)
              [] type = "class" -> Unless(begun, Name(p) # Wild)
              [] type = "object" ->
                     IF Restricted # {} /\ class = Null THEN Unless(begun, FALSE)
                     ELSE IF IsRestricted(p) THEN begun ELSE WriteObject(begun, p)
              [] OTHER -> begun)

ValidPointer(p) == p # Null /\ (Tagged(p) => ValidTagged(p))
Notable(p) == ObjectType(p) # "unknown" \/ p \in Zombies \/ ValidString(p)

\* kscrw_i_writeMemoryContentsIfNotable writes of these pointers.
IsNotable(p) == ValidPointer(p) /\ Notable(p)
=============================================================================
