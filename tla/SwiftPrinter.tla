---------------------------- MODULE SwiftPrinter ----------------------------
(* NodePrinter of Demangle.cpp, with the default options and with the one    *)
(* that writes some generic types shorter: the words in which a report names *)
(* a function, written from the tree of nodes that the demangler made of its *)
(* mangled name.  An identifier stands for itself, and a constant that a     *)
(* function was specialized for is printed as it is.                         *)
EXTENDS Naturals, Sequences, SequencesExt, TLC

Joined(texts, separator) ==
    IF texts = <<>> THEN ""
    ELSE FoldLeft(LAMBDA sofar, text : sofar \o separator \o text, texts[1], Tail(texts))
OwnText(n) == Joined(n.text, "")

Letters == <<"A", "B", "C", "D", "E", "F", "G", "H", "I", "J", "K", "L", "M", "N", "O", "P", "Q",
             "R", "S", "T", "U", "V", "W", "X", "Y", "Z">>
LettersOf[index \in Nat] ==
    IF index < 26 THEN Letters[index + 1]
    ELSE Letters[(index % 26) + 1] \o LettersOf[index \div 26]

archetypeName(index, depth) == LettersOf[index] \o (IF depth = 0 THEN "" ELSE ToString(depth))

\* What is printed before the only child.
Announced ==
    [Weak |-> "weak ", Unowned |-> "unowned ", Unmanaged |-> "unowned(unsafe) ",
     InOut |-> "inout ", SILBoxType |-> "@box ", ReturnType |-> " -> ",
     ProtocolWitnessTableAccessor |-> "protocol witness table accessor for ",
     ProtocolWitnessTable |-> "protocol witness table for ",
     GenericProtocolWitnessTable |-> "generic protocol witness table for ",
     GenericProtocolWitnessTableInstantiationFunction |->
        "instantiation function for generic protocol witness table for ",
     GenericTypeMetadataPattern |-> "generic type metadata pattern for ",
     Metaclass |-> "metaclass for ", ProtocolDescriptor |-> "protocol descriptor for ",
     FullTypeMetadata |-> "full type metadata for ", TypeMetadata |-> "type metadata for ",
     TypeMetadataAccessFunction |-> "type metadata accessor for ",
     TypeMetadataLazyCache |-> "lazy cache variable for type metadata for ",
     NominalTypeDescriptor |-> "nominal type descriptor for ",
     ValueWitnessTable |-> "value witness table for ",
     WitnessTableOffset |-> "witness table offset for ", TypeMangling |-> "", Type |-> "",
     DeclContext |-> "", Static |-> "static "]

\* What is printed whatever the children are.
Fixed ==
    [NonObjCAttribute |-> "@nonobjc ", ObjCAttribute |-> "@objc ",
     DirectMethodReferenceAttribute |-> "super ", DynamicAttribute |-> "dynamic ",
     VTableAttribute |-> "override ", DynamicSelf |-> "Self", ErrorType |-> "<ERROR TYPE>",
     ThrowsAnnotation |-> " throws "]

FunctionPrefix ==
    [AutoClosureType |-> "@autoclosure ", ThinFunctionType |-> "@convention(thin) ",
     FunctionType |-> "", UncurriedFunctionType |-> "",
     CFunctionPointer |-> "@convention(c) ", ObjCBlock |-> "@convention(block) "]

\* What is printed after a node's own text.
OperatorSuffix ==
    [InfixOperator |-> " infix", PrefixOperator |-> " prefix", PostfixOperator |-> " postfix"]

\* How printEntity is called: with the name, with the type, and with what more.
EntityForm ==
    [Variable |-> <<TRUE, TRUE, "">>, Function |-> <<TRUE, TRUE, "">>,
     Subscript |-> <<TRUE, TRUE, "">>,
     Initializer |-> <<FALSE, FALSE, "(variable initialization expression)">>,
     Class |-> <<TRUE, FALSE, "">>, Structure |-> <<TRUE, FALSE, "">>, Enum |-> <<TRUE, FALSE, "">>,
     Protocol |-> <<TRUE, FALSE, "">>, TypeAlias |-> <<TRUE, FALSE, "">>,
     OwningAddressor |-> <<TRUE, TRUE, ".owningAddressor">>,
     OwningMutableAddressor |-> <<TRUE, TRUE, ".owningMutableAddressor">>,
     NativeOwningAddressor |-> <<TRUE, TRUE, ".nativeOwningAddressor">>,
     NativeOwningMutableAddressor |-> <<TRUE, TRUE, ".nativeOwningMutableAddressor">>,
     NativePinningAddressor |-> <<TRUE, TRUE, ".nativePinningAddressor">>,
     NativePinningMutableAddressor |-> <<TRUE, TRUE, ".nativePinningMutableAddressor">>,
     UnsafeAddressor |-> <<TRUE, TRUE, ".unsafeAddressor">>,
     UnsafeMutableAddressor |-> <<TRUE, TRUE, ".unsafeMutableAddressor">>,
     GlobalGetter |-> <<TRUE, TRUE, ".getter">>, Getter |-> <<TRUE, TRUE, ".getter">>,
     Setter |-> <<TRUE, TRUE, ".setter">>, MaterializeForSet |-> <<TRUE, TRUE, ".materializeForSet">>,
     WillSet |-> <<TRUE, TRUE, ".willset">>, DidSet |-> <<TRUE, TRUE, ".didset">>,
     Constructor |-> <<FALSE, TRUE, "init">>, Destructor |-> <<FALSE, FALSE, "deinit">>,
     IVarInitializer |-> <<FALSE, FALSE, "__ivar_initializer">>,
     IVarDestroyer |-> <<FALSE, FALSE, "__ivar_destroyer">>]

OfClass(n) == n.kids[1].kind = "Class"
FormOf(n) ==
    CASE n.kind = "ExplicitClosure" ->
            <<FALSE, FALSE, "(closure #" \o ToString(n.kids[2].index + 1) \o ")">>
      [] n.kind = "ImplicitClosure" ->
            <<FALSE, FALSE, "(implicit closure #" \o ToString(n.kids[2].index + 1) \o ")">>
      [] n.kind = "DefaultArgumentInitializer" ->
            <<FALSE, FALSE, "(default argument " \o ToString(n.kids[2].index) \o ")">>
      [] n.kind = "Allocator" ->
            <<FALSE, TRUE, IF OfClass(n) THEN "__allocating_init" ELSE "init">>
      [] n.kind = "Deallocator" ->
            <<FALSE, FALSE, IF OfClass(n) THEN "__deallocating_deinit" ELSE "deinit">>
      [] OTHER -> EntityForm[n.kind]

EntityKinds ==
    DOMAIN EntityForm \union
        {"ExplicitClosure", "ImplicitClosure", "DefaultArgumentInitializer", "Allocator", "Deallocator"}

Callable == {"FunctionType", "UncurriedFunctionType", "CFunctionPointer", "ThinFunctionType"}

\* The type below the signatures around it.
RECURSIVE Bottom(_)
Bottom(type) == IF type.kind = "DependentGenericType" THEN Bottom(type.kids[2].kids[1]) ELSE type

useColonForEntityType(entity, type) ==
    entity.kind \in {"Subscript", "Function", "ExplicitClosure", "ImplicitClosure", "Allocator",
                     "Constructor", "Destructor", "Deallocator", "IVarDestroyer"}
        => Bottom(type.kids[1]).kind \notin Callable

WitnessNames ==
    <<"allocateBuffer", "assignWithCopy", "assignWithTake", "deallocateBuffer", "destroy",
      "destroyBuffer", "initializeBufferWithCopyOfBuffer", "initializeBufferWithCopy",
      "initializeWithCopy", "initializeBufferWithTake", "initializeWithTake", "projectBuffer",
      "initializeBufferWithTakeOfBuffer", "destroyArray", "initializeArrayWithCopy",
      "initializeArrayWithTakeFrontToBack", "initializeArrayWithTakeBackToFront",
      "storeExtraInhabitant", "getExtraInhabitantIndex", "getEnumTag",
      "destructiveProjectEnumData">>

ParamKindNames ==
    <<"Constant Propagated Function", "Constant Propagated Global", "Constant Propagated Integer",
      "Constant Propagated Float", "Constant Propagated String", "Closure Propagated",
      "Value Promoted from Box", "Stack Promoted from Box">>

Option(index, bit, text) == IF (index \div bit) % 2 = 1 THEN <<text>> ELSE <<>>
ParamKindText(index) ==
    IF index < 8 THEN ParamKindNames[index + 1]
    ELSE Joined(Option(index, 64, "Dead") \o Option(index, 128, "Owned To Guaranteed")
                \o Option(index, 256, "Exploded"), " and ")

\* printFunctionSigSpecializationParam, with the printed children
ParamText(n, printed) ==
    LET which == n.kids[1].index
    IN CASE which < 4 -> "[" \o printed[1] \o " : " \o printed[2] \o "]"
         [] which = 4 -> "[" \o printed[1] \o " : " \o printed[2] \o "'" \o printed[3] \o "']"
         [] which = 5 -> "[" \o printed[1] \o " : " \o printed[2] \o ", Argument Types : ["
                         \o Joined(SubSeq(printed, 3, Len(printed)), "") \o "]]"
         [] OTHER -> printed[1]

-----------------------------------------------------------------------------
(* A node is printed from its printed children.                              *)
isExistentialType(type) == type.kids[1].kind \in {"ExistentialMetatype", "ProtocolList"}

Entity(n, printed, asContext) ==
    LET hasName == FormOf(n)[1]
        hasType == FormOf(n)[2]
        useParens == hasType /\ asContext
        at == IF hasName THEN 3 ELSE 2
    IN printed[1] \o "." \o (IF useParens THEN "(" ELSE "") \o (IF hasName THEN printed[2] ELSE "")
       \o FormOf(n)[3]
       \o (IF ~hasType THEN ""
           ELSE IF useColonForEntityType(n, n.kids[at]) THEN " : " \o printed[at]
           ELSE " " \o printed[at])
       \o (IF useParens THEN ")" ELSE "")

FunctionText(n, printed) ==
    FunctionPrefix[n.kind]
    \o (IF n.kids[1].kind = "ThrowsAnnotation" THEN printed[2] \o " throws" \o printed[3]
        ELSE printed[1] \o printed[2])

\* The printed children of some kinds.
Printed(n, printed, kinds) ==
    LET at == SelectSeq([i \in DOMAIN n.kids |-> i], LAMBDA i : n.kids[i].kind \in kinds)
    IN [i \in DOMAIN at |-> printed[at[i]]]

LoweredText(n, printed) ==
    FoldLeft(LAMBDA sofar, text : sofar \o text \o " ", "",
        Printed(n, printed, {"ImplConvention", "ImplFunctionAttribute", "DependentGenericSignature"}))
    \o "(" \o Joined(Printed(n, printed, {"ImplParameter"}), ", ")
    \o ") -> (" \o Joined(Printed(n, printed, {"ImplResult", "ImplErrorResult"}), ", ") \o ")"

CountText(n, depth) ==
    Joined([i \in 1..n.index |-> archetypeName(i - 1, depth)], ", ")
SignatureText(n, printed) ==
    LET counts == SelectSeq(n.kids, LAMBDA kid : kid.kind = "DependentGenericParamCount")
    IN "<" \o Joined([i \in DOMAIN counts |-> CountText(counts[i], i - 1)], "><")
       \o (IF Len(counts) = Len(n.kids) THEN ""
           ELSE " where " \o Joined(SubSeq(printed, Len(counts) + 1, Len(printed)), ", "))
       \o ">"

\* Parameters that are not specialized are empty and left out.
SpecializationText(n, printed) ==
    LET at == SelectSeq([i \in DOMAIN n.kids |-> i], LAMBDA i : i > 1 /\ n.kids[i].kids # <<>>)
    IN (IF n.kind = "GenericSpecialization" THEN "generic specialization <"
        ELSE "function signature specialization <")
       \o Joined([i \in DOMAIN at |-> printed[at[i]]], ", ") \o "> of "

Tuples == {"NonVariadicTuple", "VariadicTuple"}

\* Mutant of ArgumentTupleText: the arguments stand without parentheses.
ArgumentsBare(n, printed) == printed[1]

ArgumentTupleText(n, printed) ==
    IF n.kids[1].kids[1].kind \in Tuples THEN printed[1] ELSE "(" \o printed[1] \o ")"

ThunkText(n, printed) ==
    "reabstraction thunk " \o (IF n.kind = "ReabstractionThunkHelper" THEN "helper " ELSE "")
    \o (IF Len(printed) = 3 THEN printed[1] \o " " ELSE "")
    \o "from " \o printed[Len(printed) - 1] \o " to " \o Last(printed)

\* Texts and the places of the children that are printed between them.
WitnessTemplate == [
    ProtocolConformance |-> <<"", 1, " : ", 2, " in ", 3>>,
    ProtocolWitness |-> <<"protocol witness for ", 2, " in conformance ", 1>>,
    LazyProtocolWitnessTableAccessor |->
        <<"lazy protocol witness table accessor for type ", 1, " and conformance ", 2>>,
    LazyProtocolWitnessTableCacheVariable |->
        <<"lazy protocol witness table cache variable for type ", 1, " and conformance ", 2>>,
    AssociatedTypeMetadataAccessor |-> <<"associated type metadata accessor for ", 2, " in ", 1>>,
    AssociatedTypeWitnessTableAccessor |->
        <<"associated type witness table accessor for ", 2, " : ", 3, " in ", 1>>,
    FieldOffset |-> <<"", 1, "field offset for ", 2>>]

DependentTemplate == [
    AssociatedTypeRef |-> <<"", 1, ".", 2>>, DependentMemberType |-> <<"", 1, ".", 2>>,
    DependentGenericType |-> <<"", 1, " ", 2>>,
    DependentGenericConformanceRequirement |-> <<"", 1, ": ", 2>>,
    DependentGenericSameTypeRequirement |-> <<"", 1, " == ", 2>>]

BoundTemplate == [
    BoundGenericClass |-> <<"", 1, "<", 2, ">">>, BoundGenericStructure |-> <<"", 1, "<", 2, ">">>,
    BoundGenericEnum |-> <<"", 1, "<", 2, ">">>]

Template == WitnessTemplate @@ DependentTemplate @@ BoundTemplate

Filled(parts, printed) ==
    Joined([i \in DOMAIN parts |-> IF i % 2 = 1 THEN parts[i] ELSE printed[parts[i]]], "")

DeclarationText(n, printed) ==
    CASE n.kind = "Global" -> Joined(printed, "")
      [] n.kind = "Suffix" -> " with unmangled suffix \"" \o OwnText(n) \o "\""
      [] n.kind = "Directness" -> OwnText(n) \o " "
      [] n.kind = "Extension" ->
            "(extension in " \o printed[1] \o "):" \o printed[2]
            \o (IF Len(printed) = 3 THEN printed[3] ELSE "")
      [] n.kind = "LocalDeclName" -> "(" \o printed[2] \o " #" \o ToString(n.kids[1].index + 1) \o ")"
      [] n.kind = "PrivateDeclName" -> "(" \o printed[2] \o " in " \o printed[1] \o ")"

TupleText(n, printed) ==
    CASE n.kind = "ArgumentTuple" -> ArgumentTupleText(n, printed)
      [] n.kind = "TupleElement" -> Joined(printed, "")
      [] n.kind = "TupleElementName" -> OwnText(n) \o " : "
      [] OTHER -> "(" \o Joined(printed, ", ") \o (IF n.kind = "VariadicTuple" THEN "..." ELSE "") \o ")"

SpecializedText(n, printed) ==
    CASE n.kind = "GenericSpecializationParam" ->
            printed[1] \o (IF Len(printed) = 1 THEN "" ELSE " with " \o Joined(Tail(printed), " and "))
      [] n.kind = "FunctionSignatureSpecializationParam" ->
            IF printed = <<>> THEN ""
            ELSE "Arg[" \o ToString(n.index) \o "] = " \o ParamText(n, printed)
      [] n.kind = "FunctionSignatureSpecializationParamKind" -> ParamKindText(n.index)
      [] OTHER -> SpecializationText(n, printed)

\* The archetypes have no text of their own here, their name is made of their place.
TypeText(n, printed) ==
    CASE n.kind = "TypeList" -> Joined(printed, ", ")
      [] n.kind = "ProtocolList" ->
            IF Len(n.kids[1].kids) = 1 THEN printed[1] ELSE "protocol<" \o printed[1] \o ">"
      [] n.kind = "Metatype" ->
            Joined(printed, " ") \o (IF isExistentialType(Last(n.kids)) THEN ".Protocol" ELSE ".Type")
      [] n.kind = "ExistentialMetatype" -> Joined(printed, " ") \o ".Type"
      [] n.kind = "SelfTypeRef" -> printed[1] \o ".Self"
      [] n.kind = "QualifiedArchetype" ->
            "(archetype " \o printed[1] \o " of " \o printed[2] \o ")"
      [] OTHER -> archetypeName(n.kids[2].index, n.kids[1].index)

LoweredPartText(n, printed) ==
    CASE n.kind = "ImplFunctionType" -> LoweredText(n, printed)
      [] n.kind = "ImplErrorResult" -> "@error " \o Joined(printed, " ")
      [] OTHER -> Joined(printed, " ")

ForwarderText(n, printed) ==
    (IF n.kind = "PartialApplyForwarder" THEN "partial apply forwarder"
     ELSE "partial apply ObjC forwarder")
    \o (IF printed = <<>> THEN "" ELSE " for " \o printed[1])

Text(n, printed, asContext) ==
    CASE n.kind \in EntityKinds -> Entity(n, printed, asContext)
      [] n.kind \in DOMAIN FunctionPrefix -> FunctionText(n, printed)
      [] n.kind \in DOMAIN Fixed -> Fixed[n.kind]
      [] n.kind \in DOMAIN Announced -> Announced[n.kind] \o printed[1]
      [] n.kind \in DOMAIN Template -> Filled(Template[n.kind], printed)
      [] n.kind \in DOMAIN OperatorSuffix -> OwnText(n) \o OperatorSuffix[n.kind]
      [] n.kind = "BuiltinTypeName" -> Joined(printed, "")
      [] n.kind \in {"Global", "Suffix", "Directness", "Extension", "LocalDeclName", "PrivateDeclName"} ->
            DeclarationText(n, printed)
      [] n.kind \in Tuples \union {"ArgumentTuple", "TupleElement", "TupleElementName"} ->
            TupleText(n, printed)
      [] n.kind \in {"GenericSpecialization", "FunctionSignatureSpecialization",
                     "GenericSpecializationParam", "FunctionSignatureSpecializationParam",
                     "FunctionSignatureSpecializationParamKind"} -> SpecializedText(n, printed)
      [] n.kind \in {"TypeList", "ProtocolList", "Metatype", "ExistentialMetatype", "SelfTypeRef",
                     "QualifiedArchetype", "ArchetypeRef", "DependentGenericParamType"} ->
            TypeText(n, printed)
      [] n.kind \in {"ImplFunctionType", "ImplParameter", "ImplResult", "ImplErrorResult"} ->
            LoweredPartText(n, printed)
      [] n.kind = "DependentGenericSignature" -> SignatureText(n, printed)
      [] n.kind = "ValueWitness" -> WitnessNames[n.index + 1] \o " value witness for " \o printed[1]
      [] n.kind \in {"ReabstractionThunk", "ReabstractionThunkHelper"} -> ThunkText(n, printed)
      [] n.kind \in {"PartialApplyForwarder", "PartialApplyObjCForwarder"} -> ForwarderText(n, printed)
      [] n.kind \in {"Number", "Index", "SpecializationPassID", "DependentGenericParamCount"} ->
            ToString(n.index)
      [] OTHER -> OwnText(n)

\* Contexts are printed as such; what stands only for its child passes it on.
KidAsContext(n, i, asContext) ==
    \/ i = 1 /\ n.kind \in EntityKinds
    \/ n.kind = "Extension" /\ (i # 2 \/ asContext)
    \/ n.kind \in {"Static", "Type", "DeclContext"} /\ asContext

\* The type-simple production of the grammar.
SimpleKinds ==
    {"Archetype", "ArchetypeRef", "AssociatedType", "AssociatedTypeRef", "BoundGenericClass",
     "BoundGenericEnum", "BoundGenericStructure", "BuiltinTypeName", "Class", "DependentGenericType",
     "DependentMemberType", "DependentGenericParamType", "DynamicSelf", "Enum", "ErrorType",
     "ExistentialMetatype", "Metatype", "MetatypeRepresentation", "Module", "NonVariadicTuple",
     "Protocol", "QualifiedArchetype", "ReturnType", "SelfTypeRef", "SILBoxType", "Structure",
     "TupleElementName", "Type", "TypeAlias", "TypeList", "VariadicTuple"}

isSwiftModule(n) == n.kind = "Module" /\ n.text = <<"Swift">>
isIdentifier(n, desired) == n.kind = "Identifier" /\ n.text = <<desired>>

\* The type that is applied, through the Type around it, and to how many.
Applies(n, kind, name, count) ==
    /\ n.kind = kind /\ Len(n.kids[2].kids) = count
    /\ isIdentifier(n.kids[1].kids[1].kids[2], name) /\ isSwiftModule(n.kids[1].kids[1].kids[1])

findSugar(n) ==
    CASE Applies(n, "BoundGenericEnum", "Optional", 1) -> "?"
      [] Applies(n, "BoundGenericEnum", "ImplicitlyUnwrappedOptional", 1) -> "!"
      [] Applies(n, "BoundGenericStructure", "Array", 1) -> "Array"
      [] Applies(n, "BoundGenericStructure", "Dictionary", 2) -> "Dictionary"
      [] OTHER -> "None"

\* The argument of an optional is wrapped in a Type, which is simple.
SugarText(sugar, arguments, printed) ==
    CASE sugar = "Array" -> "[" \o printed[1] \o "]"
      [] sugar = "Dictionary" -> "[" \o printed[1] \o " : " \o printed[2] \o "]"
      [] OTHER -> (IF arguments[1].kind \in SimpleKinds THEN printed[1] ELSE "(" \o printed[1] \o ")")
                  \o sugar

RECURSIVE print(_, _, _)
print(n, asContext, synthesizeSugar) ==
    IF synthesizeSugar /\ n.kind \in DOMAIN BoundTemplate /\ findSugar(n) # "None"
    THEN LET arguments == n.kids[2].kids
         IN SugarText(findSugar(n), arguments,
                [i \in DOMAIN arguments |-> print(arguments[i], FALSE, synthesizeSugar)])
    ELSE Text(n, [i \in DOMAIN n.kids |->
                    print(n.kids[i], KidAsContext(n, i, asContext), synthesizeSugar)], asContext)
=============================================================================
