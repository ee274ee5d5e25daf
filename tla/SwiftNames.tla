----------------------------- MODULE SwiftNames ------------------------------
(* The trees whose names the demangler is checked on: every kind of node, in *)
(* every position that decides how it is written, and names in which one     *)
(* thing is mentioned several times.                                         *)
EXTENDS SwiftMangling

Module(name) == T("Module", name)
Id(name) == T("Identifier", name)
Ty(type) == N("Type", <<type>>)
Tys(types) == [i \in DOMAIN types |-> Ty(types[i])]
Param(depth, index) == N("DependentGenericParamType", <<I("Index", depth), I("Index", index)>>)

A == N("Class", <<Module("1a"), Id("1b")>>)
B == N("Structure", <<Module("1b"), Id("1a")>>)
C == N("Enum", <<A, Id("1a")>>)
P == N("Protocol", <<Module("1a"), Id("1c")>>)
Q == N("Protocol", <<Module("Swift"), Id("1c")>>)
R == N("Protocol", <<B, Id("1d")>>)
Dictionary == N("Structure", <<Module("Swift"), Id("Dictionary")>>)
Optional == StandardType(9)
Alias == N("TypeAlias", <<Module("1a"), Id("1d")>>)
SwiftInt == StandardType(6)

-----------------------------------------------------------------------------
(* Types.                                                                    *)
FunctionKinds ==
    {"FunctionType", "UncurriedFunctionType", "ObjCBlock", "CFunctionPointer",
     "AutoClosureType", "ThinFunctionType"}
Arrow(kind, throws, from, to) ==
    N(kind, (IF throws THEN <<N("ThrowsAnnotation", <<>>)>> ELSE <<>>)
            \o <<N("ArgumentTuple", <<Ty(from)>>), N("ReturnType", <<Ty(to)>>)>>)
Function(from, to) == Arrow("FunctionType", FALSE, from, to)

Element(label, type) ==
    N("TupleElement", (IF label = "" THEN <<>> ELSE <<T("TupleElementName", label)>>) \o <<Ty(type)>>)
Tuple(kind, elements) == N(kind, elements)
Pair(x, y) == Tuple("NonVariadicTuple", <<Element("", x), Element("", y)>>)
Unit == Tuple("NonVariadicTuple", <<>>)

Applied(type, arguments) ==
    N("BoundGeneric" \o type.kind, <<Ty(type), N("TypeList", Tys(arguments))>>)
Protocols(list) == N("ProtocolList", <<N("TypeList", Tys(list))>>)

Word(text) == N("BuiltinTypeName", <<T("Text", text)>>)
BuiltinTypes ==
    {Word(text) : text \in {"Builtin.BridgeObject", "Builtin.UnsafeValueBuffer",
                            "Builtin.UnknownObject", "Builtin.NativeObject",
                            "Builtin.RawPointer", "Builtin.Word"}}
    \union {N("BuiltinTypeName", <<T("Text", text), I("Number", 8)>>) :
                text \in {"Builtin.Float", "Builtin.Int"}}
    \union {N("BuiltinTypeName", <<T("Text", "Builtin.Vec"), I("Number", 4), T("Text", text),
                                   I("Number", 2)>>) : text \in {"xInt", "xFloat"}}
    \union {N("BuiltinTypeName", <<T("Text", "Builtin.Vec"), I("Number", 4),
                                   T("Text", "xRawPointer")>>)}

NominalTypes ==
    {A, B, C, Alias, N("Class", <<C, Id("1a")>>), N("Structure", <<Module("__ObjC"), Id("1a")>>),
     N("Structure", <<Module("__C"), Id("1a")>>), N("Class", <<Module("Swift"), Id("1b")>>)}
    \union {StandardType(i) : i \in DOMAIN StandardTypes}

Wraps == {"Weak", "Unowned", "Unmanaged", "SILBoxType", "DynamicSelf"}
WrappedTypes ==
    {N(kind, <<Ty(type)>>) : kind \in Wraps, type \in {A, Pair(A, B)}}
    \union {N("InOut", <<type>>) : type \in {A, Pair(A, A)}}
    \union {N("Metatype", <<Ty(type)>>) : type \in {A, Pair(A, B), Protocols(<<P>>)}}
    \union {N("Metatype", <<T("MetatypeRepresentation", text), Ty(A)>>) :
                text \in {"@thin", "@thick", "@objc_metatype"}}
    \union {N("ExistentialMetatype", <<Ty(Protocols(<<P, Q>>))>>),
            N("Metatype", <<Ty(N("ExistentialMetatype", <<Ty(Protocols(<<P>>))>>))>>),
            N("ExistentialMetatype", <<T("MetatypeRepresentation", "@thick"), Ty(Protocols(<<P>>))>>),
            N("ErrorType", <<>>)}

FunctionTypes ==
    {Arrow(kind, throws, A, B) : kind \in FunctionKinds, throws \in BOOLEAN}
    \union {Function(from, to) :
                from, to \in {A, Unit, Pair(A, A), Function(A, A), Applied(B, <<A>>)}}
    \union {Function(A, Function(A, A)), Function(Function(A, A), Function(A, A))}

TupleTypes ==
    {Tuple(kind, <<Element(x, A), Element(y, type)>>) :
         kind \in {"NonVariadicTuple", "VariadicTuple"}, x, y \in {"", "1a"},
         type \in {A, Function(A, A)}}
    \union {Unit, Tuple("NonVariadicTuple", <<Element("1b", Pair(A, A))>>)}

GenericTypes ==
    {Applied(type, arguments) :
         type \in {A, B, C, StandardType(1)}, arguments \in {<<A>>, <<B, A>>, <<Function(A, B)>>}}
    \union {Applied(A, <<Applied(B, <<A>>), SwiftInt>>), Applied(Dictionary, <<A, B>>),
            Applied(Dictionary, <<A>>), Applied(Optional, <<A, A>>),
            Applied(N("Enum", <<Module("1a"), Id("Optional")>>), <<A>>)}
    \union {Applied(type, <<to>>) :
                type \in {Optional, StandardType(10)},
                to \in {A, Pair(A, B), Function(A, A), Applied(Optional, <<A>>), N("Metatype", <<Ty(A)>>)}}
    \union {N("Metatype", <<Ty(Applied(Optional, <<A>>))>>), Function(A, Applied(Optional, <<A>>))}
    \union {Protocols(list) : list \in {<<>>, <<P>>, <<P, Q>>, <<R, P>>, <<Q, R, Q>>}}

-----------------------------------------------------------------------------
(* Generic parameters, signatures and archetypes.                            *)
Assoc(name) == T("DependentAssociatedTypeRef", name)
AssocOf(protocol, name) == [Assoc(name) EXCEPT !.kids = <<Ty(protocol)>>]
Member(base, name) == N("DependentMemberType", <<Ty(base), name>>)
Members ==
    {Param(0, 0), Param(0, 1), Param(1, 0), Param(2, 1), Member(Param(0, 0), Assoc("1a")),
     Member(Param(0, 1), AssocOf(P, "1a")), Member(Member(Param(1, 0), Assoc("1a")), Assoc("1a")),
     Member(Member(Param(0, 0), AssocOf(P, "1b")), AssocOf(Q, "1a"))}

Counting(counts) == [i \in DOMAIN counts |-> I("DependentGenericParamCount", counts[i])]
Signature(counts, requirements) == N("DependentGenericSignature", Counting(counts) \o requirements)
Conforms(type, to) == N("DependentGenericConformanceRequirement", <<Ty(type), Ty(to)>>)
Same(type, as) == N("DependentGenericSameTypeRequirement", <<Ty(type), Ty(as)>>)
Generic(signature, type) == N("DependentGenericType", <<signature, Ty(type)>>)

Signatures ==
    {Signature(counts, <<>>) : counts \in {<<1>>, <<2>>, <<0>>, <<0, 1>>, <<2, 1>>}}
    \union {Signature(<<1>>, <<Conforms(type, to)>>) : type \in Members, to \in {P, A}}
    \union {Signature(<<2>>, <<Conforms(Param(0, 0), P), Conforms(Param(0, 1), to),
                               Same(Member(Param(0, 0), AssocOf(P, "1a")), type)>>) :
                to \in {P, Q, R, A}, type \in {A, Param(0, 1)}}

Archetype(depth, index) == N("ArchetypeRef", <<I("Index", depth), I("Index", index)>>)
SelfOf(protocol) == N("SelfTypeRef", <<protocol>>)
Associated(root, name) == N("AssociatedTypeRef", <<root, Id(name)>>)
Archetypes ==
    {Archetype(0, 0), Archetype(0, 3), Archetype(1, 0), Archetype(2, 1), SelfOf(Ty(P)),
     Associated(SelfOf(Ty(P)), "1a"), Associated(Associated(SelfOf(Ty(Q)), "1a"), "1b"),
     Associated(Archetype(0, 1), "1a"),
     N("QualifiedArchetype", <<I("Number", 0), N("DeclContext", <<A>>)>>),
     N("QualifiedArchetype", <<I("Number", 2), N("DeclContext", <<Module("1b")>>)>>)}

GenericUses ==
    Members \union Archetypes
    \union {Generic(signature, Function(Param(0, 0), A)) : signature \in Signatures}
    \union {Function(SelfOf(Ty(P)), Associated(SelfOf(Ty(P)), "1a")),
            Pair(Associated(SelfOf(Ty(P)), "1a"), Associated(Associated(SelfOf(Ty(P)), "1a"), "1b")),
            Pair(Member(Param(0, 0), AssocOf(P, "1a")), Member(Param(0, 1), AssocOf(P, "1a")))}

-----------------------------------------------------------------------------
(* The types of lowered functions.                                           *)
Lower(convention, attributes, inputs, results) ==
    N("ImplFunctionType",
      <<T("ImplConvention", convention)>> \o attributes \o inputs \o results)
Passed(kind, convention, type) == N(kind, <<T("ImplConvention", convention), Ty(type)>>)
In(convention) == Passed("ImplParameter", convention, A)
Out(convention) == Passed("ImplResult", convention, A)
Attributed(text) == T("ImplFunctionAttribute", text)

LoweredTypes ==
    {Lower(convention, <<>>, <<>>, <<>>) :
         convention \in {"@convention(thin)", "@callee_unowned", "@callee_guaranteed", "@callee_owned"}}
    \union {Lower("@convention(thin)", <<Attributed(text)>> \o more, <<In("@in")>>, <<Out("@out")>>) :
                text \in {"@convention(block)", "@convention(c)", "@convention(method)",
                          "@convention(objc_method)", "@convention(witness_method)"},
                more \in {<<>>, <<Attributed("@noreturn")>>, <<Signature(<<1>>, <<>>)>>}}
    \union {Lower("@callee_owned", <<>>, <<In(convention), In("@in")>>, <<>>) :
                convention \in {"@unowned", "@guaranteed", "@deallocating", "@in", "@inout", "@owned"}}
    \union {Lower("@callee_owned", <<>>, <<>>, <<Out(convention), Out("@owned")>>) :
                convention \in {"@autoreleased", "@unowned", "@out", "@owned"}}
    \union {Lower("@callee_owned", <<>>, <<>>, <<Out("@owned"), Passed("ImplErrorResult", "@owned", B)>>)}

TheTypes ==
    NominalTypes \union BuiltinTypes \union WrappedTypes \union FunctionTypes \union TupleTypes
    \union GenericTypes \union GenericUses \union LoweredTypes

-----------------------------------------------------------------------------
(* Entities.                                                                 *)
Contexts ==
    {Module("1a"), Module("Swift"), A, B, P, C, N("Extension", <<Module("1b"), A>>),
     N("Extension", <<Module("1b"), A, Signature(<<1>>, <<Conforms(Param(0, 0), P)>>)>>),
     N("Function", <<Module("1a"), Id("1b"), Ty(Function(A, A))>>),
     N("ExplicitClosure", <<N("Function", <<A, Id("1b"), Ty(Function(A, A))>>), I("Number", 0),
                            Ty(Function(A, A))>>)}

DeclNames ==
    {Id("1a"), N("PrivateDeclName", <<Id("1d"), Id("1a")>>), N("LocalDeclName", <<I("Number", 1), Id("1a")>>),
     Id(WordText(<<233, 97>>)), N("PrivateDeclName", <<Id("1d"), Id(WordText(<<97, 8730>>))>>)}
    \union {T(kind, OperatorText(w)) : kind \in DOMAIN OperatorMark, w \in TheOperators}

Bare == {"Deallocator", "Destructor", "IVarInitializer", "IVarDestroyer", "Initializer"}
Typed == {"Allocator", "Constructor"}
Numbered == {"ExplicitClosure", "ImplicitClosure"}
Accessors == DOMAIN EntityCode \ (Bare \union Typed \union Numbered \union {"DefaultArgumentInitializer"})

Entities ==
    {N(kind, <<A>>) : kind \in Bare} \union {N("Deallocator", <<B>>)}
    \union {N(kind, <<context, Ty(Function(A, B))>>) : kind \in Typed, context \in {A, B}}
    \union {N(kind, <<A, I("Number", 1), Ty(Function(A, A))>>) : kind \in Numbered}
    \union {N("DefaultArgumentInitializer", <<A, I("Number", 0)>>)}
    \union {N(kind, <<A, Id("1a"), Ty(Function(A, A))>>) : kind \in Accessors}
    \union {N(kind, <<A, Id("1a"), Ty(B)>>) : kind \in Accessors \ {"Function", "Subscript"}}
    \union {N("Function", <<context, Id("1a"), Ty(Function(Pair(A, B), C))>>) : context \in Contexts}
    \union {N("Function", <<A, name, Ty(Function(A, A))>>) : name \in DeclNames}
    \union {N("Static", <<N(kind, <<B, Id("1a"), Ty(Function(A, A))>>)>>) :
                kind \in {"Function", "Variable", "Subscript"}}
    \union {N("Static", <<N("DefaultArgumentInitializer", <<A, I("Number", 0)>>)>>)}
    \union {A, B, C}

-----------------------------------------------------------------------------
(* Whole names.                                                              *)
Conformance(type, protocol, context) == N("ProtocolConformance", <<Ty(type), Ty(protocol), context>>)
Conformances ==
    {Conformance(A, P, Module("1a")), Conformance(Applied(B, <<SwiftInt>>), Q, Module("1b")),
     Conformance(C, R, N("Extension", <<Module("1b"), A>>))}
AFunction == N("Function", <<Module("1a"), Id("1b"), Ty(Function(A, A))>>)

Metadata ==
    {N(kind, <<Ty(A)>>) :
         kind \in {"GenericTypeMetadataPattern", "TypeMetadataAccessFunction", "TypeMetadataLazyCache",
                   "Metaclass", "NominalTypeDescriptor", "FullTypeMetadata", "TypeMetadata",
                   "ValueWitnessTable"}}
    \union {N("ProtocolDescriptor", <<Ty(protocol)>>) : protocol \in {P, Q, R}}
    \union {[I("ValueWitness", i - 1) EXCEPT !.kids = <<Ty(A)>>] : i \in DOMAIN WitnessLetters}

Tables ==
    {N(kind, <<conformance>>) :
         kind \in {"ProtocolWitnessTable", "GenericProtocolWitnessTable",
                   "GenericProtocolWitnessTableInstantiationFunction", "ProtocolWitnessTableAccessor"},
         conformance \in Conformances}
    \union {N(kind, <<Ty(A), conformance>>) :
                kind \in {"LazyProtocolWitnessTableAccessor", "LazyProtocolWitnessTableCacheVariable"},
                conformance \in Conformances}
    \union {N("AssociatedTypeMetadataAccessor", <<conformance, Id("1a")>>) : conformance \in Conformances}
    \union {N("AssociatedTypeWitnessTableAccessor", <<conformance, Id("1a"), Ty(P)>>) :
                conformance \in Conformances}
    \union {N("ProtocolWitness", <<conformance, N("Function", <<P, Id("1a"), Ty(Function(A, A))>>)>>) :
                conformance \in Conformances}
    \union {N("FieldOffset", <<T("Directness", text), N("Variable", <<A, Id("1a"), Ty(B)>>)>>) :
                text \in {"direct", "indirect"}}
    \union {N("WitnessTableOffset", <<AFunction>>)}

Thunks ==
    {N(kind, <<Ty(Function(A, B)), Ty(Function(B, A))>>) :
         kind \in {"ReabstractionThunk", "ReabstractionThunkHelper"}}
    \union {N("ReabstractionThunk", <<Signature(<<1>>, <<Conforms(Param(0, 0), P)>>), Ty(Function(A, Param(0, 0))),
                                      Ty(Function(Param(0, 0), A))>>)}
    \union {N(kind, kids) : kind \in {"PartialApplyForwarder", "PartialApplyObjCForwarder"},
                            kids \in {<<>>, <<AFunction>>}}

SpecialParam(at, which, more) ==
    [I("FunctionSignatureSpecializationParam", at) EXCEPT
        !.kids = <<I("FunctionSignatureSpecializationParamKind", which)>> \o more]
Payload(text) == T("FunctionSignatureSpecializationParamPayload", text)
Untouched(at) == I("FunctionSignatureSpecializationParam", at)

Specializations ==
    {N("GenericSpecialization",
       <<I("SpecializationPassID", 2), N("GenericSpecializationParam", <<Ty(type)>> \o conformances)>>) :
         type \in {A, SwiftInt},
         conformances \in {<<>>, <<Conformance(A, P, Module("1a")), Conformance(B, Q, Module("1a"))>>}}
    \union {N("FunctionSignatureSpecialization",
              <<I("SpecializationPassID", 1), Untouched(0), param>>) :
                param \in {SpecialParam(1, which, <<>>) : which \in {6, 7, 64, 128, 192, 256, 320, 384, 448}}
                    \union {SpecialParam(1, which, <<Payload("1a")>>) : which \in {0, 1}}
                    \union {SpecialParam(1, which, <<Payload("7")>>) : which \in {2, 3}}
                    \union {SpecialParam(1, 4, <<Payload(encoding), Payload("1b")>>) : encoding \in {"u8", "u16"}}
                    \union {SpecialParam(1, 5, <<Payload("1a"), Ty(A), Ty(SwiftInt)>>)}}

Global(kids) == N("Global", kids)
Attributes ==
    {"ObjCAttribute", "NonObjCAttribute", "DynamicAttribute", "DirectMethodReferenceAttribute",
     "VTableAttribute"}

SpelledModules ==
    {Global(<<N("TypeMangling", <<Ty(N("Class", <<Module(WordText(w)), Id("1a")>>))>>)>>) : w \in TheWords}

TheTrees ==
    SpelledModules \union
    {Global(<<N("TypeMangling", <<Ty(type)>>)>>) : type \in TheTypes}
    \union {Global(<<n>>) : n \in Entities \union Metadata \union Tables \union Thunks}
    \union {Global(<<N(kind, <<>>), AFunction>>) : kind \in Attributes}
    \union {Global(<<special, AFunction>>) : special \in Specializations}
    \union {Global(<<special, [special EXCEPT !.kids[1].index = 3], AFunction>>) :
                special \in {s \in Specializations : s.kind = "GenericSpecialization"}}
    \union {Global(<<AFunction, [Id("") EXCEPT !.kind = "Suffix", !.text = <<".", "1">>]>>)}
=============================================================================
