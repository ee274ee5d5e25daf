--------------------------- MODULE SwiftDemangler ---------------------------
(* Demangle.cpp: how the report store reads the mangled name of a Swift      *)
(* function.  The parser is a recursive descent that never goes back: each   *)
(* demangle function tests what is next in a fixed order and gives up as     *)
(* soon as something it needs is missing.  Here the call stack is the        *)
(* sequence of goals that are left, a demangle function a row of rules, and  *)
(* one step the choice of a rule or the work of one goal.  A character of    *)
(* the name is one token; a counted identifier and a number are one each.    *)
EXTENDS Punycode, Naturals, Sequences, SequencesExt, FiniteSetsExt, TLC

CONSTANTS
    Name,     \* the counted identifiers
    Spelling  \* the bytes of each

ASSUME SpellingAssumption == Spelling \in [Name -> Seq(0..255)]

VARIABLES
    mangled,         \* NameSource.Text, what is left of the name
    goals,           \* what the functions on the call stack are still to do
    nodes,           \* the nodes under construction, a mark before each one's children
    substitutions,   \* Substitutions
    outcome          \* "reading", "read", "null" or "aborted"

demanglerVars == <<mangled, goals, nodes, substitutions, outcome>>

-----------------------------------------------------------------------------
(* Nodes and goals.                                                          *)
NodeOf(kind, text, index, kids) == [kind |-> kind, text |-> text, index |-> index, kids |-> kids]
Mark == NodeOf("mark", <<>>, 0, <<>>)

Goal(do, what, text, index) == [do |-> do, what |-> what, text |-> text, index |-> index]
Parse(function) == Goal("read", function, <<>>, 0)
Expect(token) == Goal("expect", token, <<>>, 0)
\* while (!nextIf(end)) function()
Many(function, end) == Goal("many", function, <<end>>, 0)
Leaf(kind, text, index) == Goal("leaf", kind, text, index)
Identifier(kind) == Goal("identifier", kind, <<>>, 0)
\* An identifier that is known to be encoded.
Encoded(kind) == Goal("encoded", kind, <<>>, 0)
Number(kind) == Goal("number", kind, <<>>, 0)
Until(kind) == Goal("until", kind, <<>>, 0)
Index(kind, more) == Goal("index", kind, <<>>, more)
StartNode == Goal("open", "", <<>>, 0)
Close(kind, index) == Goal("close", kind, <<>>, index)
\* Closes a node whose index is its place among its siblings.
CloseCounted(kind) == Goal("close counted", kind, <<>>, 0)
\* Closes the application of a generic type, of the kind of that type.
CloseBound == Goal("close bound", "", <<>>, 0)
\* Opens a node whose first child is the node that was just read.
Under == Goal("under", "", <<>>, 0)
Swap == Goal("swap", "", <<>>, 0)
Push == Goal("push", "", <<>>, 0)
Forget == Goal("clear", "", <<>>, 0)
Substitution == Goal("substitution", "", <<>>, 0)
\* What follows depends on the kind of the node that was just read.
Depends(choice) == Goal("depends", choice, <<>>, 0)
Suffix == Goal("suffix", "Suffix", <<>>, 0)
Die == Goal("abort", "", <<>>, 0)
Refuse == Goal("refuse", "", <<>>, 0)

NumberedNode(kind, index, parts) == <<StartNode>> \o parts \o <<Close(kind, index)>>
Node(kind, parts) == NumberedNode(kind, 0, parts)
\* The identifier closes its node.
Named(kind) == <<StartNode, Identifier(kind)>>
TextNode(kind, text) == <<Leaf(kind, <<text>>, 0)>>
Adopt(kind) == <<Under, Close(kind, 0)>>

Rule(on, parts) == [on |-> on, ahead |-> {}, goals |-> parts]
Otherwise(parts) == Rule(<<>>, parts)
Ahead(tokens, parts) == [on |-> <<>>, ahead |-> tokens, goals |-> parts]
Wraps(on, kind, function) == Rule(on, Node(kind, <<Parse(function)>>))

Digits == <<"0", "1", "2", "3", "4", "5", "6", "7", "8", "9">>
Value(token) == CHOOSE i \in 0..9 : Digits[i + 1] = token

-----------------------------------------------------------------------------
(* The functions, each a sequence of rules of which the first that applies   *)
(* is taken.  First the whole name and what may stand before it.             *)
TopLevelRules == <<Rule(<<"_", "T">>, Node("Global", <<Parse("Prefix"), Parse("Global"), Suffix>>))>>

Attribute(letter, kind) == Rule(<<"T", letter>>, <<Leaf(kind, <<>>, 0)>>)

PrefixRules ==
    <<Rule(<<"T", "S">>, <<Parse("Specialized"), Forget, Parse("NextSpecialized")>>),
      Attribute("o", "ObjCAttribute"), Attribute("O", "NonObjCAttribute"),
      Attribute("D", "DynamicAttribute"), Attribute("d", "DirectMethodReferenceAttribute"),
      Attribute("V", "VTableAttribute"), Otherwise(<<>>)>>

NextSpecializedRules ==
    <<Rule(<<"_", "T", "T", "S">>, <<Parse("Specialized"), Forget, Parse("NextSpecialized")>>),
      Rule(<<"_", "T">>, <<>>)>>

\* The kinds of things that are not declarations, and the types they are about.
MetadataRules ==
    <<Wraps(<<"M", "P">>, "GenericTypeMetadataPattern", "Type"),
      Wraps(<<"M", "a">>, "TypeMetadataAccessFunction", "Type"),
      Wraps(<<"M", "L">>, "TypeMetadataLazyCache", "Type"),
      Wraps(<<"M", "m">>, "Metaclass", "Type"),
      Wraps(<<"M", "n">>, "NominalTypeDescriptor", "Type"),
      Wraps(<<"M", "f">>, "FullTypeMetadata", "Type"),
      Wraps(<<"M", "p">>, "ProtocolDescriptor", "ProtocolName"),
      Wraps(<<"M">>, "TypeMetadata", "Type")>>

Forwarder(on, kind) ==
    <<Rule(on \o <<"_", "_", "T">>, Node(kind, <<Parse("Global")>>)), Rule(on, Node(kind, <<>>))>>

ForwarderRules ==
    Forwarder(<<"P", "A", "o">>, "PartialApplyObjCForwarder")
    \o Forwarder(<<"P", "A">>, "PartialApplyForwarder")

\* demangleValueWitnessKind, in the order of ValueWitnessKind
WitnessCode ==
    <<<<"a", "l">>, <<"c", "a">>, <<"t", "a">>, <<"d", "e">>, <<"x", "x">>, <<"X", "X">>,
      <<"C", "P">>, <<"C", "p">>, <<"c", "p">>, <<"T", "k">>, <<"t", "k">>, <<"p", "r">>,
      <<"T", "K">>, <<"X", "x">>, <<"C", "c">>, <<"T", "t">>, <<"t", "T">>, <<"x", "s">>,
      <<"x", "g">>, <<"u", "g">>, <<"u", "p">>>>

ValueWitnessRules ==
    [i \in 1..Len(WitnessCode) |->
        Rule(<<"w">> \o WitnessCode[i], NumberedNode("ValueWitness", i - 1, <<Parse("Type")>>))]

OffsetRules ==
    <<Wraps(<<"W", "V">>, "ValueWitnessTable", "Type"),
      Wraps(<<"W", "o">>, "WitnessTableOffset", "Entity"),
      Rule(<<"W", "v", "d">>,
          Node("FieldOffset", <<Leaf("Directness", <<"direct">>, 0), Parse("Entity")>>)),
      Rule(<<"W", "v", "i">>,
          Node("FieldOffset", <<Leaf("Directness", <<"indirect">>, 0), Parse("Entity")>>))>>

WitnessTableRules ==
    <<Wraps(<<"W", "P">>, "ProtocolWitnessTable", "Conformance"),
      Wraps(<<"W", "G">>, "GenericProtocolWitnessTable", "Conformance"),
      Wraps(<<"W", "I">>, "GenericProtocolWitnessTableInstantiationFunction", "Conformance"),
      Rule(<<"W", "l">>,
          Node("LazyProtocolWitnessTableAccessor", <<Parse("Type"), Parse("Conformance")>>)),
      Rule(<<"W", "L">>,
          Node("LazyProtocolWitnessTableCacheVariable", <<Parse("Type"), Parse("Conformance")>>)),
      Wraps(<<"W", "a">>, "ProtocolWitnessTableAccessor", "Conformance"),
      Rule(<<"W", "t">>,
          Node("AssociatedTypeMetadataAccessor", <<Parse("Conformance"), Parse("DeclName")>>)),
      Rule(<<"W", "T">>,
          Node("AssociatedTypeWitnessTableAccessor",
              <<Parse("Conformance"), Parse("DeclName"), Parse("ProtocolName")>>))>>

ThunkRules ==
    <<Rule(<<"T", "R">>, Node("ReabstractionThunkHelper", <<Parse("Reabstraction")>>)),
      Rule(<<"T", "r">>, Node("ReabstractionThunk", <<Parse("Reabstraction")>>)),
      Rule(<<"T", "W">>, Node("ProtocolWitness", <<Parse("Conformance"), Parse("Entity")>>))>>

ReabstractionRules ==
    <<Rule(<<"G">>, <<Parse("Signature"), Parse("Type"), Parse("Type")>>),
      Otherwise(<<Parse("Type"), Parse("Type")>>)>>

GlobalRules ==
    MetadataRules \o ForwarderRules \o <<Wraps(<<"t">>, "TypeMangling", "Type")>>
    \o ValueWitnessRules \o OffsetRules \o WitnessTableRules \o ThunkRules
    \o <<Ahead({"F", "v", "I", "i", "Z", "S", "V", "O", "C"}, <<Parse("Entity")>>)>>

-----------------------------------------------------------------------------
(* Specializations.                                                          *)
SpecializedRules ==
    <<Rule(<<"g">>, Node("GenericSpecialization",
          <<Number("SpecializationPassID"), Many("GenericParam", "_")>>)),
      Rule(<<"f">>, Node("FunctionSignatureSpecialization",
          <<Number("SpecializationPassID"), Many("FunctionParam", "_")>>))>>

GenericParamRules ==
    <<Otherwise(Node("GenericSpecializationParam", <<Parse("Type"), Many("Conformance", "_")>>))>>

ParamKind(index) == <<Leaf("FunctionSignatureSpecializationParamKind", <<>>, index)>>
Payload == "FunctionSignatureSpecializationParamPayload"
ClosureProp == 5

FunctionParamRules ==
    <<Otherwise(<<StartNode, Parse("ParamOptions"), CloseCounted("FunctionSignatureSpecializationParam")>>)>>

OptionRule(on, value) == Rule(on \o <<"_">>, ParamKind(value))

ParamOptionsRules ==
    <<Rule(<<"n", "_">>, <<>>),
      Rule(<<"c", "p">>, <<Parse("ConstantProp")>>),
      Rule(<<"c", "l">>, ParamKind(ClosureProp) \o Named(Payload) \o <<Many("Type", "_")>>),
      Rule(<<"i", "_">>, ParamKind(6)), Rule(<<"k", "_">>, ParamKind(7)),
      OptionRule(<<"d", "g", "s">>, 64 + 128 + 256), OptionRule(<<"d", "g">>, 64 + 128),
      OptionRule(<<"d", "s">>, 64 + 256), OptionRule(<<"d">>, 64),
      OptionRule(<<"g", "s">>, 128 + 256), OptionRule(<<"g">>, 128), OptionRule(<<"s">>, 256)>>

ConstantPropRules ==
    <<Rule(<<"f", "r">>, ParamKind(0) \o Named(Payload) \o <<Expect("_")>>),
      Rule(<<"g">>, ParamKind(1) \o Named(Payload) \o <<Expect("_")>>),
      Rule(<<"i">>, ParamKind(2) \o <<Until(Payload)>>),
      Rule(<<"f", "l">>, ParamKind(3) \o <<Until(Payload)>>),
      Rule(<<"s", "e", "0", "v">>,
          ParamKind(4) \o TextNode(Payload, "u8") \o Named(Payload) \o <<Expect("_")>>),
      Rule(<<"s", "e", "1", "v">>,
          ParamKind(4) \o TextNode(Payload, "u16") \o Named(Payload) \o <<Expect("_")>>),
      Rule(<<"s">>, <<Refuse>>),
      Otherwise(<<Die>>)>>

-----------------------------------------------------------------------------
(* Names of declarations, substitutions and contexts.                        *)
DeclNameRules ==
    <<Rule(<<"L">>, Node("LocalDeclName", <<Index("Number", 0), Parse("Identifier")>>)),
      Rule(<<"P">>, Node("PrivateDeclName", <<Parse("Identifier"), Parse("Identifier")>>)),
      Otherwise(<<Parse("Identifier")>>)>>

OperatorKinds == {"PrefixOperator", "PostfixOperator", "InfixOperator"}
OperatorRules(on, kind) ==
    <<Rule(<<"X">> \o on, <<StartNode, Encoded(kind)>>), Rule(on, Named(kind))>>
IdentifierRules ==
    OperatorRules(<<"o", "p">>, "PrefixOperator") \o OperatorRules(<<"o", "P">>, "PostfixOperator")
    \o OperatorRules(<<"o", "i">>, "InfixOperator") \o <<Otherwise(Named("Identifier"))>>

SwiftType(letter, kind, text) ==
    Rule(<<letter>>, Node(kind, TextNode("Module", "Swift") \o TextNode("Identifier", text)))

\* demangleSubstitutionIndex, after the S
SubstitutionRules ==
    <<Rule(<<"o">>, TextNode("Module", "__ObjC")), Rule(<<"C">>, TextNode("Module", "__C")),
      SwiftType("a", "Structure", "Array"), SwiftType("b", "Structure", "Bool"),
      SwiftType("c", "Structure", "UnicodeScalar"), SwiftType("d", "Structure", "Double"),
      SwiftType("f", "Structure", "Float"), SwiftType("i", "Structure", "Int"),
      SwiftType("P", "Structure", "UnsafePointer"),
      SwiftType("p", "Structure", "UnsafeMutablePointer"),
      SwiftType("q", "Enum", "Optional"), SwiftType("Q", "Enum", "ImplicitlyUnwrappedOptional"),
      SwiftType("R", "Structure", "UnsafeBufferPointer"),
      SwiftType("r", "Structure", "UnsafeMutableBufferPointer"),
      SwiftType("S", "Structure", "String"), SwiftType("u", "Structure", "UInt"),
      Otherwise(<<Substitution>>)>>

ModuleRules ==
    <<Rule(<<"s">>, TextNode("Module", "Swift")),
      Rule(<<"S">>, <<Parse("Substitution"), Depends("module")>>),
      Otherwise(Named("Module") \o <<Push>>)>>

\* Mutant of Declared: the declaration counts before its context.
DeclaredEarly(kind) ==
    Node(kind, <<Parse("Context"), Push, Parse("DeclName")>>)

\* demangleDeclarationName
Declared(kind) == Node(kind, <<Parse("Context"), Parse("DeclName")>>) \o <<Push>>

NominalTypeRules ==
    <<Rule(<<"S">>, <<Parse("Substitution")>>), Rule(<<"V">>, Declared("Structure")),
      Rule(<<"O">>, Declared("Enum")), Rule(<<"C">>, Declared("Class")),
      Rule(<<"P">>, Declared("Protocol"))>>

\* demangleProtocolNameGivenContext, with the context just read
ProtocolGivenContext == <<Under, Parse("DeclName"), Close("Protocol", 0), Push>>

ProtocolNameRules ==
    <<Rule(<<"S">>, <<StartNode, Parse("Substitution"), Depends("protocol"), Close("Type", 0)>>),
      Rule(<<"s">>, Node("Type", TextNode("Module", "Swift") \o ProtocolGivenContext)),
      Otherwise(Node("Type", Declared("Protocol")))>>

ContextRules ==
    <<Rule(<<"E">>, Node("Extension", <<Parse("Module"), Parse("Context")>>)),
      Rule(<<"e">>,
          Node("Extension", <<Parse("Module"), Parse("Signature"), Parse("Context"), Swap>>)),
      Rule(<<"S">>, <<Parse("Substitution")>>),
      Rule(<<"s">>, TextNode("Module", "Swift")),
      Ahead({"F", "I", "v", "P", "Z", "C", "V", "O"}, <<Parse("Entity")>>),
      Otherwise(<<Parse("Module")>>)>>

ConformanceRules ==
    <<Otherwise(Node("ProtocolConformance",
          <<Parse("Type"), Parse("ProtocolName"), Parse("Context")>>))>>

-----------------------------------------------------------------------------
(* Entities.                                                                 *)
EntityMarkers == <<"F", "v", "I", "i">>
\* The name decides the kind of the entity, hence it closes the node.
OfMarker(marker) == <<StartNode, Parse("Context"), Parse("EntityName" \o marker)>>

EntityRules ==
    [i \in 1..4 |-> Rule(<<"Z", EntityMarkers[i]>>,
                        Node("Static", OfMarker(EntityMarkers[i])))]
    \o [i \in 1..4 |-> Rule(<<EntityMarkers[i]>>, OfMarker(EntityMarkers[i]))]
    \o <<Rule(<<"Z">>, <<Parse("NominalType")>>), Otherwise(<<Parse("NominalType")>>)>>

Bare(on, kind) == Rule(on, <<Close(kind, 0)>>)
Typed(on, kind) == Rule(on, <<Parse("Type"), Close(kind, 0)>>)
Accessor(on, kind) == Rule(on, <<Parse("DeclName"), Parse("Type"), Close(kind, 0)>>)
Closure(on, kind) == Rule(on, <<Index("Number", 0), Parse("Type"), Close(kind, 0)>>)

\* The entity-names that may follow every entity-kind.
CommonNameRules ==
    <<Bare(<<"D">>, "Deallocator"), Bare(<<"d">>, "Destructor"),
      Bare(<<"e">>, "IVarInitializer"), Bare(<<"E">>, "IVarDestroyer"),
      Typed(<<"C">>, "Allocator"), Typed(<<"c">>, "Constructor"),
      Accessor(<<"a", "O">>, "OwningMutableAddressor"),
      Accessor(<<"a", "o">>, "NativeOwningMutableAddressor"),
      Accessor(<<"a", "p">>, "NativePinningMutableAddressor"),
      Accessor(<<"a", "u">>, "UnsafeMutableAddressor"), Rule(<<"a">>, <<Refuse>>),
      Accessor(<<"l", "O">>, "OwningAddressor"), Accessor(<<"l", "o">>, "NativeOwningAddressor"),
      Accessor(<<"l", "p">>, "NativePinningAddressor"), Accessor(<<"l", "u">>, "UnsafeAddressor"),
      Rule(<<"l">>, <<Refuse>>),
      Accessor(<<"g">>, "Getter"), Accessor(<<"G">>, "GlobalGetter"), Accessor(<<"s">>, "Setter"),
      Accessor(<<"m">>, "MaterializeForSet"), Accessor(<<"w">>, "WillSet"),
      Accessor(<<"W">>, "DidSet"),
      Closure(<<"U">>, "ExplicitClosure"), Closure(<<"u">>, "ImplicitClosure")>>

InitializerNameRules ==
    CommonNameRules
    \o <<Rule(<<"A">>, <<Index("Number", 0), Close("DefaultArgumentInitializer", 0)>>),
         Bare(<<"i">>, "Initializer")>>

NameRules(kind) == CommonNameRules \o <<Accessor(<<>>, kind)>>

-----------------------------------------------------------------------------
(* Generic parameters, signatures and archetypes.                            *)
Zero == Leaf("Index", <<>>, 0)
Param(depth, index) == Node("DependentGenericParamType", <<depth, index>>)

GenericParamIndexRules ==
    <<Rule(<<"d">>, Param(Index("Index", 1), Index("Index", 0))), Rule(<<"x">>, Param(Zero, Zero)),
      Otherwise(Param(Zero, Index("Index", 1)))>>

\* demangleDependentMemberTypeName, with the base just read
MemberOfBase == <<Under, Parse("MemberName"), Close("DependentMemberType", 0)>>

MemberNameRules ==
    <<Rule(<<"S">>, <<Parse("Substitution"), Depends("member")>>),
      Rule(<<"P">>, <<StartNode, Parse("ProtocolName"), Identifier("DependentAssociatedTypeRef"), Push>>),
      Otherwise(Named("DependentAssociatedTypeRef") \o <<Push>>)>>

AssociatedSimple == <<Parse("GenericParamIndex")>> \o Adopt("Type") \o MemberOfBase
AssociatedCompound == <<Parse("GenericParamIndex"), Parse("AssociatedChain")>>

AssociatedChainRules ==
    <<Rule(<<"_">>, <<>>),
      Otherwise(Adopt("Type") \o MemberOfBase \o <<Parse("AssociatedChain")>>)>>

DependentTypeRules ==
    <<Ahead({"d", "_"} \union Range(Digits) \union Name, <<Parse("GenericParamIndex")>>),
      Otherwise(<<Parse("Type")>> \o MemberOfBase)>>

ConstrainedTypeRules ==
    <<Rule(<<"w">>, <<StartNode>> \o AssociatedSimple \o <<Close("Type", 0)>>),
      Rule(<<"W">>, <<StartNode>> \o AssociatedCompound \o <<Close("Type", 0)>>),
      Otherwise(<<StartNode, Parse("GenericParamIndex"), Close("Type", 0)>>)>>

SignatureRules ==
    <<Otherwise(Node("DependentGenericSignature", <<Parse("Counts"), Parse("Requirements")>>))>>

CountsRules ==
    <<Ahead({"R", "r"}, <<Leaf("DependentGenericParamCount", <<>>, 1)>>),
      Otherwise(<<Parse("Count"), Parse("MoreCounts")>>)>>

MoreCountsRules ==
    <<Ahead({"R", "r"}, <<>>), Otherwise(<<Parse("Count"), Parse("MoreCounts")>>)>>

CountRules ==
    <<Rule(<<"z">>, <<Leaf("DependentGenericParamCount", <<>>, 0)>>),
      Otherwise(<<Index("DependentGenericParamCount", 1)>>)>>

RequirementsRules ==
    <<Rule(<<"r">>, <<>>), Rule(<<"R">>, <<Many("Requirement", "r")>>)>>

RequirementRules ==
    <<Otherwise(<<StartNode, Parse("ConstrainedType"), Parse("Constraint")>>)>>

ConstraintRules ==
    <<Rule(<<"z">>, <<Parse("Type"), Close("DependentGenericSameTypeRequirement", 0)>>),
      Ahead({"C"}, <<Parse("Type"), Close("DependentGenericConformanceRequirement", 0)>>),
      Rule(<<"S">>, <<StartNode, Parse("Substitution"), Depends("constraint"), Close("Type", 0),
                      Close("DependentGenericConformanceRequirement", 0)>>),
      Otherwise(<<Parse("ProtocolName"), Close("DependentGenericConformanceRequirement", 0)>>)>>

SelfType == Adopt("SelfTypeRef") \o <<Push>>
AssociatedType == <<Under, Parse("Identifier"), Close("AssociatedTypeRef", 0), Push>>

ArchetypeRules ==
    <<Rule(<<"P">>, <<Parse("ProtocolName")>> \o SelfType),
      Rule(<<"Q">>, <<Parse("Archetype")>> \o AssociatedType),
      Rule(<<"S">>, <<Parse("Substitution"), Depends("archetype")>>),
      Rule(<<"s">>, TextNode("Module", "Swift") \o AssociatedType),
      Rule(<<"d">>, Node("ArchetypeRef", <<Index("Index", 1), Index("Index", 0)>>)),
      Rule(<<"q">>, Node("QualifiedArchetype",
          <<Index("Number", 0), StartNode, Parse("Context"), Close("DeclContext", 0)>>)),
      Otherwise(Node("ArchetypeRef", <<Zero, Index("Index", 0)>>))>>

\* The kinds of nodes that are pushed.
Substitutable ==
    {"Module", "Class", "Structure", "Enum", "Protocol", "TypeAlias", "SelfTypeRef",
     "AssociatedTypeRef", "DependentAssociatedTypeRef"}

\* What follows a substitution, by the kind of the node it stands for.
AfterSubstitution ==
    [archetype |-> [kind \in Substitutable |-> IF kind = "Protocol" THEN SelfType
                                               ELSE AssociatedType],
     module |-> "Module" :> <<>>,
     protocol |-> ("Protocol" :> <<>> @@ "Module" :> ProtocolGivenContext),
     member |-> "DependentAssociatedTypeRef" :> <<>>,
     constraint |-> ("Protocol" :> <<>> @@ "Class" :> <<>> @@ "Module" :> ProtocolGivenContext)]

-----------------------------------------------------------------------------
(* Types.                                                                    *)
TypeRules == <<Otherwise(<<StartNode, Parse("TypeImpl"), Close("Type", 0)>>)>>

Builtin(on, parts) == Rule(<<"B">> \o on, Node("BuiltinTypeName", parts))
BuiltinWord(letter, text) == Builtin(<<letter>>, TextNode("Text", text))
Sized(text) == TextNode("Text", text) \o <<Number("Number"), Expect("_")>>

BuiltinRules ==
    <<BuiltinWord("b", "Builtin.BridgeObject"), BuiltinWord("B", "Builtin.UnsafeValueBuffer"),
      Builtin(<<"f">>, Sized("Builtin.Float")), Builtin(<<"i">>, Sized("Builtin.Int")),
      Builtin(<<"v">>, TextNode("Text", "Builtin.Vec") \o <<Number("Number"), Parse("VectorOf")>>),
      BuiltinWord("O", "Builtin.UnknownObject"), BuiltinWord("o", "Builtin.NativeObject"),
      BuiltinWord("p", "Builtin.RawPointer"), BuiltinWord("w", "Builtin.Word")>>

VectorOfRules ==
    <<Rule(<<"B", "i">>, Sized("xInt")), Rule(<<"B", "f">>, Sized("xFloat")),
      Rule(<<"B", "p">>, TextNode("Text", "xRawPointer"))>>

ThrowsRules == <<Rule(<<"z">>, <<Leaf("ThrowsAnnotation", <<>>, 0)>>), Otherwise(<<>>)>>

FunctionOf(on, kind) ==
    Rule(on, Node(kind, <<Parse("Throws"), StartNode, Parse("Type"), Close("ArgumentTuple", 0),
                          StartNode, Parse("Type"), Close("ReturnType", 0)>>))

FunctionTypeRules ==
    <<FunctionOf(<<"b">>, "ObjCBlock"), FunctionOf(<<"c">>, "CFunctionPointer"),
      FunctionOf(<<"F">>, "FunctionType"), FunctionOf(<<"f">>, "UncurriedFunctionType"),
      FunctionOf(<<"K">>, "AutoClosureType"), FunctionOf(<<"X", "f">>, "ThinFunctionType")>>

MetatypeRules ==
    <<Wraps(<<"M">>, "Metatype", "Type"),
      Rule(<<"X", "M">>, Node("Metatype", <<Parse("Representation"), Parse("Type")>>)),
      Wraps(<<"P", "M">>, "ExistentialMetatype", "Type"),
      Rule(<<"X", "P", "M">>, Node("ExistentialMetatype", <<Parse("Representation"), Parse("Type")>>))>>

RepresentationRules ==
    <<Rule(<<"t">>, TextNode("MetatypeRepresentation", "@thin")),
      Rule(<<"T">>, TextNode("MetatypeRepresentation", "@thick")),
      Rule(<<"o">>, TextNode("MetatypeRepresentation", "@objc_metatype")), Otherwise(<<Die>>)>>

ProtocolList ==
    Node("ProtocolList", <<StartNode, Many("ProtocolName", "_"), Close("TypeList", 0)>>)

GenericRules ==
    <<Rule(<<"G">>, <<StartNode, Parse("Type"), StartNode, Many("Type", "_"), Close("TypeList", 0),
                      CloseBound>>),
      Rule(<<"Q">>, <<Parse("Archetype")>>), Rule(<<"q">>, <<Parse("DependentType")>>),
      Rule(<<"x">>, Param(Zero, Zero)), Rule(<<"w">>, AssociatedSimple),
      Rule(<<"W">>, AssociatedCompound),
      Rule(<<"u">>, Node("DependentGenericType", <<Parse("Signature"), Parse("Type")>>))>>

TupleRules ==
    <<Rule(<<"T">>, Node("NonVariadicTuple", <<Many("TupleElement", "_")>>)),
      Rule(<<"t">>, Node("VariadicTuple", <<Many("TupleElement", "_")>>))>>

TupleElementRules ==
    <<Ahead(Name \union Range(Digits) \union {"o"},
          Node("TupleElement", Named("TupleElementName") \o <<Parse("Type")>>)),
      Otherwise(Node("TupleElement", <<Parse("Type")>>))>>

NominalRules ==
    <<Rule(<<"C">>, Declared("Class")), Rule(<<"V">>, Declared("Structure")),
      Rule(<<"O">>, Declared("Enum")), Rule(<<"a">>, Declared("TypeAlias")),
      Rule(<<"S">>, <<Parse("Substitution")>>)>>

TypeImplRules ==
    BuiltinRules \o FunctionTypeRules \o MetatypeRules
    \o <<Wraps(<<"D">>, "DynamicSelf", "Type"),
         Rule(<<"E", "R", "R">>, <<Leaf("ErrorType", <<>>, 0)>>),
         Wraps(<<"X", "b">>, "SILBoxType", "Type"), Rule(<<"P">>, ProtocolList),
         Rule(<<"X", "P">>, ProtocolList), Wraps(<<"R">>, "InOut", "TypeImpl"),
         Wraps(<<"X", "o">>, "Unowned", "Type"), Wraps(<<"X", "u">>, "Unmanaged", "Type"),
         Wraps(<<"X", "w">>, "Weak", "Type"), Rule(<<"X", "F">>, <<Parse("ImplFunctionType")>>)>>
    \o GenericRules \o TupleRules \o NominalRules

-----------------------------------------------------------------------------
(* The types of lowered functions.                                           *)
ImplFunctionTypeRules ==
    <<Otherwise(Node("ImplFunctionType",
          <<Parse("CalleeConvention"), Parse("ImplAttribute"), Parse("NoReturn"), Parse("ImplGenerics"),
            Expect("_"), Many("ImplParameter", "_"), Many("ImplResult", "_")>>))>>

ImplWords(kind, letters, words) ==
    [i \in 1..Len(letters) |-> Rule(letters[i], TextNode(kind, words[i]))]

CalleeConventionRules ==
    ImplWords("ImplConvention", <<<<"t">>, <<"d">>, <<"g">>, <<"o">>>>,
        <<"@convention(thin)", "@callee_unowned", "@callee_guaranteed", "@callee_owned">>)

ParameterConventionRules ==
    ImplWords("ImplConvention", <<<<"d">>, <<"g">>, <<"e">>, <<"i">>, <<"l">>, <<"o">>>>,
        <<"@unowned", "@guaranteed", "@deallocating", "@in", "@inout", "@owned">>)

\* The second line for d never applies: the first has taken the letter.
ResultConventionRules ==
    ImplWords("ImplConvention", <<<<"a">>, <<"d">>, <<"d">>, <<"i">>, <<"o">>>>,
        <<"@autoreleased", "@unowned", "@unowned_inner_pointer", "@out", "@owned">>)

ImplAttributeRules ==
    ImplWords("ImplFunctionAttribute",
        <<<<"C", "b">>, <<"C", "c">>, <<"C", "m">>, <<"C", "O">>, <<"C", "w">>>>,
        <<"@convention(block)", "@convention(c)", "@convention(method)",
          "@convention(objc_method)", "@convention(witness_method)">>)
    \o <<Rule(<<"C">>, <<Refuse>>), Otherwise(<<>>)>>

NoReturnRules ==
    <<Rule(<<"N">>, TextNode("ImplFunctionAttribute", "@noreturn")), Otherwise(<<>>)>>
ImplGenericsRules == <<Rule(<<"G">>, <<Parse("Signature")>>), Otherwise(<<>>)>>

ImplParameterRules ==
    <<Otherwise(Node("ImplParameter", <<Parse("ParameterConvention"), Parse("Type")>>))>>

ImplResultRules ==
    <<Rule(<<"z">>, Node("ImplErrorResult", <<Parse("ResultConvention"), Parse("Type")>>)),
      Otherwise(Node("ImplResult", <<Parse("ResultConvention"), Parse("Type")>>))>>

Rules ==
    [TopLevel |-> TopLevelRules, Prefix |-> PrefixRules, NextSpecialized |-> NextSpecializedRules,
     Specialized |-> SpecializedRules, GenericParam |-> GenericParamRules,
     FunctionParam |-> FunctionParamRules, ParamOptions |-> ParamOptionsRules,
     ConstantProp |-> ConstantPropRules, Global |-> GlobalRules,
     Reabstraction |-> ReabstractionRules, DeclName |-> DeclNameRules,
     Identifier |-> IdentifierRules, Substitution |-> SubstitutionRules, Module |-> ModuleRules,
     NominalType |-> NominalTypeRules, ProtocolName |-> ProtocolNameRules,
     Context |-> ContextRules, Conformance |-> ConformanceRules, Entity |-> EntityRules,
     EntityNameF |-> NameRules("Function"), EntityNamev |-> NameRules("Variable"),
     EntityNamei |-> NameRules("Subscript"), EntityNameI |-> InitializerNameRules,
     GenericParamIndex |-> GenericParamIndexRules, MemberName |-> MemberNameRules,
     AssociatedChain |-> AssociatedChainRules, DependentType |-> DependentTypeRules,
     ConstrainedType |-> ConstrainedTypeRules, Signature |-> SignatureRules,
     Counts |-> CountsRules, MoreCounts |-> MoreCountsRules, Count |-> CountRules,
     Requirements |-> RequirementsRules, Requirement |-> RequirementRules,
     Constraint |-> ConstraintRules, Archetype |-> ArchetypeRules, Type |-> TypeRules,
     TypeImpl |-> TypeImplRules, VectorOf |-> VectorOfRules, Throws |-> ThrowsRules,
     Representation |-> RepresentationRules, TupleElement |-> TupleElementRules,
     ImplFunctionType |-> ImplFunctionTypeRules, CalleeConvention |-> CalleeConventionRules,
     ParameterConvention |-> ParameterConventionRules,
     ResultConvention |-> ResultConventionRules, ImplAttribute |-> ImplAttributeRules,
     NoReturn |-> NoReturnRules, ImplGenerics |-> ImplGenericsRules,
     ImplParameter |-> ImplParameterRules, ImplResult |-> ImplResultRules]

-----------------------------------------------------------------------------
(* The parser at work.                                                       *)
InitFor(name) ==
    /\ mangled = name
    /\ goals = <<Parse("TopLevel")>>
    /\ nodes = <<>>
    /\ substitutions = <<>>
    /\ outcome = "reading"

Next1(token) == mangled # <<>> /\ Head(mangled) = token
NextIn(tokens) == mangled # <<>> /\ Head(mangled) \in tokens
Top == Last(nodes)
LastMark == CHOOSE i \in DOMAIN nodes :
                nodes[i] = Mark /\ \A j \in i + 1..Len(nodes) : nodes[j] # Mark
Kids == SubSeq(nodes, LastMark + 1, Len(nodes))
Below == SubSeq(nodes, 1, LastMark - 1)

Applies(rule) ==
    /\ IsPrefix(rule.on, mangled)
    /\ rule.ahead # {} => NextIn(rule.ahead)

\* A number or nothing, then the underscore that ends an index.
IndexLength == IF Next1("_") THEN 1 ELSE 2
HasIndex ==
    \/ Next1("_")
    \/ Len(mangled) > 1 /\ mangled[1] \in Range(Digits) /\ mangled[2] = "_"
IndexValue == IF Next1("_") THEN 0 ELSE Value(Head(mangled)) + 1
UntilLength == CHOOSE i \in DOMAIN mangled :
                   mangled[i] = "_" /\ \A j \in 1..i - 1 : mangled[j] # "_"
Bound == "Class" :> "BoundGenericClass" @@ "Structure" :> "BoundGenericStructure"
         @@ "Enum" :> "BoundGenericEnum"

\* The characters that the letters from a to z stand for in an operator, where
\* they stand for one.
op_char_table ==
    <<38, 32, 64, 47, 61, 32, 62, 32, 32, 32, 32, 60, 42, 33, 124, 43, 63, 37, 45, 126, 32, 32, 32,
      94, 32, 46>>
IsOperatorByte(byte) == byte > 127 \/ (byte \in 97..122 /\ op_char_table[byte - 96] # 32)
OperatorByte(byte) == IF byte > 127 THEN byte ELSE op_char_table[byte - 96]

Bytes(name, encoded) == IF encoded THEN decodePunycodeUTF8(Spelling[name]) ELSE Spelling[name]
Readable(kind, name, encoded) ==
    /\ Bytes(name, encoded) # <<>>
    /\ kind \in OperatorKinds => \A byte \in Range(Bytes(name, encoded)) : IsOperatorByte(byte)
IdentifierText(kind, name, encoded) ==
    LET bytes == Bytes(name, encoded)
    IN IF kind \in OperatorKinds THEN <<ToString([i \in DOMAIN bytes |-> OperatorByte(bytes[i])])>>
       ELSE IF encoded THEN <<ToString(bytes)>> ELSE <<name>>

The == Head(goals)
\* Operators have their X before the o.
EncodedNext == Next1("X") /\ The.what \notin OperatorKinds

\* What the current goal needs of the name and of the nodes.
Possible ==
    CASE The.do = "read" -> \E rule \in Range(Rules[The.what]) : Applies(rule)
      [] The.do = "expect" -> Next1(The.what)
      [] The.do = "identifier" ->
            IF EncodedNext THEN Len(mangled) > 1 /\ mangled[2] \in Name
                                /\ Readable(The.what, mangled[2], TRUE)
            ELSE NextIn(Name) /\ Readable(The.what, mangled[1], FALSE)
      [] The.do = "encoded" -> NextIn(Name) /\ Readable(The.what, mangled[1], TRUE)
      [] The.do = "number" -> NextIn(Range(Digits))
      [] The.do = "until" -> "_" \in Range(mangled)
      [] The.do = "index" -> HasIndex
      [] The.do = "substitution" -> HasIndex /\ IndexValue < Len(substitutions)
      [] The.do = "depends" -> Top.kind \in DOMAIN AfterSubstitution[The.what]
      [] The.do = "close bound" -> Kids[1].kids[1].kind \in DOMAIN Bound
      [] The.do = "refuse" -> FALSE
      [] OTHER -> TRUE

Doing(what) == outcome = "reading" /\ goals # <<>> /\ The.do = what /\ Possible

\* The current goal gives way to others, and so many tokens are consumed.
Continue(parts, length) ==
    /\ goals' = parts \o Tail(goals)
    /\ mangled' = SubSeq(mangled, length + 1, Len(mangled))
    /\ UNCHANGED outcome
Builds(stack) == nodes' = stack /\ UNCHANGED substitutions
Adds(node) == Builds(Append(nodes, node))
Closes(kind, text, index) == Builds(Append(Below, NodeOf(kind, text, index, Kids)))

\* A function is called and takes the first of its rules that applies.
Call ==
    /\ Doing("read")
    /\ LET rules == Rules[The.what]
           i == CHOOSE i \in DOMAIN rules :
                    Applies(rules[i]) /\ \A j \in 1..i - 1 : ~Applies(rules[j])
       IN Continue(rules[i].goals, Len(rules[i].on))
    /\ UNCHANGED <<nodes, substitutions>>

Loop ==
    /\ Doing("many")
    /\ IF Next1(The.text[1]) THEN Continue(<<>>, 1) ELSE Continue(<<Parse(The.what), The>>, 0)
    /\ UNCHANGED <<nodes, substitutions>>

TakeToken ==
    /\ Doing("expect") /\ Continue(<<>>, 1)
    /\ UNCHANGED <<nodes, substitutions>>

TakeIdentifier ==
    LET takes(length, encoded) ==
            /\ Continue(<<>>, length)
            /\ Closes(The.what, IdentifierText(The.what, mangled[length], encoded), 0)
    IN \/ Doing("identifier") /\ IF EncodedNext THEN takes(2, TRUE) ELSE takes(1, FALSE)
       \/ Doing("encoded") /\ takes(1, TRUE)

TakeNumber ==
    \/ Doing("number") /\ Continue(<<>>, 1)
       /\ Adds(NodeOf(The.what, <<>>, Value(Head(mangled)), <<>>))
    \/ Doing("index") /\ Continue(<<>>, IndexLength)
       /\ Adds(NodeOf(The.what, <<>>, IndexValue + The.index, <<>>))

TakeText ==
    \/ Doing("until") /\ Continue(<<>>, UntilLength)
       /\ Adds(NodeOf(The.what, SubSeq(mangled, 1, UntilLength - 1), 0, <<>>))
    \/ Doing("suffix") /\ Continue(<<>>, Len(mangled))
       /\ IF mangled = <<>> THEN UNCHANGED <<nodes, substitutions>>
          ELSE Adds(NodeOf("Suffix", mangled, 0, <<>>))

MakeNode ==
    /\ \/ Doing("leaf") /\ Adds(NodeOf(The.what, The.text, The.index, <<>>))
       \/ Doing("open") /\ Adds(Mark)
       \/ Doing("under") /\ Builds(Front(nodes) \o <<Mark, Top>>)
       \/ Doing("swap") /\ Builds(SubSeq(nodes, 1, Len(nodes) - 2) \o <<Top, nodes[Len(nodes) - 1]>>)
       \/ Doing("close") /\ Closes(The.what, <<>>, The.index)
       \/ Doing("close counted")
          /\ Closes(The.what, <<>>, Cardinality({i \in DOMAIN Below : nodes[i].kind = The.what}))
       \/ Doing("close bound") /\ Closes(Bound[Kids[1].kids[1].kind], <<>>, 0)
    /\ Continue(<<>>, 0)

PushSubstitution ==
    /\ Doing("push") /\ Continue(<<>>, 0)
    /\ substitutions' = Append(substitutions, Top)
    /\ UNCHANGED nodes

ClearSubstitutions ==
    /\ Doing("clear") /\ Continue(<<>>, 0)
    /\ substitutions' = <<>>
    /\ UNCHANGED nodes

TakeSubstitution ==
    /\ Doing("substitution") /\ Continue(<<>>, IndexLength)
    /\ Adds(substitutions[IndexValue + 1])

\* What the caller does with a substitution depends on what it stands for.
LookAtSubstitution ==
    /\ Doing("depends") /\ Continue(AfterSubstitution[The.what][Top.kind], 0)
    /\ UNCHANGED <<nodes, substitutions>>

\* A function returns null, and so do all that called it.  The one exception
\* looks at the kind of a substitution before it knows that there is one.
GiveUp ==
    /\ outcome = "reading" /\ goals # <<>> /\ ~Possible
    /\ outcome' = IF The.do = "substitution" /\ Len(goals) > 1 /\ goals[2] = Depends("member")
                  THEN "aborted" ELSE "null"
    /\ UNCHANGED <<mangled, goals, nodes, substitutions>>

\* unreachable()
Unreachable ==
    /\ Doing("abort")
    /\ outcome' = "aborted"
    /\ UNCHANGED <<mangled, goals, nodes, substitutions>>

Finish ==
    /\ outcome = "reading" /\ goals = <<>>
    /\ outcome' = "read"
    /\ UNCHANGED <<mangled, goals, nodes, substitutions>>

Demangle ==
    \/ Call \/ Loop
    \/ TakeToken \/ TakeIdentifier \/ TakeNumber \/ TakeText \/ TakeSubstitution
    \/ MakeNode \/ PushSubstitution \/ ClearSubstitutions \/ LookAtSubstitution
    \/ GiveUp \/ Unreachable \/ Finish
=============================================================================
