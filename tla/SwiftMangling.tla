--------------------------- MODULE SwiftMangling ----------------------------
(* How the Swift compiler writes a name, from the tree that the demangler    *)
(* promises to give back: "Remangle a demangled parse tree.  This should     *)
(* always round-trip perfectly with demangleSymbolAsNode" (Demangle.h).  The *)
(* function that comment describes is not in the repository, so this module  *)
(* is written from the grammar in the comments of Demangle.cpp and from what *)
(* the parser accepts.                                                       *)
EXTENDS Punycode, Naturals, Sequences, SequencesExt, FiniteSetsExt, TLC

N(kind, kids) == [kind |-> kind, text |-> <<>>, index |-> 0, kids |-> kids]
T(kind, text) == [kind |-> kind, text |-> <<text>>, index |-> 0, kids |-> <<>>]
I(kind, index) == [kind |-> kind, text |-> <<>>, index |-> index, kids |-> <<>>]

Count(n) == <<"0", "1", "2", "3", "4", "5", "6", "7", "8", "9">>[n + 1]
\* Identifiers with letters beyond ASCII, by their codes, and operators.
WordCodes == {97, 233, 8730, 128512}
TheWords == {w \in UNION {[1..n -> WordCodes] : n \in 1..3} : \E i \in DOMAIN w : w[i] > 127}
TheOperators == UNION {[1..n -> {112, 115, 8730}] : n \in 1..2}
Ascii(w) == \A i \in DOMAIN w : w[i] < 128

WordToken(w) == ToString(IF Ascii(w) THEN w ELSE encodePunycode(w))
WordText(w) == ToString(encodeToUTF8(w))
OperatorText(w) ==
    ToString(encodeToUTF8([i \in DOMAIN w |->
        IF w[i] = 112 THEN 43 ELSE IF w[i] = 115 THEN 45 ELSE w[i]]))
\* The token that stands for a text in a name.
WordOf == [text \in {WordText(w) : w \in TheWords} |-> CHOOSE w \in TheWords : WordText(w) = text]
OperatorOf ==
    [text \in {OperatorText(w) : w \in TheOperators} |->
        CHOOSE w \in TheOperators : OperatorText(w) = text]

IndexText(n) == IF n = 0 THEN <<"_">> ELSE <<Count(n - 1), "_">>

(* A name is made of tokens and of nodes, each written for its position.     *)
Tokens(tokens) == <<[tokens |-> tokens, node |-> <<>>, position |-> ""]>>
At(position, node) == <<[tokens |-> <<>>, node |-> <<node>>, position |-> position]>>
Plain(nodes) == [i \in DOMAIN nodes |-> At("type", nodes[i])[1]]

\* Kinds that are written as a marker before their children.
Marker ==
    [Class |-> <<"C">>, Structure |-> <<"V">>, Enum |-> <<"O">>, TypeAlias |-> <<"a">>,
     ObjCBlock |-> <<"b">>, CFunctionPointer |-> <<"c">>, FunctionType |-> <<"F">>,
     UncurriedFunctionType |-> <<"f">>, AutoClosureType |-> <<"K">>,
     ThinFunctionType |-> <<"X", "f">>, ThrowsAnnotation |-> <<"z">>, ArgumentTuple |-> <<>>,
     ReturnType |-> <<>>, InOut |-> <<"R">>, Weak |-> <<"X", "w">>, Unowned |-> <<"X", "o">>,
     Unmanaged |-> <<"X", "u">>, SILBoxType |-> <<"X", "b">>, DynamicSelf |-> <<"D">>,
     ErrorType |-> <<"E", "R", "R">>, BoundGenericClass |-> <<"G">>,
     BoundGenericStructure |-> <<"G">>, BoundGenericEnum |-> <<"G">>, ProtocolList |-> <<"P">>,
     TupleElement |-> <<>>, DependentGenericType |-> <<"u">>, DeclContext |-> <<>>,
     Static |-> <<"Z">>, PrivateDeclName |-> <<"P">>, LocalDeclName |-> <<"L">>,
     ImplParameter |-> <<>>, ImplResult |-> <<>>, ImplErrorResult |-> <<"z">>,
     GenericTypeMetadataPattern |-> <<"M", "P">>, TypeMetadataAccessFunction |-> <<"M", "a">>,
     TypeMetadataLazyCache |-> <<"M", "L">>, Metaclass |-> <<"M", "m">>,
     NominalTypeDescriptor |-> <<"M", "n">>, FullTypeMetadata |-> <<"M", "f">>,
     TypeMetadata |-> <<"M">>, TypeMangling |-> <<"t">>, ValueWitnessTable |-> <<"W", "V">>,
     WitnessTableOffset |-> <<"W", "o">>, ProtocolWitnessTable |-> <<"W", "P">>,
     GenericProtocolWitnessTable |-> <<"W", "G">>,
     GenericProtocolWitnessTableInstantiationFunction |-> <<"W", "I">>,
     LazyProtocolWitnessTableAccessor |-> <<"W", "l">>,
     LazyProtocolWitnessTableCacheVariable |-> <<"W", "L">>,
     ProtocolWitnessTableAccessor |-> <<"W", "a">>,
     AssociatedTypeMetadataAccessor |-> <<"W", "t">>, ProtocolWitness |-> <<"T", "W">>,
     ObjCAttribute |-> <<"T", "o">>, NonObjCAttribute |-> <<"T", "O">>,
     DynamicAttribute |-> <<"T", "D">>, DirectMethodReferenceAttribute |-> <<"T", "d">>,
     VTableAttribute |-> <<"T", "V">>]

\* Kinds whose children end with an underscore.
Listed == [TypeList |-> <<>>, NonVariadicTuple |-> <<"T">>, VariadicTuple |-> <<"t">>,
           GenericSpecializationParam |-> <<>>]

\* The kind of an entity and what its name begins with.
EntityCode ==
    [Function |-> <<"F", <<>>>>, Variable |-> <<"v", <<>>>>, Subscript |-> <<"i", <<>>>>,
     Deallocator |-> <<"F", <<"D">>>>, Destructor |-> <<"F", <<"d">>>>,
     IVarInitializer |-> <<"F", <<"e">>>>, IVarDestroyer |-> <<"F", <<"E">>>>,
     Allocator |-> <<"F", <<"C">>>>, Constructor |-> <<"F", <<"c">>>>,
     OwningMutableAddressor |-> <<"F", <<"a", "O">>>>,
     NativeOwningMutableAddressor |-> <<"F", <<"a", "o">>>>,
     NativePinningMutableAddressor |-> <<"F", <<"a", "p">>>>,
     UnsafeMutableAddressor |-> <<"F", <<"a", "u">>>>, OwningAddressor |-> <<"F", <<"l", "O">>>>,
     NativeOwningAddressor |-> <<"F", <<"l", "o">>>>,
     NativePinningAddressor |-> <<"F", <<"l", "p">>>>, UnsafeAddressor |-> <<"F", <<"l", "u">>>>,
     Getter |-> <<"F", <<"g">>>>, GlobalGetter |-> <<"F", <<"G">>>>, Setter |-> <<"F", <<"s">>>>,
     MaterializeForSet |-> <<"F", <<"m">>>>, WillSet |-> <<"F", <<"w">>>>,
     DidSet |-> <<"F", <<"W">>>>, ExplicitClosure |-> <<"F", <<"U">>>>,
     ImplicitClosure |-> <<"F", <<"u">>>>, Initializer |-> <<"I", <<"i">>>>,
     DefaultArgumentInitializer |-> <<"I", <<"A">>>>]

OperatorMark == [PrefixOperator |-> "p", PostfixOperator |-> "P", InfixOperator |-> "i"]

\* Words, each with its letters.
Words ==
    "@thin" :> <<"t">> @@ "@thick" :> <<"T">> @@ "@objc_metatype" :> <<"o">>
    @@ "Builtin.BridgeObject" :> <<"B", "b">> @@ "Builtin.UnsafeValueBuffer" :> <<"B", "B">>
    @@ "Builtin.Float" :> <<"B", "f">> @@ "Builtin.Int" :> <<"B", "i">>
    @@ "Builtin.Vec" :> <<"B", "v">> @@ "xInt" :> <<"B", "i">> @@ "xFloat" :> <<"B", "f">>
    @@ "xRawPointer" :> <<"B", "p">> @@ "Builtin.UnknownObject" :> <<"B", "O">>
    @@ "Builtin.NativeObject" :> <<"B", "o">> @@ "Builtin.RawPointer" :> <<"B", "p">>
    @@ "Builtin.Word" :> <<"B", "w">>
    @@ "@convention(thin)" :> <<"t">> @@ "@callee_unowned" :> <<"d">>
    @@ "@callee_guaranteed" :> <<"g">> @@ "@callee_owned" :> <<"o">> @@ "@unowned" :> <<"d">>
    @@ "@guaranteed" :> <<"g">> @@ "@deallocating" :> <<"e">> @@ "@in" :> <<"i">>
    @@ "@inout" :> <<"l">> @@ "@owned" :> <<"o">> @@ "@autoreleased" :> <<"a">>
    @@ "@out" :> <<"i">> @@ "@convention(block)" :> <<"C", "b">>
    @@ "@convention(c)" :> <<"C", "c">> @@ "@convention(method)" :> <<"C", "m">>
    @@ "@convention(objc_method)" :> <<"C", "O">>
    @@ "@convention(witness_method)" :> <<"C", "w">> @@ "@noreturn" :> <<"N">>

WitnessLetters ==
    <<<<"a", "l">>, <<"c", "a">>, <<"t", "a">>, <<"d", "e">>, <<"x", "x">>, <<"X", "X">>,
      <<"C", "P">>, <<"C", "p">>, <<"c", "p">>, <<"T", "k">>, <<"t", "k">>, <<"p", "r">>,
      <<"T", "K">>, <<"X", "x">>, <<"C", "c">>, <<"T", "t">>, <<"t", "T">>, <<"x", "s">>,
      <<"x", "g">>, <<"u", "g">>, <<"u", "p">>>>

StandardTypes ==
    <<<<"a", "Structure", "Array">>, <<"b", "Structure", "Bool">>,
      <<"c", "Structure", "UnicodeScalar">>, <<"d", "Structure", "Double">>,
      <<"f", "Structure", "Float">>, <<"i", "Structure", "Int">>,
      <<"P", "Structure", "UnsafePointer">>, <<"p", "Structure", "UnsafeMutablePointer">>,
      <<"q", "Enum", "Optional">>, <<"Q", "Enum", "ImplicitlyUnwrappedOptional">>,
      <<"R", "Structure", "UnsafeBufferPointer">>,
      <<"r", "Structure", "UnsafeMutableBufferPointer">>, <<"S", "Structure", "String">>,
      <<"u", "Structure", "UInt">>>>

StandardType(i) ==
    N(StandardTypes[i][2], <<T("Module", "Swift"), T("Identifier", StandardTypes[i][3])>>)

\* What has a short form of its own.
Standard ==
    T("Module", "Swift") :> <<"s">> @@ T("Module", "__ObjC") :> <<"S", "o">>
    @@ T("Module", "__C") :> <<"S", "C">>
    @@ [node \in {StandardType(i) : i \in DOMAIN StandardTypes} |->
            <<"S", StandardTypes[CHOOSE i \in DOMAIN StandardTypes : StandardType(i) = node][1]>>]

Substitutable ==
    {"Module", "Class", "Structure", "Enum", "Protocol", "TypeAlias", "SelfTypeRef",
     "AssociatedTypeRef", "DependentAssociatedTypeRef"}

ParamText(n) ==
    LET depth == n.kids[1].index  index == n.kids[2].index
    IN IF depth > 0 THEN <<"d">> \o IndexText(depth - 1) \o IndexText(index)
       ELSE IF index = 0 THEN <<"x">> ELSE IndexText(index - 1)

\* A generic parameter and the names of associated types that lead from it.
RECURSIVE Chain(_)
Chain(n) ==
    IF n.kind = "DependentMemberType" THEN Append(Chain(n.kids[1].kids[1]), n.kids[2]) ELSE <<n>>

MemberChain(chain) ==
    IF Len(chain) = 2 THEN Tokens(<<"w">> \o ParamText(chain[1])) \o Plain(Tail(chain))
    ELSE Tokens(<<"W">> \o ParamText(chain[1])) \o Plain(Tail(chain)) \o Tokens(<<"_">>)

OfKinds(n, kinds) == SelectSeq(n.kids, LAMBDA kid : kid.kind \in kinds)

Counts(n) ==
    LET counts == OfKinds(n, {"DependentGenericParamCount"})
    IN IF Len(counts) = 1 /\ counts[1].index = 1 THEN <<>>
       ELSE FlattenSeq([i \in DOMAIN counts |->
                IF counts[i].index = 0 THEN <<"z">> ELSE IndexText(counts[i].index - 1)])

Requirement == {"DependentGenericSameTypeRequirement", "DependentGenericConformanceRequirement"}

\* Parameters of a specialized function, by the index of their kind.
Constant == <<<<"f", "r">>, <<"g">>, <<"i">>, <<"f", "l">>, <<"s">>>>
Letter(index, bit, letter) == IF (index \div bit) % 2 = 1 THEN <<letter>> ELSE <<>>
ParamOptions(index) ==
    IF index = 6 THEN <<"i">> ELSE IF index = 7 THEN <<"k">>
    ELSE Letter(index, 64, "d") \o Letter(index, 128, "g") \o Letter(index, 256, "s")
FunctionParam(n) ==
    IF n.kids = <<>> THEN Tokens(<<"n", "_">>)
    ELSE LET which == n.kids[1].index  payload == Plain(Tail(n.kids))
         IN CASE which < 4 -> Tokens(<<"c", "p">> \o Constant[which + 1]) \o payload \o Tokens(<<"_">>)
              [] which = 4 ->
                    Tokens(<<"c", "p", "s", "e", IF payload[1].node[1].text = <<"u8">> THEN "0" ELSE "1",
                             "v">>) \o Tail(payload) \o Tokens(<<"_">>)
              [] which = 5 -> Tokens(<<"c", "l">>) \o payload \o Tokens(<<"_">>)
              [] OTHER -> Tokens(ParamOptions(which) \o <<"_">>)

\* Attributes stand before the name, specializations with names of their own.
Whole(n) ==
    LET special == OfKinds(n, {"GenericSpecialization", "FunctionSignatureSpecialization"})
        suffix == OfKinds(n, {"Suffix"})
        rest == SelectSeq(n.kids, LAMBDA kid : kid \notin Range(special) \union Range(suffix))
    IN Tokens(<<"_", "T">>)
       \o FlattenSeq([i \in DOMAIN special |->
              Tokens(IF i = 1 THEN <<"T", "S">> ELSE <<"_", "T", "T", "S">>)
              \o At("fresh", special[i])])
       \o (IF special = <<>> THEN <<>> ELSE Tokens(<<"_", "T">>))
       \o FlattenSeq([i \in DOMAIN rest |-> At("fresh", rest[i])])
       \o FlattenSeq([i \in DOMAIN suffix |-> Tokens(suffix[i].text)])

Lowered(n) ==
    LET some(kinds) == Plain(OfKinds(n, kinds))  generics == some({"DependentGenericSignature"})
    IN Tokens(<<"X", "F">>) \o some({"ImplConvention"}) \o some({"ImplFunctionAttribute"})
       \o (IF generics = <<>> THEN <<>> ELSE Tokens(<<"G">>)) \o generics \o Tokens(<<"_">>)
       \o some({"ImplParameter"}) \o Tokens(<<"_">>)
       \o some({"ImplResult", "ImplErrorResult"}) \o Tokens(<<"_">>)

Entity(n) ==
    Tokens(<<EntityCode[n.kind][1]>>) \o At("type", n.kids[1]) \o Tokens(EntityCode[n.kind][2])
    \o Plain(Tail(n.kids))

\* The parts of a node, by its position and by what has been written before.
Spelled(n, position, subs) ==
    LET kids == Plain(n.kids)
        root == IF n.kids = <<>> THEN n ELSE n.kids[1]
    IN
    CASE n.kind \in {"Type", "TypeList"} /\ position = "protocol" ->
            FlattenSeq([i \in DOMAIN n.kids |-> At("protocol", n.kids[i])])
            \o (IF n.kind = "TypeList" THEN Tokens(<<"_">>) ELSE <<>>)
      [] n.kind = "Type" -> At(position, root)
      [] n.kind = "Protocol" -> (IF position = "protocol" THEN <<>> ELSE Tokens(<<"P">>)) \o kids
      [] n.kind = "ProtocolList" -> Tokens(<<"P">>) \o At("protocol", root)
      [] n.kind \in DOMAIN Marker -> Tokens(Marker[n.kind]) \o kids
      [] n.kind \in DOMAIN Listed -> Tokens(Listed[n.kind]) \o kids \o Tokens(<<"_">>)
      [] n.kind \in DOMAIN EntityCode -> Entity(n)
      [] n.kind \in {"ReabstractionThunk", "ReabstractionThunkHelper"} ->
            Tokens(<<"T", IF n.kind = "ReabstractionThunk" THEN "r" ELSE "R">>
                   \o (IF Len(kids) = 3 THEN <<"G">> ELSE <<>>)) \o kids
      [] n.kind = "Metatype" -> Tokens(IF Len(kids) = 2 THEN <<"X", "M">> ELSE <<"M">>) \o kids
      [] n.kind = "ExistentialMetatype" ->
            Tokens(IF Len(kids) = 2 THEN <<"X", "P", "M">> ELSE <<"P", "M">>) \o kids
      [] n.kind = "BuiltinTypeName" ->
            FlattenSeq([i \in DOMAIN kids |->
                IF n.kids[i].kind = "Number" THEN Tokens(<<Count(n.kids[i].index)>>) ELSE <<kids[i]>>])
            \o (IF Last(n.kids).kind = "Number" THEN Tokens(<<"_">>) ELSE <<>>)
      [] n.kind \in {"Text", "ImplConvention", "ImplFunctionAttribute", "MetatypeRepresentation"} ->
            Tokens(Words[n.text[1]])
      [] n.kind \in DOMAIN OperatorMark ->
            LET w == OperatorOf[n.text[1]]
            IN Tokens((IF Ascii(w) THEN <<>> ELSE <<"X">>)
                      \o <<"o", OperatorMark[n.kind], WordToken(w)>>)
      [] n.kind = "Number" -> Tokens(IndexText(n.index))
      [] n.kind = "DependentGenericParamType" ->
            Tokens((IF position = "param" \/ ParamText(n) = <<"x">> THEN <<>> ELSE <<"q">>)
                   \o ParamText(n))
      [] n.kind = "DependentMemberType" -> MemberChain(Chain(n))
      [] n.kind = "DependentAssociatedTypeRef" ->
            (IF n.kids = <<>> THEN <<>> ELSE Tokens(<<"P">>) \o At("protocol", root)) \o Tokens(n.text)
      [] n.kind = "DependentGenericSignature" ->
            Tokens(Counts(n)) \o (IF OfKinds(n, Requirement) = <<>> THEN Tokens(<<"r">>)
                                  ELSE Tokens(<<"R">>) \o Plain(OfKinds(n, Requirement)) \o Tokens(<<"r">>))
      [] n.kind = "DependentGenericSameTypeRequirement" ->
            At("param", root) \o Tokens(<<"z">>) \o At("type", n.kids[2])
      [] n.kind = "DependentGenericConformanceRequirement" ->
            At("param", root)
            \o At(IF n.kids[2].kids[1].kind = "Class" THEN "type" ELSE "protocol", n.kids[2])
      [] n.kind = "ArchetypeRef" ->
            Tokens((IF position = "archetype" THEN <<>> ELSE <<"Q">>)
                   \o (IF root.index = 0 THEN <<>> ELSE <<"d">> \o IndexText(root.index - 1))
                   \o IndexText(n.kids[2].index))
      [] n.kind = "SelfTypeRef" ->
            Tokens((IF position = "archetype" THEN <<>> ELSE <<"Q">>) \o <<"P">>) \o At("protocol", root)
      [] n.kind = "AssociatedTypeRef" ->
            Tokens((IF position = "archetype" THEN <<>> ELSE <<"Q">>)
                   \o (IF root \in Range(subs) THEN <<>> ELSE <<"Q">>))
            \o At("archetype", root) \o At("type", n.kids[2])
      [] n.kind = "QualifiedArchetype" -> Tokens(<<"Q", "q">>) \o kids
      [] n.kind = "Extension" ->
            Tokens(IF Len(kids) = 3 THEN <<"e">> ELSE <<"E">>) \o <<kids[1]>>
            \o (IF Len(kids) = 3 THEN <<kids[3]>> ELSE <<>>) \o <<kids[2]>>
      [] n.kind = "ProtocolConformance" -> <<kids[1]>> \o At("protocol", n.kids[2]) \o <<kids[3]>>
      [] n.kind = "ProtocolDescriptor" -> Tokens(<<"M", "p">>) \o At("protocol", root)
      [] n.kind = "AssociatedTypeWitnessTableAccessor" ->
            Tokens(<<"W", "T">>) \o <<kids[1], kids[2]>> \o At("protocol", n.kids[3])
      [] n.kind = "ValueWitness" -> Tokens(<<"w">> \o WitnessLetters[n.index + 1]) \o kids
      [] n.kind = "FieldOffset" ->
            Tokens(<<"W", "v", IF root.text = <<"direct">> THEN "d" ELSE "i">>) \o Tail(kids)
      [] n.kind \in {"PartialApplyForwarder", "PartialApplyObjCForwarder"} ->
            Tokens((IF n.kind = "PartialApplyForwarder" THEN <<"P", "A">> ELSE <<"P", "A", "o">>)
                   \o (IF kids = <<>> THEN <<>> ELSE <<"_", "_", "T">>)) \o kids
      [] n.kind = "GenericSpecialization" ->
            Tokens(<<"g", Count(root.index)>>) \o Tail(kids) \o Tokens(<<"_">>)
      [] n.kind = "FunctionSignatureSpecialization" ->
            Tokens(<<"f", Count(root.index)>>) \o Tail(kids) \o Tokens(<<"_">>)
      [] n.kind = "FunctionSignatureSpecializationParam" -> FunctionParam(n)
      [] n.kind = "ImplFunctionType" -> Lowered(n)
      [] n.kind = "Global" -> Whole(n)
      [] OTHER -> Tokens(IF n.text[1] \in DOMAIN WordOf THEN <<"X", WordToken(WordOf[n.text[1]])>>
                           ELSE n.text)

\* What was written before is abbreviated, if short, by its place among the
\* things that can be.
RECURSIVE Written(_, _, _, _)
Written(n, position, subs, short) ==
    CASE n \in DOMAIN Standard -> [text |-> Standard[n], subs |-> subs]
      [] short /\ n \in Range(subs) ->
            [text |-> <<"S">> \o IndexText((CHOOSE i \in DOMAIN subs : subs[i] = n) - 1), subs |-> subs]
      [] OTHER ->
            LET whole == FoldLeft(LAMBDA sofar, part :
                    IF part.node = <<>> THEN [sofar EXCEPT !.text = @ \o part.tokens]
                    ELSE LET one == Written(part.node[1], part.position,
                                        IF part.position = "fresh" THEN <<>> ELSE sofar.subs, short)
                         IN [text |-> sofar.text \o one.text, subs |-> one.subs],
                    [text |-> <<>>, subs |-> subs], Spelled(n, position, IF short THEN subs ELSE <<>>))
            IN [text |-> whole.text,
                subs |-> IF n.kind \in Substitutable THEN Append(whole.subs, n) ELSE whole.subs]

Mangled(n, short) == Written(n, "type", <<>>, short).text
=============================================================================
