---------------------------- MODULE SwiftReadBack ----------------------------
(* The demangler on the names of SwiftNames, each written in full and with   *)
(* the abbreviations that the compiler uses, and on names of other makes.    *)
EXTENDS SwiftDemangler

VARIABLE asked   \* the tree whose name is read, or Foreign

Trees == INSTANCE SwiftNames
Printer == INSTANCE SwiftPrinter

\* The counted identifiers in the names: SwiftNames uses these.
PlainNames == {"1a", "1b", "1c", "1d", "Dictionary", "Optional"}
\* An encoded surrogate, letters that decode to nothing, and an operator of a
\* letter that stands for no character.
Misspelled == {<<105, 98, 74, 98>>, <<63>>, <<98>>}
Spelt == {Trees!encodePunycode(w) : w \in Trees!TheWords \union Trees!TheOperators}
         \union {w \in Trees!TheOperators : Trees!Ascii(w)} \union Misspelled
\* An identifier and its bytes.
Spellings == {<<name, <<97>>>> : name \in PlainNames} \union {<<ToString(w), w>> : w \in Spelt}
MCSpelling == [name \in {spelling[1] : spelling \in Spellings} |->
                  (CHOOSE spelling \in Spellings : spelling[1] = name)[2]]
MCName == DOMAIN MCSpelling
Foreign == NodeOf("foreign", <<>>, 0, <<>>)

\* Names of other languages, names that end too early, and Swift names that
\* mention what cannot stand where it does.
ForeignNames ==
    {<<"_", "T", "t", "C", "1a", "X", ToString(w)>> : w \in Misspelled \ {<<98>>}}
    \union {<<"_", "T", "F", "C", "1a", "1b", "o", "i", ToString(<<98>>), "F", "T", "_", "T", "_">>,
            <<"_", "T", "F", "C", "1a", "1b", "o", "X", "i", ToString(<<112>>), "F", "T", "_", "T", "_">>}
    \union
    {<<>>, <<"-">>, <<"_">>, <<"_", "Z", "1a">>, <<"_", "T">>, <<"_", "T", "P", "1a">>,
     <<"_", "T", "T", "S", "x">>, <<"_", "T", "F", "C", "1a">>, <<"_", "T", "F", "1a", "l", "1b">>,
     <<"_", "T", "t", "X">>, <<"_", "T", "t", "S", "0", "_">>, <<"_", "T", "t", "F", "x">>,
     <<"_", "T", "t", "G", "P", "_", "_">>, <<"_", "T", "t", "T", "o", "1a", "x", "_">>,
     <<"_", "T", "t", "w", "x", "S", "_">>, <<"_", "T", "t", "X", "M", "z">>,
     <<"_", "T", "T", "S", "f", "1", "c", "p", "z">>, <<"_", "T", "T", "S", "f", "1", "c", "p", "i", "7">>}

\* Written once, before the names are read.
Written == {[tree |-> tree, name |-> Trees!Mangled(tree, short)] : tree \in Trees!TheTrees, short \in BOOLEAN}

NamesInit ==
    \/ \E written \in Written : asked = written.tree /\ InitFor(written.name)
    \/ \E name \in ForeignNames : asked = Foreign /\ InitFor(name)

namesVars == <<demanglerVars, asked>>

NamesRest ==
    /\ asked = Foreign /\ mangled = <<>> /\ goals = <<>> /\ nodes = <<>>
    /\ substitutions = <<>> /\ outcome = "reading"

NamesNext == Demangle /\ UNCHANGED asked

-----------------------------------------------------------------------------
\* The tree that a name was written for is the tree that is read from it,
\* whether the parts that come again are written out or abbreviated by their
\* place among the substitutions, and nothing is left over; a name of another
\* make is never taken for a Swift name.
ReadsBack ==
    outcome # "reading" =>
        IF asked = Foreign THEN outcome # "read"
        ELSE outcome = "read" /\ nodes = <<asked>> /\ mangled = <<>>

Merged ==
    "Structure" :> "Class" @@ "Enum" :> "Class" @@ "TypeAlias" :> "Class" @@ "Protocol" :> "Class"
    @@ "BoundGenericStructure" :> "BoundGenericClass" @@ "BoundGenericEnum" :> "BoundGenericClass"
    @@ "UncurriedFunctionType" :> "FunctionType" @@ "GlobalGetter" :> "Getter"
    @@ "Subscript" :> "Function" @@ "DependentGenericParamType" :> "ArchetypeRef"
    @@ "DependentMemberType" :> "AssociatedTypeRef" @@ "DependentAssociatedTypeRef" :> "Identifier"

KindOf(n) ==
    IF n.kind \in DOMAIN Merged THEN Merged[n.kind]
    ELSE IF n.kind \in {"Allocator", "Deallocator"} /\ n.kids[1].kind # "Class"
         THEN (IF n.kind = "Allocator" THEN "Constructor" ELSE "Destructor")
    ELSE n.kind

\* What the printer means to keep of a tree: not what sort of type a name is,
\* nor whether a function was written curried, whose getter it is, or how a
\* parameter of a generic function came by its letter.
RECURSIVE Kept(_)
Kept(n) ==
    CASE n.kind \in {"Type", "DeclContext", "TypeMangling"} -> Kept(n.kids[1])
      [] n.kind = "ProtocolList" /\ Len(n.kids[1].kids) = 1 -> Kept(n.kids[1].kids[1])
      [] n.kind \in {"DynamicSelf", "DependentAssociatedTypeRef"} ->
            NodeOf(KindOf(n), n.text, 0, <<>>)
      [] OTHER -> NodeOf(KindOf(n), n.text, n.index, [i \in DOMAIN n.kids |-> Kept(n.kids[i])])

\* A function type that may be missing reads, with sugar, like a function that
\* returns what may be missing: no parentheses are ever written around it.
RECURSIVE SugaredClearly(_)
SugaredClearly(n) ==
    /\ \A kid \in Range(n.kids) : SugaredClearly(kid)
    /\ n.kind \in DOMAIN Printer!BoundTemplate /\ Printer!findSugar(n) \in {"?", "!"}
            => n.kids[2].kids[1].kids[1].kind \notin DOMAIN Printer!FunctionPrefix

Shown(tree, sugar) == [kept |-> Kept(tree), text |-> Printer!print(tree, FALSE, sugar)]
Printed == {Shown(tree, FALSE) : tree \in Trees!TheTrees}
PrintedSweet == {Shown(tree, TRUE) : tree \in {t \in Trees!TheTrees : SugaredClearly(t)}}

\* Two functions whose names a report shows in the same words are the same
\* function, so far as the printer means to tell functions apart, and so they
\* are when the short forms of optionals, arrays and dictionaries are used.
PrintsApart ==
    outcome = "read" =>
        /\ \E here \in {Shown(nodes[1], FALSE)} :
               \A other \in Printed : other.text = here.text => other.kept = here.kept
        /\ SugaredClearly(nodes[1]) =>
               \E here \in {Shown(nodes[1], TRUE)} :
                   \A other \in PrintedSweet : other.text = here.text => other.kept = here.kept
=============================================================================
