--------------------------- MODULE ArticleTextView ---------------------------
(***************************************************************************)
(* NTCArticleTextView.m: a text view whose images are one attachment        *)
(* character in the text each, covered by a subview with a close button.    *)
(* The subviews are found again through _imageViewCache, a dictionary keyed *)
(* by the location an image had when the keys were made.  Keys are made     *)
(* when an image is inserted, and all anew when an edit deletes a location  *)
(* that is a key; no other edit touches them, so they go stale.             *)
(*                                                                         *)
(* All of it runs on the main thread.  Interleavings come from the close    *)
(* button, which acts when its animation is over, and from the dictionary,  *)
(* whose allKeys come in no order: the loop over them is a loop of steps.   *)
(* The frames of the subviews and the files of synchronizeToDisk are left   *)
(* out.  Locations count from 0, as in the code.                            *)
(***************************************************************************)
EXTENDS Naturals, Sequences

CONSTANTS
    Image,          \* the attachments, each inserted once; also their subviews
    MaxLength       \* bound: how long the text grows

ASSUME TextViewAssumption == MaxLength \in Nat /\ Image \cap {"x", "\n"} = {}

VARIABLES
    text,           \* the characters of the text storage
    cache,          \* _imageViewCache: location -> image
    shown,          \* the images whose subview is on screen
    doomed,         \* keys that the loop of willProcessEditing still comes to
    closing,        \* subviews that fade after a click on their button
    faded,          \* subviews with alpha 0, whose button takes no click
    raised,         \* an NSRangeException
    \* history, for the properties
    used,           \* the images inserted so far
    clean           \* the last edit was the deletion of one image, nothing
                    \*   else being out of step before it

vars == <<text, cache, shown, doomed, closing, faded, raised, used, clean>>

Init ==
    /\ text = << >>
    /\ cache = << >>
    /\ shown = {}
    /\ doomed = {}
    /\ closing = {}
    /\ faded = {}
    /\ raised = FALSE
    /\ used = {}
    /\ clean = FALSE

-----------------------------------------------------------------------------
InRange(f) == {f[k] : k \in DOMAIN f}
Images(s) == InRange(s) \cap Image

\* The text with n characters at a location replaced.
Splice(s, loc, n, new) == SubSeq(s, 1, loc) \o new \o SubSeq(s, loc + n + 1, Len(s))

CharAt(s, loc) == s[loc + 1]
Locations(s) == 0 .. Len(s) - 1

\* Mutants of LayoutAttachmentView: it keys the views of all images found; it
\* adds to the old dictionary.
LayoutEveryView(s, c) ==
    [l \in {k \in Locations(s) : CharAt(s, k) \in Image} |-> CharAt(s, l)]
LayoutIntoOld(s, c) ==
    LET found == {k \in Locations(s) : CharAt(s, k) \in InRange(c)}
    IN  [l \in DOMAIN c \cup found |-> IF l \in found THEN CharAt(s, l) ELSE c[l]]

\* layoutAttachmentView: the cached views whose image is in the text, keyed by
\* where it is now.
LayoutAttachmentView(s, c) ==
    [l \in {k \in Locations(s) : CharAt(s, k) \in InRange(c)} |-> CharAt(s, l)]

Without(c, k) == [l \in DOMAIN c \ {k} |-> c[l]]

\* Every image of the text has its view on screen and in the cache under its
\* location, and there are no other views.
InStep(s, c, v) ==
    /\ c = [l \in {k \in Locations(s) : CharAt(s, k) \in Image} |-> CharAt(s, l)]
    /\ v = Images(s)

\* Mutant of HitKeys: the end of the deleted range belongs to it.
HitKeysInclusive(c, loc, n) == {k \in DOMAIN c : loc <= k /\ k <= loc + n}

\* The keys that willProcessEditing takes for deleted.
HitKeys(c, loc, n) == {k \in DOMAIN c : loc <= k /\ k < loc + n}

\* n characters at a location make place for others.  When the text shrinks,
\* by delta, willProcessEditing looks for keys in the first delta locations.
Edit(loc, n, new) ==
    /\ text' = Splice(text, loc, n, new)
    /\ doomed' = HitKeys(cache, loc, n - Len(new))
    /\ clean' = /\ InStep(text, cache, shown)
                /\ new = << >>
                /\ \E i \in Image : Images(SubSeq(text, loc + 1, loc + n)) = {i}

Idle == doomed = {} /\ ~raised

-----------------------------------------------------------------------------
(* The user. *)

Type(char, loc) ==
    /\ Idle
    /\ Len(text) < MaxLength
    /\ loc <= Len(text)
    /\ text' = Splice(text, loc, 0, <<char>>)
    /\ clean' = FALSE
    /\ UNCHANGED <<cache, shown, doomed, closing, faded, raised, used>>

\* Deletes a selection of n characters, or types one over it.
Overwrite(loc, n, new) ==
    /\ Idle
    /\ loc + n <= Len(text)
    /\ Edit(loc, n, new)
    /\ UNCHANGED <<cache, shown, closing, faded, raised, used>>

ClickClose(i) ==
    /\ Idle
    /\ i \in shown \ faded
    /\ closing' = closing \cup {i}
    /\ faded' = faded \cup {i}
    /\ UNCHANGED <<text, cache, shown, doomed, raised, used, clean>>

-----------------------------------------------------------------------------
(* insertImage and doInsertAttachment, at the caret. *)

Before(loc) == IF text # << >> /\ CharAt(text, loc - 1) # "\n" THEN <<"\n">> ELSE << >>

\* Mutant of After: a newline only where the text goes on.
AfterInside(loc) ==
    IF loc < Len(text) /\ CharAt(text, loc) # "\n" THEN <<"\n">> ELSE << >>

After(loc) ==
    IF loc >= Len(text) \/ CharAt(text, loc) # "\n" THEN <<"\n">> ELSE << >>

\* A view under an equal, stale key is forgotten.
InsertImage(i, caret) ==
    /\ Idle
    /\ i \notin used
    /\ text = << >> \/ caret > 0
    /\ caret <= Len(text)
    /\ used' = used \cup {i}
    /\ shown' = shown \cup {i}
    /\ text' = Splice(text, caret, 0, Before(caret) \o <<i>> \o After(caret))
    /\ Len(text') <= MaxLength
    /\ LET key == caret + Len(Before(caret))
       IN  cache' = [l \in DOMAIN cache \cup {key} |-> IF l = key THEN i ELSE cache[l]]
    /\ clean' = FALSE
    /\ UNCHANGED <<doomed, closing, faded, raised>>

\* With the caret before the first of some characters the character at
\* location -1 is asked for.
InsertImageRaises(i, caret) ==
    /\ Idle
    /\ i \notin used
    /\ text # << >> /\ caret = 0
    /\ raised' = TRUE
    /\ shown' = shown \cup {i}
    /\ used' = used \cup {i}
    /\ clean' = FALSE
    /\ UNCHANGED <<text, cache, doomed, closing, faded>>

-----------------------------------------------------------------------------
(* imageAttachmentViewDidClickClose and deleteAttachment. *)

\* Mutant of CloseStart: whatever stands before the image.
CloseStartAny(loc) == IF loc > 0 THEN loc - 1 ELSE loc

\* The image at a location, with a newline before and a newline behind it.
CloseStart(loc) == IF loc > 0 /\ CharAt(text, loc - 1) = "\n" THEN loc - 1 ELSE loc
CloseEnd(loc) == IF loc + 1 < Len(text) /\ CharAt(text, loc + 1) = "\n" THEN loc + 2 ELSE loc + 1

CloseDeletes(i) ==
    /\ Idle
    /\ i \in closing
    /\ \E loc \in Locations(text) :
        /\ CharAt(text, loc) = i
        /\ Edit(CloseStart(loc), CloseEnd(loc) - CloseStart(loc), << >>)
    /\ closing' = closing \ {i}
    /\ UNCHANGED <<cache, shown, faded, raised, used>>

\* The image was deleted while its view faded.
CloseFindsNothing(i) ==
    /\ Idle
    /\ i \in closing \ Images(text)
    /\ closing' = closing \ {i}
    /\ UNCHANGED <<text, cache, shown, doomed, faded, raised, used, clean>>

-----------------------------------------------------------------------------
(* One round of the loop in willProcessEditing.  The text is the edited one, *)
(* the keys are those from before the loop, the cache is the rebuilt one.    *)

RemoveView(k) ==
    /\ k \in doomed
    /\ doomed' = doomed \ {k}
    /\ shown' = IF k \in DOMAIN cache THEN shown \ {cache[k]} ELSE shown
    /\ cache' = LayoutAttachmentView(text, Without(cache, k))
    /\ UNCHANGED <<text, closing, faded, raised, used, clean>>

Next ==
    \/ \E char \in {"x", "\n"}, loc \in 0 .. Len(text) : Type(char, loc)
    \/ \E loc \in Locations(text), n \in 1 .. Len(text), new \in {<< >>, <<"x">>} : Overwrite(loc, n, new)
    \/ \E i \in Image, caret \in 0 .. Len(text) : InsertImage(i, caret) \/ InsertImageRaises(i, caret)
    \/ \E i \in Image : ClickClose(i) \/ CloseDeletes(i) \/ CloseFindsNothing(i)
    \/ \E k \in doomed : RemoveView(k)

Spec == Init /\ [][Next]_vars

-----------------------------------------------------------------------------
\* Types; in particular no attachment is in the text, or its view in the
\* cache, twice.
TypeOK ==
    /\ text \in Seq(Image \cup {"x", "\n"})
    /\ \A k, l \in Locations(text) : k # l /\ CharAt(text, k) = CharAt(text, l) => CharAt(text, k) \notin Image
    /\ DOMAIN cache \subseteq Nat
    /\ \A k, l \in DOMAIN cache : cache[k] \in Image /\ (k # l => cache[k] # cache[l])
    /\ shown \cup closing \cup faded \cup used \subseteq Image
    /\ doomed \subseteq Nat
    /\ {raised, clean} \subseteq BOOLEAN

\* Whatever is cached is on screen, however stale the key under which it was
\* found: a view that the loop takes off the screen cannot come back into the
\* cache with the rebuild, in this round or a later one.
CachedIsShown == InRange(cache) \subseteq shown

\* When every image has its view under its location, the deletion of one image,
\* alone or within a selection, by keyboard or by its button, takes off that
\* view and no other, and leaves every key fresh.
OneImageLeavesInStep == clean /\ doomed = {} => InStep(text, cache, shown)

\* An image is inserted on a line of its own, wherever the caret stands.
OwnLine ==
    [][\A i \in used' \ used : ~raised' =>
        \E loc \in Locations(text') :
            /\ CharAt(text', loc) = i
            /\ loc = 0 \/ CharAt(text', loc - 1) = "\n"
            /\ loc + 1 < Len(text') /\ CharAt(text', loc + 1) = "\n"]_vars

\* What is missing of a text is one piece of at most three characters, an
\* image and newlines.
PieceTaken(s, rest, i) ==
    \E loc \in Locations(s), n \in 1 .. 3 :
        /\ loc + n <= Len(s)
        /\ rest = Splice(s, loc, n, << >>)
        /\ InRange(SubSeq(s, loc + 1, loc + n)) \subseteq {i, "\n"}

\* The button takes away its image, in one piece with newlines next to it, and
\* nothing the user typed or inserted besides; nothing at all when the image
\* was deleted meanwhile.
ButtonTakesOneImage ==
    [][\A i \in closing \ closing' :
        /\ Images(text') = Images(text) \ {i}
        /\ text' = text \/ PieceTaken(text, text', i)]_vars

\* The cache of the views keeps in step with the text and the screen.
CacheInStep == CachedIsShown /\ OneImageLeavesInStep

\* An edit changes what it is about: an image comes on a line of its own and
\* goes alone.
EditsAreLocal == OwnLine /\ ButtonTakesOneImage
=============================================================================
