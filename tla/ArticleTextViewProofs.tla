----------------------- MODULE ArticleTextViewProofs -----------------------
(***************************************************************************)
(* Proofs about the text view of articles, for any attachments and a text   *)
(* of any length.                                                          *)
(*                                                                         *)
(* The lemmas say what an edit does to the characters of the text: where    *)
(* each one comes from, that no attachment comes to be in it twice, and     *)
(* which attachments a deletion leaves.  The invariant follows the deletion *)
(* of one image through the loop of willProcessEditing.                     *)
(***************************************************************************)
EXTENDS ArticleTextView, SequenceTheorems, TLAPS

Char == Image \cup {"x", "\n"}

Newline == "\n"

\* No attachment is in the text twice.
Once(s) ==
    \A k, l \in Locations(s) : k # l /\ CharAt(s, k) = CharAt(s, l) => CharAt(s, k) \notin Image

-----------------------------------------------------------------------------
\* The attachments of a text are those at its locations.
LEMMA ImagesAreAt ==
    \A s \in Seq(Char) : \A i \in Image :
        i \in Images(s) <=> \E k \in Locations(s) : CharAt(s, k) = i
<1> SUFFICES ASSUME NEW s \in Seq(Char), NEW i \in Image
             PROVE  i \in Images(s) <=> \E k \in Locations(s) : CharAt(s, k) = i
  OBVIOUS
<1>1. Len(s) \in Nat /\ DOMAIN s = 1 .. Len(s)
  OBVIOUS
<1>2. ASSUME NEW k \in Locations(s) PROVE k + 1 \in DOMAIN s /\ CharAt(s, k) = s[k + 1]
  BY <1>1 DEF Locations, CharAt
<1>3. ASSUME NEW m \in DOMAIN s PROVE m - 1 \in Locations(s) /\ CharAt(s, m - 1) = s[m]
  BY <1>1 DEF Locations, CharAt
<1> QED  BY <1>2, <1>3 DEF Images, InRange

\* A part of a text.
LEMMA PartOfText ==
    \A s \in Seq(Char) : \A p \in Nat \ {0}, b \in Nat :
        p <= b + 1 /\ b <= Len(s) =>
            /\ SubSeq(s, p, b) \in Seq(Char)
            /\ Len(SubSeq(s, p, b)) = b + 1 - p
            /\ \A k \in Nat : k + p <= b => CharAt(SubSeq(s, p, b), k) = CharAt(s, k + p - 1)
<1> SUFFICES ASSUME NEW s \in Seq(Char), NEW p \in Nat \ {0}, NEW b \in Nat,
                    p <= b + 1, b <= Len(s)
             PROVE  /\ SubSeq(s, p, b) \in Seq(Char)
                    /\ Len(SubSeq(s, p, b)) = b + 1 - p
                    /\ \A k \in Nat : k + p <= b => CharAt(SubSeq(s, p, b), k) = CharAt(s, k + p - 1)
  OBVIOUS
<1>1. \A k \in p .. b : s[k] \in Char
  OBVIOUS
<1>2. /\ SubSeq(s, p, b) \in Seq(Char)
      /\ Len(SubSeq(s, p, b)) = IF p <= b THEN b - p + 1 ELSE 0
      /\ \A k \in 1 .. b - p + 1 : SubSeq(s, p, b)[k] = s[p + k - 1]
  BY <1>1, SubSeqProperties
<1>3. Len(SubSeq(s, p, b)) = b + 1 - p
  BY <1>2
<1>4. ASSUME NEW k \in Nat, k + p <= b
      PROVE  CharAt(SubSeq(s, p, b), k) = CharAt(s, k + p - 1)
  <2>1. k + 1 \in 1 .. b - p + 1 /\ p + (k + 1) - 1 = (k + p - 1) + 1
    BY <1>4
  <2> QED  BY <1>2, <2>1 DEF CharAt
<1> QED  BY <1>2, <1>3, <1>4

\* Where the characters of an edited text come from.
LEMMA SpliceChars ==
    ASSUME NEW s \in Seq(Char), NEW loc \in Nat, NEW n \in Nat, loc + n <= Len(s),
           NEW new \in Seq(Char)
    PROVE  /\ Splice(s, loc, n, new) \in Seq(Char)
           /\ Len(Splice(s, loc, n, new)) = Len(s) - n + Len(new)
           /\ \A k \in Locations(Splice(s, loc, n, new)) :
                 CharAt(Splice(s, loc, n, new), k) =
                     IF k < loc THEN CharAt(s, k)
                     ELSE IF k < loc + Len(new) THEN CharAt(new, k - loc)
                     ELSE CharAt(s, k - Len(new) + n)
<1> DEFINE h == SubSeq(s, 1, loc)
           t == SubSeq(s, loc + n + 1, Len(s))
           r == Splice(s, loc, n, new)
           hn == h \o new
<1>1. Len(s) \in Nat /\ Len(new) \in Nat
  OBVIOUS
<1>2. h \in Seq(Char) /\ Len(h) = loc /\ \A k \in Nat : k < loc => CharAt(h, k) = CharAt(s, k)
  <2>1. /\ h \in Seq(Char) /\ Len(h) = loc + 1 - 1
        /\ \A k \in Nat : k + 1 <= loc => CharAt(h, k) = CharAt(s, k + 1 - 1)
    <3>1. 1 \in Nat \ {0} /\ 1 <= loc + 1 /\ loc <= Len(s)
      BY <1>1
    <3> QED  BY <3>1, PartOfText
  <2>2. \A k \in Nat : k < loc => k + 1 <= loc /\ k + 1 - 1 = k
    OBVIOUS
  <2> HIDE DEF h
  <2> QED  BY <2>1, <2>2
<1>3. /\ t \in Seq(Char) /\ Len(t) = Len(s) - (loc + n)
      /\ \A k \in Nat : k < Len(s) - (loc + n) => CharAt(t, k) = CharAt(s, k + loc + n)
  <2>1. PICK p \in Nat \ {0} : p = loc + n + 1
    OBVIOUS
  <2>2. /\ t \in Seq(Char) /\ Len(t) = Len(s) + 1 - p
        /\ \A k \in Nat : k + p <= Len(s) => CharAt(t, k) = CharAt(s, k + p - 1)
    <3>1. t = SubSeq(s, p, Len(s)) /\ p <= Len(s) + 1 /\ Len(s) <= Len(s)
      BY <1>1, <2>1
    <3>2. PICK e \in Nat : e = Len(s)
      BY <1>1
    <3>3. /\ SubSeq(s, p, e) \in Seq(Char) /\ Len(SubSeq(s, p, e)) = e + 1 - p
          /\ \A k \in Nat : k + p <= e => CharAt(SubSeq(s, p, e), k) = CharAt(s, k + p - 1)
      BY <3>1, <3>2, PartOfText
    <3> HIDE DEF t
    <3> QED  BY <3>1, <3>2, <3>3
  <2>3. \A k \in Nat : k < Len(s) - (loc + n) => k + p <= Len(s) /\ k + p - 1 = k + loc + n
    BY <1>1, <2>1
  <2> HIDE DEF t
  <2>4. ASSUME NEW k \in Nat, k < Len(s) - (loc + n) PROVE CharAt(t, k) = CharAt(s, k + loc + n)
    <3>1. k + p <= Len(s) /\ k + p - 1 = k + loc + n
      BY <2>3, <2>4
    <3>2. CharAt(t, k) = CharAt(s, k + p - 1)
      BY <2>2, <3>1
    <3> QED  BY <3>1, <3>2
  <2> QED  BY <1>1, <2>1, <2>2, <2>4
<1>4. r = hn \o t
  BY DEF Splice
<1> HIDE DEF h, t, r
<1>5. /\ hn \in Seq(Char) /\ Len(hn) = loc + Len(new)
      /\ \A k \in 1 .. loc + Len(new) : hn[k] = IF k <= loc THEN h[k] ELSE new[k - loc]
  BY <1>2, ConcatProperties
<1> HIDE DEF hn
<1>6. /\ r \in Seq(Char) /\ Len(r) = Len(hn) + Len(t)
      /\ \A k \in 1 .. Len(hn) + Len(t) :
            r[k] = IF k <= Len(hn) THEN hn[k] ELSE t[k - Len(hn)]
  <2>1. hn \in Seq(Char) /\ t \in Seq(Char)
    BY <1>3, <1>5
  <2>2. /\ hn \o t \in Seq(Char) /\ Len(hn \o t) = Len(hn) + Len(t)
        /\ \A k \in 1 .. Len(hn) + Len(t) :
              (hn \o t)[k] = IF k <= Len(hn) THEN hn[k] ELSE t[k - Len(hn)]
    BY <2>1, ConcatProperties
  <2> QED  BY <1>4, <2>2
<1>7. Len(r) = Len(s) - n + Len(new)
  BY <1>1, <1>3, <1>5, <1>6
<1>8. ASSUME NEW k \in Locations(r)
      PROVE  CharAt(r, k) = IF k < loc THEN CharAt(s, k)
                            ELSE IF k < loc + Len(new) THEN CharAt(new, k - loc)
                            ELSE CharAt(s, k - Len(new) + n)
  <2>1. k \in Nat /\ k + 1 \in 1 .. Len(hn) + Len(t) /\ k < Len(s) - n + Len(new)
    <3>1. Len(r) \in Nat /\ k \in Nat /\ k < Len(r)
      BY <1>6 DEF Locations
    <3>2. Len(hn) + Len(t) = Len(r)
      BY <1>6
    <3>3. k + 1 \in 1 .. Len(r)
      BY <3>1
    <3>4. k < Len(s) - n + Len(new)
      BY <1>7, <3>1
    <3> QED  BY <3>1, <3>2, <3>3, <3>4
  <2>2. CASE k < loc
    <3>1. r[k + 1] = hn[k + 1]
      BY <1>1, <1>5, <1>6, <2>1, <2>2
    <3>2. hn[k + 1] = h[k + 1]
      BY <1>1, <1>5, <2>1, <2>2
    <3> QED  BY <1>2, <2>1, <2>2, <3>1, <3>2 DEF CharAt
  <2>3. CASE ~ (k < loc) /\ k < loc + Len(new)
    <3>1. r[k + 1] = hn[k + 1]
      BY <1>1, <1>5, <1>6, <2>1, <2>3
    <3>2. hn[k + 1] = new[k + 1 - loc] /\ k + 1 - loc = k - loc + 1
      BY <1>1, <1>5, <2>1, <2>3
    <3> QED  BY <2>3, <3>1, <3>2 DEF CharAt
  <2>4. CASE ~ (k < loc) /\ ~ (k < loc + Len(new))
    <3>1. PICK j \in Nat : k = j + (loc + Len(new))
      <4>1. k - (loc + Len(new)) \in Nat
        BY <1>1, <2>1, <2>4
      <4>2. k = (k - (loc + Len(new))) + (loc + Len(new))
        BY <1>1, <2>1
      <4> QED  BY <4>1, <4>2
    <3>2. j < Len(s) - (loc + n) /\ j + loc + n = k - Len(new) + n
      BY <1>1, <2>1, <3>1
    <3>3. r[k + 1] = t[k + 1 - Len(hn)]
      BY <1>1, <1>5, <1>6, <2>1, <2>4
    <3>4. k + 1 - Len(hn) = j + 1
      BY <1>1, <1>5, <3>1
    <3>5. CharAt(t, j) = CharAt(s, k - Len(new) + n)
      BY <1>3, <3>2
    <3> QED  BY <2>4, <3>3, <3>4, <3>5 DEF CharAt
  <2> QED  BY <2>2, <2>3, <2>4
<1> QED  BY <1>6, <1>7, <1>8 DEF r

\* An edit that brings in no attachment twice, and none that is there already,
\* leaves each in the text once.
LEMMA SpliceOnce ==
    ASSUME NEW s \in Seq(Char), NEW loc \in Nat, NEW n \in Nat, loc + n <= Len(s),
           NEW new \in Seq(Char), Once(s), Once(new), Images(s) \cap Images(new) = {}
    PROVE  /\ Once(Splice(s, loc, n, new))
           /\ Images(Splice(s, loc, n, new)) \subseteq Images(s) \cup Images(new)
<1> DEFINE r == Splice(s, loc, n, new)
<1>0. Len(s) \in Nat /\ Len(new) \in Nat
  OBVIOUS
<1>1. /\ r \in Seq(Char) /\ Len(r) = Len(s) - n + Len(new)
      /\ \A k \in Locations(r) :
            CharAt(r, k) = IF k < loc THEN CharAt(s, k)
                           ELSE IF k < loc + Len(new) THEN CharAt(new, k - loc)
                           ELSE CharAt(s, k - Len(new) + n)
  BY SpliceChars
<1> HIDE DEF r
<1>2. ASSUME NEW k \in Locations(r)
      PROVE  \/ \E m \in Locations(s) :
                    /\ CharAt(r, k) = CharAt(s, m)
                    /\ \/ k < loc /\ m = k
                       \/ k >= loc + Len(new) /\ m = k - Len(new) + n
             \/ \E m \in Locations(new) : CharAt(r, k) = CharAt(new, m) /\ k = loc + m
  <2>1. k \in Nat /\ k < Len(s) - n + Len(new)
    BY <1>0, <1>1, <1>2 DEF Locations
  <2>2. CASE k < loc
    <3>1. k \in Locations(s) /\ CharAt(r, k) = CharAt(s, k)
      BY <1>0, <1>1, <2>1, <2>2 DEF Locations
    <3> QED  BY <2>2, <3>1
  <2>3. CASE ~ (k < loc) /\ k < loc + Len(new)
    <3>1. k - loc \in Locations(new) /\ CharAt(r, k) = CharAt(new, k - loc) /\ k = loc + (k - loc)
      BY <1>0, <1>1, <2>1, <2>3 DEF Locations
    <3> QED  BY <3>1
  <2>4. CASE ~ (k < loc) /\ ~ (k < loc + Len(new))
    <3>1. k - Len(new) + n \in Locations(s) /\ CharAt(r, k) = CharAt(s, k - Len(new) + n)
      BY <1>0, <1>1, <2>1, <2>4 DEF Locations
    <3>2. k >= loc + Len(new)
      BY <1>0, <2>1, <2>4
    <3> QED  BY <3>1, <3>2
  <2> QED  BY <2>2, <2>3, <2>4
<1>3. (\A k \in Locations(r) : k \in Nat) /\ (\A k \in Locations(s) : k \in Nat)
  BY <1>0, <1>1 DEF Locations
<1>4. ASSUME NEW k \in Locations(s), NEW l \in Locations(new), CharAt(s, k) = CharAt(new, l)
      PROVE  CharAt(s, k) \notin Image
  BY <1>4, ImagesAreAt
<1>5. ASSUME NEW k \in Locations(r), NEW l \in Locations(r), k # l, CharAt(r, k) = CharAt(r, l)
      PROVE  CharAt(r, k) \notin Image
  <2>1. k \in Nat /\ l \in Nat
    BY <1>3
  <2>2. CASE \E m \in Locations(s) :
                /\ CharAt(r, k) = CharAt(s, m)
                /\ \/ k < loc /\ m = k
                   \/ k >= loc + Len(new) /\ m = k - Len(new) + n
    <3>1. PICK m \in Locations(s) :
                /\ CharAt(r, k) = CharAt(s, m)
                /\ \/ k < loc /\ m = k
                   \/ k >= loc + Len(new) /\ m = k - Len(new) + n
      BY <2>2
    <3>2. ASSUME NEW o \in Locations(s), CharAt(r, l) = CharAt(s, o),
                 \/ l < loc /\ o = l
                 \/ l >= loc + Len(new) /\ o = l - Len(new) + n
          PROVE  CharAt(r, k) \notin Image
      <4>1. m # o
        BY <1>0, <1>5, <2>1, <3>1, <3>2
      <4>2. CharAt(s, m) = CharAt(s, o)
        BY <1>5, <3>1, <3>2
      <4> QED  BY <3>1, <4>1, <4>2 DEF Once
    <3>3. ASSUME NEW o \in Locations(new), CharAt(r, l) = CharAt(new, o)
          PROVE  CharAt(r, k) \notin Image
      BY <1>4, <1>5, <3>1, <3>3
    <3> QED  BY <1>2, <3>2, <3>3
  <2>3. ASSUME NEW m \in Locations(new), CharAt(r, k) = CharAt(new, m), k = loc + m
        PROVE  CharAt(r, k) \notin Image
    <3>1. ASSUME NEW o \in Locations(s), CharAt(r, l) = CharAt(s, o)
          PROVE  CharAt(r, k) \notin Image
      BY <1>4, <1>5, <2>3, <3>1
    <3>2. ASSUME NEW o \in Locations(new), CharAt(r, l) = CharAt(new, o), l = loc + o
          PROVE  CharAt(r, k) \notin Image
      <4>1. m # o /\ CharAt(new, m) = CharAt(new, o)
        BY <1>5, <2>3, <3>2
      <4> QED  BY <2>3, <4>1 DEF Once
    <3> QED  BY <1>2, <3>1, <3>2
  <2> QED  BY <1>2, <2>2, <2>3
<1>6. ASSUME NEW i \in Images(r) PROVE i \in Images(s) \cup Images(new)
  <2>1. i \in Image
    BY DEF Images
  <2>2. PICK k \in Locations(r) : CharAt(r, k) = i
    BY <1>1, <2>1, ImagesAreAt
  <2> QED  BY <1>2, <2>1, <2>2, ImagesAreAt
<1> QED  BY <1>5, <1>6 DEF Once, r

\* The part of a text that is deleted.
LEMMA CutPart ==
    ASSUME NEW s \in Seq(Char), NEW loc \in Nat, NEW n \in Nat, loc + n <= Len(s)
    PROVE  LET d == SubSeq(s, loc + 1, loc + n) IN
           /\ d \in Seq(Char) /\ Len(d) = n
           /\ \A k \in 0 .. n - 1 : CharAt(d, k) = CharAt(s, loc + k)
<1> DEFINE d == SubSeq(s, loc + 1, loc + n)
<1>1. loc + 1 \in Nat \ {0} /\ loc + n \in Nat /\ loc + 1 <= loc + n + 1
  OBVIOUS
<1>2. /\ d \in Seq(Char) /\ Len(d) = loc + n + 1 - (loc + 1)
      /\ \A k \in Nat : k + (loc + 1) <= loc + n => CharAt(d, k) = CharAt(s, k + (loc + 1) - 1)
  BY <1>1, PartOfText
<1> HIDE DEF d
<1>3. ASSUME NEW k \in 0 .. n - 1 PROVE CharAt(d, k) = CharAt(s, loc + k)
  <2>1. k \in Nat /\ k + (loc + 1) <= loc + n /\ k + (loc + 1) - 1 = loc + k
    OBVIOUS
  <2> QED  BY <1>2, <2>1
<1>4. Len(d) = n
  BY <1>2
<1> QED  BY <1>2, <1>3, <1>4 DEF d

\* A deletion leaves the attachments that are not in the part deleted.
LEMMA CutLeaves ==
    ASSUME NEW s \in Seq(Char), NEW loc \in Nat, NEW n \in Nat, loc + n <= Len(s), Once(s)
    PROVE  Images(Splice(s, loc, n, << >>)) = Images(s) \ Images(SubSeq(s, loc + 1, loc + n))
<1> DEFINE r == Splice(s, loc, n, << >>)
           d == SubSeq(s, loc + 1, loc + n)
<1>0. Len(s) \in Nat /\ << >> \in Seq(Char) /\ Len(<< >>) = 0
  OBVIOUS
<1>1. /\ r \in Seq(Char) /\ Len(r) = Len(s) - n
      /\ \A k \in Locations(r) :
            CharAt(r, k) = IF k < loc THEN CharAt(s, k) ELSE CharAt(s, k + n)
  <2>1. /\ r \in Seq(Char) /\ Len(r) = Len(s) - n + Len(<< >>)
        /\ \A k \in Locations(r) :
              CharAt(r, k) = IF k < loc THEN CharAt(s, k)
                             ELSE IF k < loc + Len(<< >>) THEN CharAt(<< >>, k - loc)
                             ELSE CharAt(s, k - Len(<< >>) + n)
    BY <1>0, SpliceChars
  <2> HIDE DEF r
  <2>2. ASSUME NEW k \in Locations(r)
        PROVE  CharAt(r, k) = IF k < loc THEN CharAt(s, k) ELSE CharAt(s, k + n)
    <3>1. k \in Nat /\ k - 0 = k
      BY <1>0, <2>1 DEF Locations
    <3> QED  BY <1>0, <2>1, <3>1
  <2> QED  BY <1>0, <2>1, <2>2
<1>2. /\ d \in Seq(Char) /\ Len(d) = n
      /\ \A k \in 0 .. n - 1 : CharAt(d, k) = CharAt(s, loc + k)
  BY CutPart
<1> HIDE DEF r, d
<1>3. \A k \in Locations(d) : k \in 0 .. n - 1 /\ loc + k \in Locations(s)
  BY <1>0, <1>2 DEF Locations
<1>4. ASSUME NEW i \in Images(r) PROVE i \in Images(s) /\ i \notin Images(d)
  <2>1. i \in Image
    BY DEF Images
  <2>2. PICK k \in Locations(r) : CharAt(r, k) = i
    BY <1>1, <2>1, ImagesAreAt
  <2>3. PICK m \in Locations(s) : CharAt(s, m) = i /\ (m < loc \/ m >= loc + n)
    <3>1. k \in Nat /\ k < Len(s) - n
      BY <1>0, <1>1 DEF Locations
    <3>2. CASE k < loc
      <4>1. k \in Locations(s) /\ CharAt(s, k) = i
        BY <1>0, <1>1, <2>2, <3>1, <3>2 DEF Locations
      <4> QED  BY <3>2, <4>1
    <3>3. CASE ~ (k < loc)
      <4>1. k + n \in Locations(s) /\ CharAt(s, k + n) = i /\ k + n >= loc + n
        BY <1>0, <1>1, <2>2, <3>1, <3>3 DEF Locations
      <4> QED  BY <4>1
    <3> QED  BY <3>2, <3>3
  <2>4. ASSUME i \in Images(d) PROVE FALSE
    <3>1. PICK k2 \in Locations(d) : CharAt(d, k2) = i
      BY <1>2, <2>1, <2>4, ImagesAreAt
    <3>2. loc + k2 \in Locations(s) /\ CharAt(s, loc + k2) = i /\ k2 \in 0 .. n - 1
      BY <1>2, <1>3, <3>1
    <3>3. loc + k2 # m
      BY <1>0, <2>3, <3>2 DEF Locations
    <3> QED  BY <2>1, <2>3, <3>2, <3>3 DEF Once
  <2> QED  BY <2>1, <2>3, <2>4, ImagesAreAt
<1>5. ASSUME NEW i \in Images(s), i \notin Images(d) PROVE i \in Images(r)
  <2>1. i \in Image
    BY DEF Images
  <2>2. PICK m \in Locations(s) : CharAt(s, m) = i
    BY <2>1, ImagesAreAt
  <2>3. m \in Nat /\ m < Len(s)
    BY <1>0 DEF Locations
  <2>4. CASE m < loc
    <3>1. m \in Locations(r) /\ CharAt(r, m) = i
      BY <1>0, <1>1, <2>2, <2>3, <2>4 DEF Locations
    <3> QED  BY <1>1, <2>1, <3>1, ImagesAreAt
  <2>5. CASE m >= loc + n
    <3>1. PICK j \in Int : j = m - n
      BY <2>3
    <3>2. j \in Locations(r) /\ ~ (j < loc) /\ j + n = m
      BY <1>0, <1>1, <2>3, <2>5, <3>1 DEF Locations
    <3>3. CharAt(r, j) = i
      BY <1>1, <2>2, <3>2
    <3> QED  BY <1>1, <2>1, <3>2, <3>3, ImagesAreAt
  <2>6. CASE loc <= m /\ m < loc + n
    <3>1. PICK j \in Int : j = m - loc
      BY <2>3
    <3>2. j \in Locations(d) /\ j \in 0 .. n - 1 /\ loc + j = m
      BY <1>0, <1>2, <2>3, <2>6, <3>1 DEF Locations
    <3>3. CharAt(d, j) = i
      BY <1>2, <2>2, <3>2
    <3> QED  BY <1>2, <1>5, <2>1, <3>2, <3>3, ImagesAreAt
  <2> QED  BY <2>3, <2>4, <2>5, <2>6
<1> QED  BY <1>4, <1>5 DEF r, d

\* An attachment with newlines around it, as doInsertAttachment puts it in.
LEMMA NewImage ==
    ASSUME NEW i \in Image, NEW b \in {<< >>, <<Newline>>}, NEW a \in {<< >>, <<Newline>>}
    PROVE  LET new == b \o <<i>> \o a IN
           /\ new \in Seq(Char) /\ Len(new) = Len(b) + 1 + Len(a)
           /\ Len(b) \in Nat /\ Len(a) \in Nat
           /\ CharAt(new, Len(b)) = i
           /\ \A k \in Locations(new) : k # Len(b) => CharAt(new, k) = Newline
           /\ Once(new) /\ Images(new) = {i}
<1> DEFINE new == b \o <<i>> \o a
<1>1. /\ b \in Seq(Char) /\ <<i>> \in Seq(Char) /\ a \in Seq(Char)
      /\ Len(b) \in {0, 1} /\ Len(a) \in {0, 1} /\ Len(<<i>>) = 1
      /\ \A k \in 1 .. Len(b) : b[k] = Newline
      /\ \A k \in 1 .. Len(a) : a[k] = Newline
      /\ <<i>>[1] = i
  <2>1. i \in Char /\ Newline \in Char
    BY DEF Char, Newline
  <2>2. ASSUME NEW c \in {<< >>, <<Newline>>}
        PROVE  c \in Seq(Char) /\ Len(c) \in {0, 1} /\ \A k \in 1 .. Len(c) : c[k] = Newline
    <3>1. CASE c = << >>
      BY <3>1
    <3>2. CASE c = <<Newline>>
      BY <2>1, <3>2
    <3> QED  BY <3>1, <3>2
  <2>3. <<i>> \in Seq(Char) /\ Len(<<i>>) = 1 /\ <<i>>[1] = i
    BY <2>1
  <2> QED  BY <2>2, <2>3
<1> DEFINE bi == b \o <<i>>
<1>2. /\ bi \in Seq(Char) /\ Len(bi) = Len(b) + 1
      /\ \A k \in 1 .. Len(b) + 1 : bi[k] = IF k <= Len(b) THEN b[k] ELSE <<i>>[k - Len(b)]
  <2>1. /\ bi \in Seq(Char) /\ Len(bi) = Len(b) + Len(<<i>>)
        /\ \A k \in 1 .. Len(b) + Len(<<i>>) :
              bi[k] = IF k <= Len(b) THEN b[k] ELSE <<i>>[k - Len(b)]
    BY <1>1, ConcatProperties
  <2> QED  BY <1>1, <2>1
<1> HIDE DEF bi
<1>3. /\ new \in Seq(Char) /\ Len(new) = Len(bi) + Len(a)
      /\ \A k \in 1 .. Len(bi) + Len(a) :
            new[k] = IF k <= Len(bi) THEN bi[k] ELSE a[k - Len(bi)]
  <2>1. /\ bi \o a \in Seq(Char) /\ Len(bi \o a) = Len(bi) + Len(a)
        /\ \A k \in 1 .. Len(bi) + Len(a) :
              (bi \o a)[k] = IF k <= Len(bi) THEN bi[k] ELSE a[k - Len(bi)]
    BY <1>1, <1>2, ConcatProperties
  <2> QED  BY <2>1 DEF bi
<1> HIDE DEF new
<1>4. Len(new) = Len(b) + 1 + Len(a) /\ Len(b) \in Nat /\ Len(a) \in Nat
  BY <1>1, <1>2, <1>3
<1>5. CharAt(new, Len(b)) = i
  <2>1. new[Len(b) + 1] = bi[Len(b) + 1]
    BY <1>1, <1>2, <1>3
  <2>2. bi[Len(b) + 1] = i
    BY <1>1, <1>2
  <2> QED  BY <2>1, <2>2 DEF CharAt
<1>6. ASSUME NEW k \in Locations(new), k # Len(b) PROVE CharAt(new, k) = Newline
  <2>1. k \in Nat /\ k < Len(b) + 1 + Len(a)
    BY <1>4, <1>6 DEF Locations
  <2>2. CASE k < Len(b)
    <3>1. new[k + 1] = bi[k + 1] /\ bi[k + 1] = b[k + 1]
      BY <1>2, <1>3, <1>4, <2>1, <2>2
    <3> QED  BY <1>1, <1>4, <2>1, <2>2, <3>1 DEF CharAt
  <2>3. CASE k > Len(b)
    <3>1. new[k + 1] = a[k + 1 - Len(bi)]
      BY <1>2, <1>3, <1>4, <2>1, <2>3
    <3>2. k + 1 - Len(bi) \in 1 .. Len(a)
      BY <1>2, <1>4, <2>1, <2>3
    <3> QED  BY <1>1, <3>1, <3>2 DEF CharAt
  <2> QED  BY <1>4, <1>6, <2>1, <2>2, <2>3
<1>7. Newline \notin Image
  BY TextViewAssumption DEF Newline
<1>8. Once(new)
  BY <1>6, <1>7 DEF Once
<1>9. Images(new) = {i}
  <2>1. Len(b) \in Locations(new)
    BY <1>4 DEF Locations
  <2>2. i \in Images(new)
    BY <1>3, <1>5, <2>1, ImagesAreAt
  <2>3. ASSUME NEW j \in Images(new) PROVE j = i
    <3>1. j \in Image
      BY DEF Images
    <3>2. PICK k \in Locations(new) : CharAt(new, k) = j
      BY <1>3, <3>1, ImagesAreAt
    <3> QED  BY <1>5, <1>6, <1>7, <3>1, <3>2
  <2> QED  BY <2>2, <2>3
<1> QED  BY <1>3, <1>4, <1>5, <1>6, <1>8, <1>9 DEF new

\* A single character the user types.
LEMMA OneChar ==
    ASSUME NEW c \in {"x", "\n"}
    PROVE  <<c>> \in Seq(Char) /\ Len(<<c>>) = 1 /\ Once(<<c>>) /\ Images(<<c>>) = {}
<1>1. <<c>> \in Seq(Char) /\ Len(<<c>>) = 1 /\ DOMAIN <<c>> = {1} /\ <<c>>[1] = c /\ c \notin Image
  BY TextViewAssumption DEF Char
<1>2. Locations(<<c>>) = {0}
  BY <1>1 DEF Locations
<1> QED  BY <1>1, <1>2 DEF Once, Images, InRange

\* Nothing.
LEMMA NoChar ==
    << >> \in Seq(Char) /\ Len(<< >>) = 0 /\ Once(<< >>) /\ Images(<< >>) = {}
BY DEF Once, Locations, Images, InRange

-----------------------------------------------------------------------------
\* What is in the text or on screen was inserted, so that an image that is
\* inserted is new to both.
InsertedOnce == Images(text) \cup shown \subseteq used

\* After the deletion of one image the loop has one key to go through, that of
\* the image; without it the cache and the screen hold what the text holds.
CleanMeans ==
    clean => IF doomed = {} THEN InStep(text, cache, shown)
             ELSE \E key \in DOMAIN cache :
                    /\ doomed = {key}
                    /\ InRange(Without(cache, key)) = Images(text)
                    /\ shown \ {cache[key]} = Images(text)

TextInv == TypeOK /\ InsertedOnce /\ CachedIsShown /\ CleanMeans

LEMMA TextStarts == Init => TextInv
<1> SUFFICES ASSUME Init PROVE TextInv
  OBVIOUS
<1>1. text \in Seq(Char) /\ Once(text) /\ Images(text) = {}
  BY NoChar DEF Init
<1>2. DOMAIN cache = {}
  BY DEF Init
<1>3. TypeOK
  BY <1>1, <1>2 DEF Init, TypeOK, Once, Char
<1>4. CachedIsShown
  BY <1>2 DEF CachedIsShown, InRange
<1> QED  BY <1>1, <1>3, <1>4 DEF Init, TextInv, InsertedOnce, CleanMeans

\* An edit that brings in no attachment keeps the invariant.
LEMMA EditKeeps ==
    ASSUME TextInv, NEW loc \in Nat, NEW n \in Nat, loc + n <= Len(text),
           NEW new \in {<< >>, <<"x">>}, Edit(loc, n, new),
           UNCHANGED <<cache, shown, faded, raised, used>>, closing' \subseteq closing
    PROVE  TextInv'
<1>1. text \in Seq(Char) /\ Once(text)
  BY DEF TextInv, TypeOK, Once, Char
<1>2. new \in Seq(Char) /\ Len(new) \in Nat /\ Once(new) /\ Images(new) = {}
  BY NoChar, OneChar
<1>3. text' \in Seq(Char) /\ Once(text') /\ Images(text') \subseteq Images(text)
  <2>1. text' = Splice(text, loc, n, new)
    BY DEF Edit
  <2>2. Once(Splice(text, loc, n, new)) /\ Images(Splice(text, loc, n, new)) \subseteq Images(text)
    BY <1>1, <1>2, SpliceOnce
  <2>3. Splice(text, loc, n, new) \in Seq(Char)
    BY <1>1, <1>2, SpliceChars
  <2> QED  BY <2>1, <2>2, <2>3
<1>4. doomed' \subseteq DOMAIN cache
  BY DEF Edit, HitKeys
<1>5. TypeOK'
  <2>1. /\ DOMAIN cache' \subseteq Nat
        /\ \A k, l \in DOMAIN cache' : cache'[k] \in Image /\ (k # l => cache'[k] # cache'[l])
        /\ shown' \cup closing' \cup faded' \cup used' \subseteq Image
    BY DEF TextInv, TypeOK
  <2>2. doomed' \subseteq Nat /\ {raised', clean'} \subseteq BOOLEAN
    BY <1>4 DEF TextInv, TypeOK, Edit
  <2> QED  BY <1>3, <2>1, <2>2 DEF TypeOK, Once, Char
<1>6. InsertedOnce' /\ CachedIsShown'
  BY <1>3 DEF TextInv, InsertedOnce, CachedIsShown, InRange
<1>7. ASSUME clean'
      PROVE  \E key \in DOMAIN cache :
                 /\ doomed' = {key}
                 /\ InRange(Without(cache, key)) = Images(text')
                 /\ shown \ {cache[key]} = Images(text')
  <2>1. InStep(text, cache, shown) /\ new = << >>
    BY <1>7 DEF Edit
  <2> DEFINE d == SubSeq(text, loc + 1, loc + n)
  <2>2. PICK i \in Image : Images(d) = {i}
    BY <1>7 DEF Edit
  <2>3. text' = Splice(text, loc, n, << >>) /\ doomed' = HitKeys(cache, loc, n)
    <3>1. n - Len(<< >>) = n
      OBVIOUS
    <3> QED  BY <2>1, <3>1 DEF Edit
  <2>4. Images(text') = Images(text) \ {i}
    BY <1>1, <2>2, <2>3, CutLeaves
  <2>5. /\ d \in Seq(Char) /\ Len(d) = n
        /\ \A k \in 0 .. n - 1 : CharAt(d, k) = CharAt(text, loc + k)
    BY <1>1, CutPart
  <2>6. /\ DOMAIN cache = {k \in Locations(text) : CharAt(text, k) \in Image}
        /\ \A k \in DOMAIN cache : cache[k] = CharAt(text, k)
        /\ shown = Images(text)
    BY <2>1 DEF InStep
  <2> HIDE DEF d
  <2>7. PICK key \in DOMAIN cache : CharAt(text, key) = i /\ loc <= key /\ key < loc + n
    <3>1. PICK k \in Locations(d) : CharAt(d, k) = i
      BY <2>2, <2>5, ImagesAreAt
    <3>2. k \in 0 .. n - 1
      BY <2>5, <3>1 DEF Locations
    <3>3. Len(text) \in Nat
      BY <1>1
    <3>4. loc + k \in Locations(text) /\ loc <= loc + k /\ loc + k < loc + n
      BY <3>2, <3>3 DEF Locations
    <3>5. CharAt(text, loc + k) = i
      BY <2>5, <3>1, <3>2
    <3> QED  BY <2>6, <3>4, <3>5
  <2>8. ASSUME NEW k \in DOMAIN cache, k # key PROVE CharAt(text, k) # i
    BY <1>1, <2>6, <2>7, <2>8 DEF Once
  <2>9. HitKeys(cache, loc, n) = {key}
    <3>1. key \in HitKeys(cache, loc, n)
      BY <2>7 DEF HitKeys
    <3>2. ASSUME NEW k \in DOMAIN cache, loc <= k, k < loc + n PROVE k = key
      <4>1. k \in Nat /\ CharAt(text, k) \in Image
        BY <2>6 DEF TextInv, TypeOK
      <4>2. PICK j \in Int : j = k - loc
        BY <4>1
      <4>3. j \in 0 .. n - 1 /\ loc + j = k /\ j \in Locations(d)
        BY <2>5, <3>2, <4>1, <4>2 DEF Locations
      <4>4. CharAt(d, j) = CharAt(text, k)
        BY <2>5, <4>3
      <4>5. CharAt(text, k) \in Images(d)
        BY <2>5, <4>1, <4>3, <4>4, ImagesAreAt
      <4> QED  BY <2>2, <2>8, <4>5
    <3> QED  BY <3>1, <3>2 DEF HitKeys
  <2>10. InRange(Without(cache, key)) = Images(text) \ {i}
    <3>1. InRange(Without(cache, key)) = {cache[k] : k \in DOMAIN cache \ {key}}
      BY DEF InRange, Without
    <3>2. ASSUME NEW k \in DOMAIN cache \ {key} PROVE cache[k] \in Images(text) \ {i}
      <4>1. k \in Locations(text) /\ CharAt(text, k) \in Image /\ cache[k] = CharAt(text, k)
        BY <2>6
      <4> QED  BY <1>1, <2>8, <4>1, ImagesAreAt
    <3>3. ASSUME NEW j \in Images(text) \ {i} PROVE \E k \in DOMAIN cache \ {key} : cache[k] = j
      <4>1. j \in Image
        BY DEF Images
      <4>2. PICK k \in Locations(text) : CharAt(text, k) = j
        BY <1>1, <4>1, ImagesAreAt
      <4> QED  BY <2>6, <2>7, <4>1, <4>2
    <3> QED  BY <3>1, <3>2, <3>3
  <2> QED  BY <2>3, <2>4, <2>6, <2>7, <2>9, <2>10
<1>8. CleanMeans'
  BY <1>7 DEF CleanMeans
<1> QED  BY <1>5, <1>6, <1>8 DEF TextInv

\* An image that is inserted keeps the invariant.
LEMMA InsertKeeps ==
    ASSUME TextInv, NEW i \in Image, NEW caret \in Nat, InsertImage(i, caret)
    PROVE  TextInv'
<1> DEFINE b == Before(caret)
           a == After(caret)
           new == b \o <<i>> \o a
           key == caret + Len(b)
<1>1. text \in Seq(Char) /\ Once(text) /\ Images(text) \cup shown \subseteq used
  BY DEF TextInv, TypeOK, Once, Char, InsertedOnce
<1>2. b \in {<< >>, <<Newline>>} /\ a \in {<< >>, <<Newline>>}
  BY DEF Before, After, Newline
<1>3. new \in Seq(Char) /\ Once(new) /\ Images(new) = {i} /\ Len(b) \in Nat
  BY <1>2, NewImage
<1>4. /\ i \notin used /\ caret <= Len(text) /\ used' = used \cup {i} /\ shown' = shown \cup {i}
      /\ text' = Splice(text, caret, 0, new)
      /\ cache' = [l \in DOMAIN cache \cup {key} |-> IF l = key THEN i ELSE cache[l]]
      /\ clean' = FALSE /\ UNCHANGED <<doomed, closing, faded, raised>>
  BY DEF InsertImage
<1> HIDE DEF new, b, a
<1>5. 0 \in Nat /\ caret + 0 <= Len(text)
  BY <1>1, <1>4
<1>6. text' \in Seq(Char) /\ Once(text') /\ Images(text') \subseteq Images(text) \cup {i}
  <2>1. Images(text) \cap Images(new) = {}
    BY <1>1, <1>3, <1>4
  <2>2. /\ Once(Splice(text, caret, 0, new))
        /\ Images(Splice(text, caret, 0, new)) \subseteq Images(text) \cup Images(new)
    BY <1>1, <1>3, <1>5, <2>1, SpliceOnce
  <2>3. Splice(text, caret, 0, new) \in Seq(Char)
    BY <1>1, <1>3, <1>5, SpliceChars
  <2> QED  BY <1>3, <1>4, <2>2, <2>3
<1>7. key \in Nat
  BY <1>3
<1> HIDE DEF key
<1>8. ASSUME NEW l \in DOMAIN cache
      PROVE  cache[l] \in Image /\ cache[l] # i /\ cache[l] \in shown
  BY <1>1, <1>4 DEF TextInv, TypeOK, CachedIsShown, InRange
<1>9. /\ DOMAIN cache' \subseteq Nat
      /\ \A k, l \in DOMAIN cache' : cache'[k] \in Image /\ (k # l => cache'[k] # cache'[l])
  <2>1. DOMAIN cache' = DOMAIN cache \cup {key}
    BY <1>4
  <2>2. \A l \in DOMAIN cache' : cache'[l] = IF l = key THEN i ELSE cache[l]
    BY <1>4
  <2>3. \A k, l \in DOMAIN cache : k # l => cache[k] # cache[l]
    BY DEF TextInv, TypeOK
  <2>4. DOMAIN cache \subseteq Nat
    BY DEF TextInv, TypeOK
  <2> QED  BY <1>7, <1>8, <2>1, <2>2, <2>3, <2>4
<1>10. TypeOK'
  <2>1. shown' \cup closing' \cup faded' \cup used' \subseteq Image
    BY <1>4 DEF TextInv, TypeOK
  <2>2. doomed' \subseteq Nat /\ {raised', clean'} \subseteq BOOLEAN
    BY <1>4 DEF TextInv, TypeOK
  <2> QED  BY <1>6, <1>9, <2>1, <2>2 DEF TypeOK, Once, Char
<1>11. InsertedOnce'
  BY <1>1, <1>4, <1>6 DEF InsertedOnce
<1>12. CachedIsShown'
  BY <1>4, <1>8 DEF CachedIsShown, InRange
<1> QED  BY <1>4, <1>10, <1>11, <1>12 DEF TextInv, CleanMeans

\* One round of the loop keeps the invariant.
LEMMA RoundKeeps ==
    ASSUME TextInv, NEW k \in doomed, RemoveView(k)
    PROVE  TextInv'
<1> DEFINE rest == Without(cache, k)
<1>1. text \in Seq(Char) /\ Once(text) /\ Images(text) \cup shown \subseteq used
  BY DEF TextInv, TypeOK, Once, Char, InsertedOnce
<1>2. /\ doomed' = doomed \ {k}
      /\ shown' = IF k \in DOMAIN cache THEN shown \ {cache[k]} ELSE shown
      /\ cache' = [l \in {j \in Locations(text) : CharAt(text, j) \in InRange(rest)} |-> CharAt(text, l)]
      /\ UNCHANGED <<text, closing, faded, raised, used, clean>>
  BY DEF RemoveView, LayoutAttachmentView
<1>3. InRange(rest) = {cache[l] : l \in DOMAIN cache \ {k}}
  BY DEF InRange, Without
<1> HIDE DEF rest
<1>4. InRange(rest) \subseteq Image /\ InRange(rest) \subseteq shown'
  <2>1. \A l \in DOMAIN cache \ {k} : cache[l] \in Image /\ cache[l] \in shown
    BY DEF TextInv, TypeOK, CachedIsShown, InRange
  <2>2. k \in DOMAIN cache => \A l \in DOMAIN cache \ {k} : cache[l] # cache[k]
    BY DEF TextInv, TypeOK
  <2> QED  BY <1>2, <1>3, <2>1, <2>2
<1>5. /\ DOMAIN cache' = {j \in Locations(text) : CharAt(text, j) \in InRange(rest)}
      /\ \A l \in DOMAIN cache' : cache'[l] = CharAt(text, l)
  BY <1>2
<1>6. TypeOK'
  <2>1. DOMAIN cache' \subseteq Nat
    BY <1>1, <1>5 DEF Locations
  <2>2. \A m, l \in DOMAIN cache' : cache'[m] \in Image /\ (m # l => cache'[m] # cache'[l])
    BY <1>1, <1>4, <1>5 DEF Once
  <2>3. shown' \cup closing' \cup faded' \cup used' \subseteq Image
    BY <1>2 DEF TextInv, TypeOK
  <2>4. doomed' \subseteq Nat /\ {raised', clean'} \subseteq BOOLEAN
    BY <1>2 DEF TextInv, TypeOK
  <2>5. text' \in Seq(Char) /\ Once(text')
    BY <1>1, <1>2
  <2> QED  BY <2>1, <2>2, <2>3, <2>4, <2>5 DEF TypeOK, Once, Char
<1>7. InsertedOnce'
  BY <1>1, <1>2 DEF InsertedOnce
<1>8. CachedIsShown'
  BY <1>4, <1>5 DEF CachedIsShown, InRange
<1>9. ASSUME clean' PROVE doomed' = {} /\ InStep(text', cache', shown')
  <2>1. PICK key \in DOMAIN cache :
            /\ doomed = {key}
            /\ InRange(Without(cache, key)) = Images(text)
            /\ shown \ {cache[key]} = Images(text)
    BY <1>2, <1>9 DEF TextInv, CleanMeans
  <2>2. key = k
    BY <2>1
  <2>3. InRange(rest) = Images(text) /\ shown' = Images(text) /\ doomed' = {}
    BY <1>2, <2>1, <2>2 DEF rest
  <2>4. {j \in Locations(text) : CharAt(text, j) \in InRange(rest)}
            = {j \in Locations(text) : CharAt(text, j) \in Image}
    BY <1>1, <1>4, <2>3, ImagesAreAt
  <2> QED  BY <1>2, <2>3, <2>4 DEF InStep
<1> QED  BY <1>6, <1>7, <1>8, <1>9 DEF TextInv, CleanMeans

\* Every step keeps the invariant.
LEMMA TextStep == TextInv /\ [Next]_vars => TextInv'
<1> SUFFICES ASSUME TextInv, [Next]_vars PROVE TextInv'
  OBVIOUS
<1>0. text \in Seq(Char) /\ Once(text) /\ Len(text) \in Nat
  BY DEF TextInv, TypeOK, Once, Char
<1>1. ASSUME NEW char \in {"x", "\n"}, NEW loc \in 0 .. Len(text), Type(char, loc) PROVE TextInv'
  <2>1. loc \in Nat /\ 0 \in Nat /\ loc + 0 <= Len(text)
    BY <1>0
  <2>2. <<char>> \in Seq(Char) /\ Once(<<char>>) /\ Images(<<char>>) = {}
    BY OneChar
  <2>3. /\ Once(Splice(text, loc, 0, <<char>>))
        /\ Images(Splice(text, loc, 0, <<char>>)) \subseteq Images(text)
    <3>1. Images(text) \cap Images(<<char>>) = {}
      BY <2>2
    <3>2. /\ Once(Splice(text, loc, 0, <<char>>))
          /\ Images(Splice(text, loc, 0, <<char>>)) \subseteq Images(text) \cup Images(<<char>>)
      BY <1>0, <2>1, <2>2, <3>1, SpliceOnce
    <3> QED  BY <2>2, <3>2
  <2>4. Splice(text, loc, 0, <<char>>) \in Seq(Char)
    BY <1>0, <2>1, <2>2, SpliceChars
  <2>5. /\ text' = Splice(text, loc, 0, <<char>>) /\ clean' = FALSE
        /\ UNCHANGED <<cache, shown, doomed, closing, faded, raised, used>>
    BY <1>1 DEF Type
  <2>6. TypeOK'
    BY <2>3, <2>4, <2>5 DEF TextInv, TypeOK, Once, Char
  <2> QED  BY <2>3, <2>5, <2>6 DEF TextInv, InsertedOnce, CachedIsShown, InRange, CleanMeans
<1>2. ASSUME NEW loc \in Locations(text), NEW n \in 1 .. Len(text), NEW new \in {<< >>, <<"x">>},
             Overwrite(loc, n, new)
      PROVE  TextInv'
  <2>1. loc \in Nat /\ n \in Nat
    BY <1>0 DEF Locations
  <2> QED  BY <1>2, <2>1, EditKeeps DEF Overwrite
<1>3. ASSUME NEW i \in Image, NEW caret \in 0 .. Len(text), InsertImage(i, caret) PROVE TextInv'
  <2>1. caret \in Nat
    BY <1>0
  <2> QED  BY <1>3, <2>1, InsertKeeps
<1>4. ASSUME NEW i \in Image, NEW caret \in 0 .. Len(text), InsertImageRaises(i, caret) PROVE TextInv'
  <2>1. /\ used' = used \cup {i} /\ shown' = shown \cup {i} /\ raised' = TRUE /\ clean' = FALSE
        /\ UNCHANGED <<text, cache, doomed, closing, faded>>
    BY <1>4 DEF InsertImageRaises
  <2>2. TypeOK'
    BY <2>1 DEF TextInv, TypeOK, Locations, CharAt
  <2>3. InsertedOnce' /\ CachedIsShown'
    BY <2>1 DEF TextInv, InsertedOnce, CachedIsShown, InRange, Images
  <2> QED  BY <2>1, <2>2, <2>3 DEF TextInv, CleanMeans
<1>5. ASSUME NEW i \in Image, CloseDeletes(i) PROVE TextInv'
  <2>1. PICK loc \in Locations(text) : Edit(CloseStart(loc), CloseEnd(loc) - CloseStart(loc), << >>)
    BY <1>5 DEF CloseDeletes
  <2>2. loc \in Nat /\ loc < Len(text)
    BY <1>0 DEF Locations
  <2>3. PICK p \in Nat, n \in Nat :
            p = CloseStart(loc) /\ n = CloseEnd(loc) - CloseStart(loc) /\ p + n <= Len(text)
    <3>1. CloseStart(loc) \in Nat /\ CloseStart(loc) <= loc
      BY <2>2 DEF CloseStart
    <3>2. CloseEnd(loc) \in Nat /\ loc <= CloseEnd(loc) /\ CloseEnd(loc) <= Len(text)
      BY <1>0, <2>2 DEF CloseEnd
    <3>3. CloseEnd(loc) - CloseStart(loc) \in Nat
      BY <2>2, <3>1, <3>2
    <3>4. CloseStart(loc) + (CloseEnd(loc) - CloseStart(loc)) <= Len(text)
      BY <3>1, <3>2
    <3> QED  BY <3>1, <3>3, <3>4
  <2>4. Edit(p, n, << >>)
    BY <2>1, <2>3
  <2>5. UNCHANGED <<cache, shown, faded, raised, used>> /\ closing' \subseteq closing
    BY <1>5 DEF CloseDeletes
  <2> QED  BY <2>3, <2>4, <2>5, EditKeeps
<1>6. ASSUME NEW i \in Image, ClickClose(i) \/ CloseFindsNothing(i) PROVE TextInv'
  <2>1. /\ closing' \subseteq Image /\ faded' \subseteq Image
        /\ UNCHANGED <<text, cache, shown, doomed, raised, used, clean>>
    BY <1>6 DEF ClickClose, CloseFindsNothing, TextInv, TypeOK
  <2>2. TypeOK'
    BY <2>1 DEF TextInv, TypeOK, Locations, CharAt
  <2> QED  BY <2>1, <2>2 DEF TextInv, InsertedOnce, CachedIsShown, InRange, Images, CleanMeans,
                             InStep, Without, Locations, CharAt
<1>7. ASSUME NEW k \in doomed, RemoveView(k) PROVE TextInv'
  BY <1>7, RoundKeeps
<1>8. CASE UNCHANGED vars
  <2>1. UNCHANGED <<text, cache, shown, doomed, closing, faded, raised, used, clean>>
    BY <1>8 DEF vars
  <2>2. TypeOK'
    BY <2>1 DEF TextInv, TypeOK, Locations, CharAt
  <2> QED  BY <2>1, <2>2 DEF TextInv, InsertedOnce, CachedIsShown, InRange, Images, CleanMeans,
                             InStep, Without, Locations, CharAt
<1> QED  BY <1>1, <1>2, <1>3, <1>4, <1>5, <1>6, <1>7, <1>8 DEF Next

\* The invariant of the text view, which the next theorem uses.
THEOREM TextInvariant == Spec => []TextInv
BY TextStarts, TextStep, PTL DEF Spec

\* No attachment and no view is there twice, whatever is typed, inserted,
\* deleted or closed (NTCArticleTextView, textStorage and _imageViewCache).
THEOREM TypeCorrect == Spec => []TypeOK
<1>1. TextInv => TypeOK
  BY DEF TextInv
<1> QED  BY <1>1, TextInvariant, PTL

\* For any attachments and any text: a view the loop of willProcessEditing
\* takes off the screen does not come back into the cache, however stale its
\* key, and the deletion of one image from a view that is in step takes off
\* its view and no other and makes every key fresh (layoutAttachmentView).
THEOREM CacheKeepsInStep == Spec => []CacheInStep
<1>1. TextInv => CacheInStep
  BY DEF TextInv, CleanMeans, CacheInStep, OneImageLeavesInStep
<1> QED  BY <1>1, TextInvariant, PTL

\* What is inserted stands where the caret was, and the rest moves on.
LEMMA InsertedAt ==
    ASSUME NEW s \in Seq(Char), NEW caret \in Nat, caret <= Len(s), NEW new \in Seq(Char)
    PROVE  LET r == Splice(s, caret, 0, new) IN
           /\ Len(r) = Len(s) + Len(new)
           /\ \A k \in Nat : k < caret => CharAt(r, k) = CharAt(s, k)
           /\ \A k \in Nat : k < Len(new) => CharAt(r, caret + k) = CharAt(new, k)
           /\ \A k \in Nat : caret <= k /\ k < Len(s) => CharAt(r, k + Len(new)) = CharAt(s, k)
<1>1. PICK z \in Nat : z = 0 /\ caret + z <= Len(s)
  OBVIOUS
<1> DEFINE r == Splice(s, caret, z, new)
<1>2. /\ r \in Seq(Char) /\ Len(r) = Len(s) - z + Len(new)
      /\ \A k \in Locations(r) :
            CharAt(r, k) = IF k < caret THEN CharAt(s, k)
                           ELSE IF k < caret + Len(new) THEN CharAt(new, k - caret)
                           ELSE CharAt(s, k - Len(new) + z)
  BY <1>1, SpliceChars
<1> HIDE DEF r
<1>3. Len(r) = Len(s) + Len(new) /\ Len(s) \in Nat /\ Len(new) \in Nat
  BY <1>1, <1>2
<1>4. ASSUME NEW k \in Nat, k < caret PROVE CharAt(r, k) = CharAt(s, k)
  <2>1. k \in Locations(r)
    BY <1>3, <1>4 DEF Locations
  <2> QED  BY <1>2, <1>4, <2>1
<1>5. ASSUME NEW k \in Nat, k < Len(new) PROVE CharAt(r, caret + k) = CharAt(new, k)
  <2>1. PICK m \in Nat : m = caret + k
    OBVIOUS
  <2>2. m \in Locations(r) /\ ~ (m < caret) /\ m < caret + Len(new) /\ m - caret = k
    BY <1>3, <1>5, <2>1 DEF Locations
  <2>3. CharAt(r, m) = CharAt(new, m - caret)
    BY <1>2, <2>2
  <2> QED  BY <2>1, <2>2, <2>3
<1>6. ASSUME NEW k \in Nat, caret <= k, k < Len(s) PROVE CharAt(r, k + Len(new)) = CharAt(s, k)
  <2>1. PICK m \in Nat : m = k + Len(new)
    BY <1>3
  <2>2. /\ m \in Locations(r) /\ ~ (m < caret) /\ ~ (m < caret + Len(new))
        /\ m - Len(new) + z = k
    BY <1>1, <1>3, <1>6, <2>1 DEF Locations
  <2>3. CharAt(r, m) = CharAt(s, m - Len(new) + z)
    BY <1>2, <2>2
  <2> QED  BY <2>1, <2>2, <2>3
<1> QED  BY <1>1, <1>3, <1>4, <1>5, <1>6 DEF r

\* The image stands between the beginning of the text or a newline, and a
\* newline.
OnOwnLine(s, i) ==
    \E loc \in Locations(s) :
        /\ CharAt(s, loc) = i
        /\ loc = 0 \/ CharAt(s, loc - 1) = Newline
        /\ loc + 1 < Len(s) /\ CharAt(s, loc + 1) = Newline

\* A newline where none stands makes a line of its own for the image.
LEMMA OwnLineOf ==
    ASSUME NEW s \in Seq(Char), NEW caret \in Nat, NEW i \in Image,
           NEW b \in {<< >>, <<Newline>>}, NEW a \in {<< >>, <<Newline>>},
           caret <= Len(s),
           b = << >> => caret = 0 \/ CharAt(s, caret - 1) = Newline,
           a = << >> => caret < Len(s) /\ CharAt(s, caret) = Newline
    PROVE  OnOwnLine(Splice(s, caret, 0, b \o <<i>> \o a), i)
<1> DEFINE new == b \o <<i>> \o a
           r == Splice(s, caret, 0, new)
<1>1. /\ new \in Seq(Char) /\ Len(new) = Len(b) + 1 + Len(a)
      /\ Len(b) \in Nat /\ Len(a) \in Nat
      /\ CharAt(new, Len(b)) = i
      /\ \A k \in Locations(new) : k # Len(b) => CharAt(new, k) = Newline
  BY NewImage
<1> HIDE DEF new
<1>2. new \in Seq(Char)
  BY <1>1
<1>3. /\ Len(r) = Len(s) + Len(new)
      /\ \A k \in Nat : k < caret => CharAt(r, k) = CharAt(s, k)
      /\ \A k \in Nat : k < Len(new) => CharAt(r, caret + k) = CharAt(new, k)
      /\ \A k \in Nat : caret <= k /\ k < Len(s) => CharAt(r, k + Len(new)) = CharAt(s, k)
  BY <1>2, InsertedAt
<1> HIDE DEF r
<1>4. Len(new) \in Nat /\ Len(s) \in Nat /\ Len(r) \in Nat
  BY <1>1, <1>3
<1>5. (b = <<Newline>> => Len(b) = 1) /\ (b = << >> => Len(b) = 0)
  OBVIOUS
<1>6. (a = <<Newline>> => Len(a) = 1) /\ (a = << >> => Len(a) = 0)
  OBVIOUS
<1>7. PICK loc \in Nat : loc = caret + Len(b)
  BY <1>1
<1>8. loc \in Locations(r) /\ CharAt(r, loc) = i
  <2>1. Len(b) < Len(new)
    BY <1>1
  <2> QED  BY <1>1, <1>3, <1>4, <1>7, <2>1 DEF Locations
<1>9. loc = 0 \/ CharAt(r, loc - 1) = Newline
  <2>1. CASE b = <<Newline>>
    <3>1. 0 \in Locations(new) /\ 0 # Len(b) /\ 0 < Len(new)
      BY <1>1, <1>4, <1>5, <2>1 DEF Locations
    <3>2. CharAt(new, 0) = Newline
      BY <1>1, <3>1
    <3>3. loc - 1 = caret + 0
      BY <1>5, <1>7, <2>1
    <3>4. CharAt(r, caret + 0) = CharAt(new, 0)
      BY <1>3, <3>1
    <3> QED  BY <3>2, <3>3, <3>4
  <2>2. CASE b = << >> /\ caret = 0
    BY <1>5, <1>7, <2>2
  <2>3. CASE b = << >> /\ caret # 0
    <3>1. caret - 1 \in Nat /\ caret - 1 < caret /\ loc - 1 = caret - 1
      BY <1>5, <1>7, <2>3
    <3>2. CharAt(r, caret - 1) = CharAt(s, caret - 1)
      BY <1>3, <3>1
    <3> QED  BY <2>3, <3>1, <3>2
  <2> QED  BY <2>1, <2>2, <2>3
<1>10. loc + 1 < Len(r) /\ CharAt(r, loc + 1) = Newline
  <2>1. CASE a = <<Newline>>
    <3>1. PICK k \in Nat : k = Len(b) + 1
      BY <1>1
    <3>2. k \in Locations(new) /\ k # Len(b) /\ k < Len(new)
      BY <1>1, <1>4, <1>6, <2>1, <3>1 DEF Locations
    <3>3. loc + 1 = caret + k /\ loc + 1 < Len(r)
      BY <1>3, <1>4, <1>1, <1>7, <3>1, <3>2
    <3>4. CharAt(new, k) = Newline
      BY <1>1, <3>2
    <3>5. CharAt(r, caret + k) = CharAt(new, k)
      BY <1>3, <3>2
    <3> QED  BY <3>3, <3>4, <3>5
  <2>2. CASE a = << >>
    <3>1. Len(new) = Len(b) + 1 /\ loc + 1 = caret + Len(new) /\ caret < Len(s)
      BY <1>1, <1>6, <1>7, <2>2
    <3>2. CharAt(r, caret + Len(new)) = CharAt(s, caret)
      BY <1>3, <3>1
    <3>3. loc + 1 < Len(r)
      BY <1>3, <1>4, <3>1
    <3> QED  BY <2>2, <3>1, <3>2, <3>3
  <2> QED  BY <2>1, <2>2
<1>11. OnOwnLine(r, i)
  BY <1>8, <1>9, <1>10 DEF OnOwnLine
<1> QED  BY <1>11 DEF r, new

\* An image comes to stand on a line of its own, wherever the caret is and
\* whatever stands next to it (doInsertAttachment).
THEOREM ComesOnItsOwnLine == Spec => OwnLine
<1>1. ASSUME TextInv, [Next]_vars, ~raised', NEW i \in used' \ used
      PROVE  \E loc \in Locations(text') :
                 /\ CharAt(text', loc) = i
                 /\ loc = 0 \/ CharAt(text', loc - 1) = "\n"
                 /\ loc + 1 < Len(text') /\ CharAt(text', loc + 1) = "\n"
  <2>1. PICK j \in Image, caret \in 0 .. Len(text) : InsertImage(j, caret)
    BY <1>1 DEF Next, vars, Type, Overwrite, InsertImageRaises, ClickClose, CloseDeletes,
                CloseFindsNothing, RemoveView
  <2>2. j = i
    BY <1>1, <2>1 DEF InsertImage
  <2>3. text \in Seq(Char) /\ Len(text) \in Nat /\ caret \in Nat /\ caret <= Len(text)
    BY <1>1, <2>1 DEF TextInv, TypeOK, Char
  <2>4. PICK b \in {<< >>, <<Newline>>}, a \in {<< >>, <<Newline>>} : b = Before(caret) /\ a = After(caret)
    BY DEF Before, After, Newline, Newline
  <2>5. b = << >> => caret = 0 \/ CharAt(text, caret - 1) = Newline
    <3>1. text = << >> => caret = 0
      BY <2>3
    <3> QED  BY <2>4, <3>1 DEF Before, Newline, Newline
  <2>6. a = << >> => caret < Len(text) /\ CharAt(text, caret) = Newline
    BY <2>3, <2>4 DEF After, Newline, Newline
  <2>7. text' = Splice(text, caret, 0, b \o <<j>> \o a)
    BY <2>1, <2>4 DEF InsertImage
  <2>8. OnOwnLine(Splice(text, caret, 0, b \o <<j>> \o a), j)
    BY <2>3, <2>5, <2>6, OwnLineOf
  <2>9. OnOwnLine(text', i)
    BY <2>2, <2>7, <2>8 DEF Newline
  <2> QED  BY <2>9 DEF OnOwnLine, Newline
<1>2. TextInv /\ [Next]_vars =>
          [\A i \in used' \ used : ~raised' =>
              \E loc \in Locations(text') :
                  /\ CharAt(text', loc) = i
                  /\ loc = 0 \/ CharAt(text', loc - 1) = "\n"
                  /\ loc + 1 < Len(text') /\ CharAt(text', loc + 1) = "\n"]_vars
  BY <1>1
<1> QED  BY <1>2, TextInvariant, PTL DEF Spec, OwnLine

\* What deleteAttachment takes: the image, and on each side a newline or nothing.
LEMMA ClosedPiece ==
    ASSUME TextInv, NEW i \in Image, CloseDeletes(i)
    PROVE  /\ Images(text') = Images(text) \ {i}
           /\ PieceTaken(text, text', i)
<1>0. text \in Seq(Char) /\ Len(text) \in Nat /\ Once(text)
  BY DEF TextInv, TypeOK, Char, Once
<1>1. PICK loc \in Locations(text) :
          CharAt(text, loc) = i /\ Edit(CloseStart(loc), CloseEnd(loc) - CloseStart(loc), << >>)
  BY DEF CloseDeletes
<1>2. loc \in Nat /\ loc < Len(text)
  BY <1>0 DEF Locations
<1>3. PICK p \in Nat : p = CloseStart(loc) /\ (p = loc \/ (p + 1 = loc /\ CharAt(text, p) = Newline))
  BY <1>2 DEF CloseStart, Newline
<1>4. PICK e \in Nat :
          /\ e = CloseEnd(loc) /\ e <= Len(text)
          /\ e = loc + 1 \/ (e = loc + 2 /\ CharAt(text, loc + 1) = Newline)
  BY <1>0, <1>2 DEF CloseEnd, Newline
<1>5. PICK n \in 1 .. 3 : n = e - p
  BY <1>2, <1>3, <1>4
<1>6. n \in Nat /\ p + n = e /\ p + n <= Len(text) /\ p \in Locations(text)
  BY <1>0, <1>2, <1>3, <1>4, <1>5 DEF Locations
<1>7. text' = Splice(text, p, n, << >>)
  BY <1>1, <1>3, <1>4, <1>5 DEF Edit
<1> DEFINE d == SubSeq(text, p + 1, p + n)
<1>8. d \in Seq(Char) /\ Len(d) = n /\ \A k \in 0 .. n - 1 : CharAt(d, k) = CharAt(text, p + k)
  BY <1>0, <1>6, CutPart
<1>9. Images(text') = Images(text) \ Images(d)
  BY <1>0, <1>6, <1>7, CutLeaves
<1> HIDE DEF d
<1>10. ASSUME NEW k \in 0 .. n - 1 PROVE CharAt(d, k) \in {i, Newline}
  <2>1. k \in Nat /\ k < n /\ CharAt(d, k) = CharAt(text, p + k)
    BY <1>5, <1>8
  <2>2. p + k = loc \/ (p + 1 = loc /\ p + k = p) \/ (e = loc + 2 /\ p + k = loc + 1)
    BY <1>2, <1>3, <1>4, <1>6, <2>1
  <2> QED  BY <1>1, <1>3, <1>4, <2>1, <2>2
<1>11. InRange(d) \subseteq {i, Newline}
  <2> SUFFICES ASSUME NEW m \in DOMAIN d PROVE d[m] \in {i, Newline}
    BY DEF InRange
  <2>1. m \in 1 .. n
    BY <1>8
  <2>2. m - 1 \in 0 .. n - 1 /\ (m - 1) + 1 = m
    BY <1>6, <2>1
  <2> QED  BY <1>10, <2>2 DEF CharAt
<1>12. Images(d) = {i}
  <2>1. loc - p \in 0 .. n - 1 /\ p + (loc - p) = loc
    <3>1. p <= loc /\ loc + 1 <= e /\ n = e - p
      BY <1>2, <1>3, <1>4, <1>5
    <3> QED  BY <1>2, <3>1
  <2>2. CharAt(d, loc - p) = i
    BY <1>1, <1>8, <2>1
  <2>3. loc - p \in Locations(d)
    BY <1>8, <2>1 DEF Locations
  <2>4. i \in Images(d)
    BY <1>8, <2>2, <2>3, ImagesAreAt
  <2>5. Newline \notin Image
    BY TextViewAssumption DEF Newline
  <2> QED  BY <1>11, <2>4, <2>5 DEF Images
<1> QED  BY <1>6, <1>7, <1>9, <1>11, <1>12 DEF PieceTaken, d, Newline

\* An edit changes what it is about: an inserted image comes on a line of its
\* own, and the close button takes its image with newlines next to it, however
\* the text changed while its view faded.
THEOREM EditsStayLocal == Spec => EditsAreLocal
<1>1. ASSUME TextInv, Next, NEW i \in closing \ closing'
      PROVE  /\ Images(text') = Images(text) \ {i}
             /\ text' = text \/ PieceTaken(text, text', i)
  <2>1. PICK j \in Image : CloseDeletes(j) \/ CloseFindsNothing(j)
    BY <1>1 DEF Next, Type, Overwrite, InsertImage, InsertImageRaises, ClickClose, RemoveView
  <2>2. j = i
    BY <1>1, <2>1 DEF CloseDeletes, CloseFindsNothing
  <2>3. CASE CloseDeletes(j)
    BY <1>1, <2>2, <2>3, ClosedPiece
  <2>4. CASE CloseFindsNothing(j)
    BY <2>2, <2>4 DEF CloseFindsNothing, Images
  <2> QED  BY <2>1, <2>3, <2>4
<1>2. TextInv /\ [Next]_vars =>
          [\A i \in closing \ closing' :
              /\ Images(text') = Images(text) \ {i}
              /\ text' = text \/ PieceTaken(text, text', i)]_vars
  BY <1>1
<1>3. Spec => ButtonTakesOneImage
  BY <1>2, TextInvariant, PTL DEF Spec, ButtonTakesOneImage
<1> QED  BY <1>3, ComesOnItsOwnLine DEF EditsAreLocal
=============================================================================
