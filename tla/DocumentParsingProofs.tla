----------------------- MODULE DocumentParsingProofs -----------------------
(***************************************************************************)
(* Proofs about DocumentParsing: for all trees of all sections and all     *)
(* pages, what the blocks are made of, what they are called and what a     *)
(* parser raises.                                                          *)
(***************************************************************************)
EXTENDS DocumentParsing, FiniteSetTheorems, TLAPS

----------------------------------------------------------------------------
(* The inductive invariant.                                                *)

\* The spine of a package that is read names members, and the sections before the
\* one being walked are done with.
PlaceInv ==
    /\ pc = "open" => part = 1 /\ blocks = <<>>
    /\ IsPackage /\ (blocks # <<>> \/ pc \notin {"open", "rejected", "raised"}) =>
           \A i \in DOMAIN file.spine : SectionPath(i) \in DOMAIN file.members
    /\ pc = "walk" => IsPackage /\ part <= Len(file.spine)
    /\ IsPackage /\ pc = "parsed" => part > Len(file.spine)
    /\ IsPackage => \A k \in DOMAIN blocks :
           /\ blocks[k].part \in DOMAIN file.spine /\ blocks[k].part <= part
           /\ blocks[k].part = part => pc \in {"walk", "raised"}

\* The walk is never inside a paragraph or a table, and it has counted those before.
CountedBefore(tree, kind, n) == {m \in Counted(tree, kind) : m < n}
CursorInv ==
    pc = "walk" =>
        /\ cursor \in DOMAIN TreeOf(part) => ~Within(TreeOf(part), cursor)
        /\ paragraph = Cardinality(CountedBefore(TreeOf(part), "p", cursor))
        /\ table = Cardinality(CountedBefore(TreeOf(part), "tbl", cursor))

\* Each block is made of one element that a locator counts.
CountedKind(b) == IF b.kind = "table" THEN "tbl" ELSE "p"
MadeOf(tree, b, n) ==
    /\ n \in Counted(tree, CountedKind(b))
    /\ b.index = Cardinality(CountedBefore(tree, CountedKind(b), n))
    /\ \A t \in b.text : Holds(tree, n, t)
BlocksAreLocated ==
    IsPackage => \A k \in DOMAIN blocks, i \in DOMAIN file.spine :
        blocks[k].part = i => \E n \in DOMAIN TreeOf(i) : MadeOf(TreeOf(i), blocks[k], n)

\* No two blocks of a part have letter and index in common, since those of the
\* current part have been counted.
PackageCounters ==
    IsPackage => \A k \in DOMAIN blocks :
        pc = "walk" /\ blocks[k].part = part =>
            blocks[k].index < IF blocks[k].letter = "t" THEN table ELSE paragraph
PdfCounters ==
    ~IsPackage => \A k \in DOMAIN blocks :
        /\ blocks[k].part <= part
        /\ blocks[k].part = part =>
               blocks[k].index <= IF blocks[k].letter = "t" THEN table ELSE paragraph
SameName(b, c) == b.part = c.part /\ b.letter = c.letter /\ b.index = c.index
NamesDiffer == \A i, j \in DOMAIN blocks : i # j => ~SameName(blocks[i], blocks[j])

\* No two blocks of a section share a text, since those of the section that is walked
\* are before the cursor.
TextsArePast ==
    IsPackage /\ pc = "walk" => \A k \in DOMAIN blocks :
        blocks[k].part = part => \A t \in blocks[k].text : t < cursor
TextsAreApart ==
    IsPackage => \A i, j \in DOMAIN blocks :
        i # j /\ blocks[i].part = blocks[j].part => blocks[i].text \cap blocks[j].text = {}

\* What the walk has passed and should have read is in a block.
PassedIsRead ==
    IsPackage => \A i \in DOMAIN file.spine :
        i < part \/ (i = part /\ pc = "walk") =>
            \A t \in DOMAIN TreeOf(i) :
                IsRead(TreeOf(i), t) /\ (i = part => t < cursor) =>
                    \E k \in DOMAIN blocks : blocks[k].part = i /\ t \in blocks[k].text

\* The last title among the first n of some blocks.
LastTitle(some, h, n) ==
    /\ h = 0 \/ (h \in 1..n /\ some[h].title)
    /\ \A j \in 1..n : some[j].title => j <= h
HeadingInv ==
    /\ LastTitle(blocks, heading, Len(blocks))
    /\ \A i \in DOMAIN blocks : LastTitle(blocks, blocks[i].heading, i)

\* As long as a PDF file has no block, all of its pages are pages of little text.
PdfInv ==
    ~IsPackage =>
        /\ pc = "part" => file.pages # <<>> /\ part <= Len(file.pages) + 1
        /\ blocks = <<>> => lowText = part - 1 /\ taken = {} /\ characters = 0

ParsingInv ==
    /\ TypeOK /\ PlaceInv /\ CursorInv /\ BlocksAreLocated
    /\ PackageCounters /\ PdfCounters /\ NamesDiffer
    /\ TextsArePast /\ TextsAreApart /\ PassedIsRead
    /\ HeadingInv /\ PdfInv /\ RaisedHasCause

----------------------------------------------------------------------------
(* Lemmas about trees.                                                     *)

\* What the provers need to know of a sequence whose elements they do not look into.
LEMMA SeqFacts ==
    ASSUME NEW S, NEW s \in Seq(S)
    PROVE  /\ Len(s) \in Nat /\ DOMAIN s = 1..Len(s)
           /\ \A i \in 1..Len(s) : s[i] \in S
           /\ s = <<>> <=> Len(s) = 0
  OBVIOUS

\* The elements of a tree.
LEMMA TreeFacts ==
    ASSUME NEW tree, IsTree(tree)
    PROVE  /\ Len(tree) \in Nat /\ DOMAIN tree = 1..Len(tree)
           /\ \A n \in DOMAIN tree : tree[n].below \in Nat
           /\ \A m, n \in DOMAIN tree : Holds(tree, m, n) =>
                  m < n /\ n <= m + tree[m].below /\ n + tree[n].below <= m + tree[m].below
<1> DEFINE Element == [kind : ElementKinds, below : Nat, look : ElementLooks]
<1>1. tree \in Seq(Element)
  BY DEF IsTree
<1>2. \A e \in Element : e.below \in Nat
  OBVIOUS
<1> HIDE DEF Element
<1> QED
  BY <1>1, <1>2, SeqFacts DEF IsTree, Holds

\* A paragraph or table that is in no other, with all that is below it.
LEMMA PassElement ==
    ASSUME NEW tree, IsTree(tree), NEW n \in DOMAIN tree, tree[n].kind \in {"p", "tbl"},
           ~Within(tree, n), NEW after, after = n + 1 + tree[n].below
    PROVE  /\ after \in Nat /\ n \in Nat /\ n < after
           /\ after \in DOMAIN tree => ~Within(tree, after)
           /\ n \in Counted(tree, tree[n].kind)
           /\ \A kind \in {"p", "tbl"} :
                  CountedBefore(tree, kind, after) =
                      CountedBefore(tree, kind, n) \cup IF tree[n].kind = kind THEN {n} ELSE {}
           /\ \A t \in DOMAIN tree : Holds(tree, n, t) <=> n < t /\ t < after
<1>1. /\ Len(tree) \in Nat /\ DOMAIN tree = 1..Len(tree)
      /\ \A m \in DOMAIN tree : tree[m].below \in Nat
      /\ \A m, l \in DOMAIN tree : Holds(tree, m, l) =>
             m < l /\ l <= m + tree[m].below /\ l + tree[l].below <= m + tree[m].below
  BY TreeFacts
<1>2. after \in Nat /\ n \in Nat /\ n < after
  BY <1>1
<1>3. \A t \in DOMAIN tree : Holds(tree, n, t) <=> n < t /\ t < after
  BY <1>1 DEF Holds
<1>4. after \in DOMAIN tree => ~Within(tree, after)
  <2> SUFFICES ASSUME after \in DOMAIN tree, NEW m \in DOMAIN tree,
                      tree[m].kind \in {"p", "tbl"}, Holds(tree, m, after)
               PROVE  FALSE
    BY DEF Within
  <2>1. CASE m < n
    <3>1. Holds(tree, m, n)
      BY <1>1, <1>2, <2>1 DEF Holds
    <3> QED
      BY <3>1 DEF Within
  <2>2. CASE m = n
    BY <1>1, <2>2
  <2>3. CASE m > n
    <3>1. m < after
      BY <1>1
    <3>2. Holds(tree, n, m)
      BY <1>3, <2>3, <3>1
    <3>3. m + tree[m].below <= n + tree[n].below /\ after <= m + tree[m].below
      BY <1>1, <3>2
    <3> QED
      BY <1>1, <3>3
  <2> QED
    BY <1>1, <2>1, <2>2, <2>3
<1>5. n \in Counted(tree, tree[n].kind)
  BY DEF Counted
<1>6. ASSUME NEW kind \in {"p", "tbl"}
      PROVE  CountedBefore(tree, kind, after) =
                 CountedBefore(tree, kind, n) \cup IF tree[n].kind = kind THEN {n} ELSE {}
  <2>1. \A m \in Counted(tree, kind) : m < after <=> m <= n
    <3> SUFFICES ASSUME NEW m \in Counted(tree, kind), m < after, n < m
                 PROVE  FALSE
      BY <1>1, <1>2 DEF Counted
    <3>1. m \in DOMAIN tree /\ ~Within(tree, m)
      BY DEF Counted
    <3>2. Holds(tree, n, m)
      BY <1>3, <3>1
    <3> QED
      BY <3>1, <3>2 DEF Within
  <2>2. \A m \in Counted(tree, kind) : m \in Nat
    BY <1>1 DEF Counted
  <2>3. n \in Counted(tree, kind) <=> tree[n].kind = kind
    BY DEF Counted
  <2> QED
    BY <1>2, <2>1, <2>2, <2>3 DEF CountedBefore
<1> QED
  BY <1>2, <1>3, <1>4, <1>5, <1>6

\* An element of another kind, below which the walk goes on.
LEMMA PassOther ==
    ASSUME NEW tree, IsTree(tree), NEW n \in DOMAIN tree, tree[n].kind \notin {"p", "tbl"},
           ~Within(tree, n)
    PROVE  /\ n + 1 \in DOMAIN tree => ~Within(tree, n + 1)
           /\ \A kind \in {"p", "tbl"} :
                  CountedBefore(tree, kind, n + 1) = CountedBefore(tree, kind, n)
           /\ ~IsRead(tree, n)
<1>1. /\ Len(tree) \in Nat /\ DOMAIN tree = 1..Len(tree)
      /\ \A m \in DOMAIN tree : tree[m].below \in Nat
      /\ \A m, l \in DOMAIN tree : Holds(tree, m, l) =>
             m < l /\ l <= m + tree[m].below /\ l + tree[l].below <= m + tree[m].below
  BY TreeFacts
<1>2. n + 1 \in DOMAIN tree => ~Within(tree, n + 1)
  <2> SUFFICES ASSUME n + 1 \in DOMAIN tree, NEW m \in DOMAIN tree,
                      tree[m].kind \in {"p", "tbl"}, Holds(tree, m, n + 1)
               PROVE  FALSE
    BY DEF Within
  <2>1. m < n
    BY <1>1
  <2>2. Holds(tree, m, n)
    BY <1>1, <2>1 DEF Holds
  <2> QED
    BY <2>2 DEF Within
<1>3. ASSUME NEW kind \in {"p", "tbl"}
      PROVE  CountedBefore(tree, kind, n + 1) = CountedBefore(tree, kind, n)
  <2>1. \A m \in Counted(tree, kind) : m \in Nat /\ m # n
    BY <1>1 DEF Counted
  <2> QED
    BY <1>1, <2>1 DEF CountedBefore
<1>4. ~IsRead(tree, n)
  <2> SUFFICES ASSUME IsRead(tree, n)
               PROVE  FALSE
    OBVIOUS
  <2>1. CASE \E m \in Counted(tree, "p") : Holds(tree, m, n)
    BY <2>1 DEF Counted, Within
  <2>2. CASE \E m \in Counted(tree, "tbl"), c \in DOMAIN tree :
                 tree[c].kind = "cell" /\ Holds(tree, m, c) /\ Holds(tree, c, n)
    <3>1. PICK m \in Counted(tree, "tbl"), c \in DOMAIN tree : Holds(tree, m, c) /\ Holds(tree, c, n)
      BY <2>2
    <3>2. m \in DOMAIN tree /\ tree[m].kind = "tbl"
      BY DEF Counted
    <3>3. Holds(tree, m, n)
      BY <1>1, <3>1, <3>2 DEF Holds
    <3> QED
      BY <3>2, <3>3 DEF Within
  <2> QED
    BY <2>1, <2>2 DEF IsRead
<1> QED
  BY <1>2, <1>3, <1>4

\* A text that is read and is below a paragraph or table in no other is read there.
LEMMA ReadIsBelow ==
    ASSUME NEW tree, IsTree(tree), NEW n \in DOMAIN tree, tree[n].kind \in {"p", "tbl"},
           ~Within(tree, n), NEW t \in DOMAIN tree, IsRead(tree, t),
           n <= t, t <= n + tree[n].below
    PROVE  /\ Holds(tree, n, t)
           /\ tree[n].kind = "tbl" => \E c \in DOMAIN tree :
                  tree[c].kind = "cell" /\ Holds(tree, n, c) /\ Holds(tree, c, t)
<1>1. /\ Len(tree) \in Nat /\ DOMAIN tree = 1..Len(tree)
      /\ \A m \in DOMAIN tree : tree[m].below \in Nat
      /\ \A m, l \in DOMAIN tree : Holds(tree, m, l) =>
             m < l /\ l <= m + tree[m].below /\ l + tree[l].below <= m + tree[m].below
  BY TreeFacts
<1>2. tree[t].kind = "t" /\ t # n
  BY DEF IsRead
<1>3. Holds(tree, n, t)
  BY <1>1, <1>2 DEF Holds
\* There is one such element only.
<1>4. ASSUME NEW m \in DOMAIN tree, tree[m].kind \in {"p", "tbl"}, ~Within(tree, m), Holds(tree, m, t)
      PROVE  m = n
  <2>1. CASE m < n
    <3>1. Holds(tree, m, n)
      BY <1>1, <1>4, <2>1 DEF Holds
    <3> QED
      BY <1>4, <3>1 DEF Within
  <2>2. CASE m > n
    <3>1. Holds(tree, n, m)
      BY <1>1, <1>4, <2>2 DEF Holds
    <3> QED
      BY <1>4, <3>1 DEF Within
  <2> QED
    BY <1>1, <2>1, <2>2
<1>5. ASSUME tree[n].kind = "tbl"
      PROVE  \E c \in DOMAIN tree :
                 tree[c].kind = "cell" /\ Holds(tree, n, c) /\ Holds(tree, c, t)
  <2>1. ~\E m \in Counted(tree, "p") : Holds(tree, m, t)
    BY <1>4, <1>5 DEF Counted
  <2>2. PICK m \in Counted(tree, "tbl"), c \in DOMAIN tree :
            tree[c].kind = "cell" /\ Holds(tree, m, c) /\ Holds(tree, c, t)
    BY <2>1 DEF IsRead
  <2>3. m \in DOMAIN tree /\ tree[m].kind = "tbl" /\ ~Within(tree, m)
    BY DEF Counted
  <2>4. Holds(tree, m, t)
    BY <1>1, <2>2, <2>3 DEF Holds
  <2>5. m = n
    BY <1>4, <2>3, <2>4
  <2> QED
    BY <2>2, <2>5
<1> QED
  BY <1>3, <1>5

\* The numbers that a locator is made of.
LEMMA CountFacts ==
    ASSUME NEW tree, IsTree(tree), NEW kind, NEW n \in Nat
    PROVE  /\ Cardinality(CountedBefore(tree, kind, n)) \in Nat
           /\ Cardinality(CountedBefore(tree, kind, n) \cup {n}) =
                  Cardinality(CountedBefore(tree, kind, n)) + 1
           /\ Cardinality(CountedBefore(tree, kind, 1)) = 0
           /\ Cardinality(CountedBefore(tree, kind, n)) \in 0..Len(tree)
<1>1. Len(tree) \in Nat /\ DOMAIN tree = 1..Len(tree)
  BY TreeFacts
<1>2. CountedBefore(tree, kind, n) \subseteq 1..Len(tree) /\ n \notin CountedBefore(tree, kind, n)
  BY <1>1 DEF CountedBefore, Counted
<1>3. IsFiniteSet(CountedBefore(tree, kind, n))
  <2>1. IsFiniteSet(1..Len(tree))
    BY <1>1, FS_Interval
  <2> QED
    BY <1>2, <2>1, FS_Subset
<1>4. CountedBefore(tree, kind, 1) = {}
  BY <1>1 DEF CountedBefore, Counted
<1>5. Cardinality(CountedBefore(tree, kind, n)) <= Len(tree)
  <2> DEFINE length == Len(tree)
  <2>1. IsFiniteSet(1..length)
    BY <1>1, FS_Interval
  <2>2. Cardinality(1..length) = IF 1 > length THEN 0 ELSE length - 1 + 1
    BY <1>1, FS_Interval
  <2>3. Cardinality(CountedBefore(tree, kind, n)) <= Cardinality(1..length)
    BY <1>2, <2>1, FS_Subset
  <2> HIDE DEF length
  <2>4. length \in Nat
    BY <1>1 DEF length
  <2>5. Cardinality(1..length) = length
    BY <2>2, <2>4
  <2> QED
    BY <2>3, <2>5 DEF length
<1>6. Cardinality(CountedBefore(tree, kind, n)) \in Nat
  BY <1>3, FS_CardinalityType
<1>7. Cardinality(CountedBefore(tree, kind, n)) \in 0..Len(tree)
  BY <1>1, <1>5, <1>6
<1> QED
  BY <1>2, <1>3, <1>4, <1>6, <1>7, FS_AddElement, FS_EmptySet

----------------------------------------------------------------------------
(* Lemmas about the state.                                                 *)

\* What becomes of the blocks when one is added.
LEMMA Appended ==
    ASSUME TypeOK, NEW b \in Blocks, blocks' = Append(blocks, b)
    PROVE  /\ blocks' \in Seq(Blocks) /\ blocks' # <<>>
           /\ Len(blocks) \in Nat /\ Len(blocks') = Len(blocks) + 1
           /\ DOMAIN blocks = 1..Len(blocks) /\ DOMAIN blocks' = 1..Len(blocks) + 1
           /\ blocks'[Len(blocks) + 1] = b
           /\ \A k \in 1..Len(blocks) : blocks'[k] = blocks[k]
<1>1. blocks \in Seq(Blocks)
  BY DEF TypeOK
<1> HIDE DEF Blocks
<1> QED
  BY <1>1

\* The sequence of blocks, and what a block is.
LEMMA BlockFacts ==
    ASSUME TypeOK
    PROVE  /\ Len(blocks) \in Nat /\ DOMAIN blocks = 1..Len(blocks)
           /\ blocks = <<>> <=> Len(blocks) = 0
           /\ \A k \in DOMAIN blocks : blocks[k] \in Blocks
           /\ \A b \in Blocks : /\ b.part \in Nat \ {0} /\ b.letter \in {"p", "t", "b"}
                                /\ b.index \in Nat /\ b.text \subseteq Nat
                                /\ b.title \in BOOLEAN /\ b.heading \in Nat
<1>1. blocks \in Seq(Blocks)
  BY DEF TypeOK
<1>2. \A b \in Blocks : /\ b.part \in Nat \ {0} /\ b.letter \in {"p", "t", "b"}
                        /\ b.index \in Nat /\ b.text \subseteq Nat
                        /\ b.title \in BOOLEAN /\ b.heading \in Nat
  BY DEF Blocks
<1> HIDE DEF Blocks
<1> QED
  BY <1>1, <1>2, SeqFacts

\* As long as the file is the same, so are its sections.
LEMMA SameFile ==
    ASSUME file' = file
    PROVE  /\ IsPackage' <=> IsPackage
           /\ \A i : SectionPath(i)' = SectionPath(i)
           /\ \A i : TreeOf(i)' = TreeOf(i)
  BY DEF IsPackage, SectionPath, TreeOf, Resolve, ItemOf

\* As long as the file is the same, so is what it makes the parser raise.
LEMMA SameCauses ==
    ASSUME file' = file
    PROVE  /\ IsPackage' <=> IsPackage
           /\ PackageRaises' <=> PackageRaises
           /\ PdfRaises' <=> PdfRaises
  BY SameFile DEF PackageRaises, PdfRaises

\* A package and a PDF file.
LEMMA FileFacts ==
    ASSUME TypeOK
    PROVE  /\ IsPackage => file \in Packages /\ Len(file.spine) \in Nat
                           /\ DOMAIN file.spine = 1..Len(file.spine)
                           /\ file.manifest \in Contents
           /\ ~IsPackage => file \in Pdfs /\ Len(file.pages) \in Nat
                            /\ (file.pages = <<>> <=> Len(file.pages) = 0)
                            /\ file.opens \in {"opened", "invalid", "unreadable"}
<1>1. IsPackage => file \in Packages
  BY PdfsAssumption DEF TypeOK, IsPackage
<1>2. ~IsPackage => file \in Pdfs
  BY PackagesAssumption DEF TypeOK, IsPackage
<1>3. file \in Packages => file.spine \in Seq(STRING) /\ file.manifest \in Contents
  BY PackagesAssumption
<1>4. file \in Pdfs => /\ file.pages \in Seq(SUBSET Pieces)
                       /\ file.opens \in {"opened", "invalid", "unreadable"}
  BY PdfsAssumption
<1> QED
  BY <1>1, <1>2, <1>3, <1>4, SeqFacts

\* The section that is walked.
LEMMA InSection ==
    ASSUME TypeOK, PlaceInv, pc = "walk"
    PROVE  /\ IsPackage /\ part \in DOMAIN file.spine
           /\ Section = TreeOf(part) /\ Elements = DOMAIN TreeOf(part)
           /\ IsTree(TreeOf(part))
<1>1. IsPackage /\ part \in DOMAIN file.spine /\ file \in Packages
  BY FileFacts DEF PlaceInv, TypeOK
<1>2. SectionPath(part) \in DOMAIN file.members
  BY <1>1 DEF PlaceInv
<1>3. IsTree(TreeOf(part))
  BY <1>1, <1>2, PackagesAssumption DEF TreeOf
<1> QED
  BY <1>1, <1>3 DEF Section, Elements, TreeOf

\* A block of the current part is added, and heads what follows if it is a title.
IsAdded(text, letter, index, kind) ==
    \E b \in Blocks :
        /\ blocks' = Append(blocks, b)
        /\ b.part = part /\ b.text = text /\ b.letter = letter /\ b.index = index
        /\ CountedKind(b) = kind
        /\ heading' = IF b.title THEN Len(blocks) + 1 ELSE heading
        /\ b.heading = heading'

LEMMA ParagraphAdded ==
    ASSUME TypeOK, NEW text \in (SUBSET Nat) \ {{}}, NEW isTitle \in BOOLEAN,
           AddItem("paragraph", "p", paragraph, text, isTitle)
    PROVE  IsAdded(text, "p", paragraph, "p")
<1> DEFINE new == [part |-> part, letter |-> "p", index |-> paragraph,
                   kind |-> IF isTitle THEN "heading" ELSE "paragraph",
                   text |-> text, title |-> isTitle,
                   heading |-> IF isTitle THEN Len(blocks) + 1 ELSE heading]
<1>1. Len(blocks) \in Nat
  BY BlockFacts
<1>2. new \in Blocks
  BY <1>1 DEF Blocks, TypeOK
<1>3. blocks' = Append(blocks, new) /\ heading' = IF isTitle THEN Len(blocks) + 1 ELSE heading
  BY DEF AddItem
<1>4. /\ new.part = part /\ new.text = text /\ new.letter = "p" /\ new.index = paragraph
      /\ CountedKind(new) = "p" /\ new.title = isTitle /\ new.heading = heading'
  BY <1>3 DEF CountedKind
<1> HIDE DEF new
<1> QED
  BY <1>2, <1>3, <1>4 DEF IsAdded

LEMMA TableAdded ==
    ASSUME TypeOK, NEW text \in (SUBSET Nat) \ {{}},
           AddItem("table", "t", table, text, FALSE)
    PROVE  IsAdded(text, "t", table, "tbl")
<1> DEFINE new == [part |-> part, letter |-> "t", index |-> table,
                   kind |-> "table",
                   text |-> text, title |-> FALSE,
                   heading |-> heading]
<1>1. Len(blocks) \in Nat
  BY BlockFacts
<1>2. new \in Blocks
  BY <1>1 DEF Blocks, TypeOK
<1>3. blocks' = Append(blocks, new) /\ heading' = heading
  BY DEF AddItem
<1>4. /\ new.part = part /\ new.text = text /\ new.letter = "t" /\ new.index = table
      /\ CountedKind(new) = "tbl" /\ new.title = FALSE /\ new.heading = heading'
  BY <1>3 DEF CountedKind
<1> HIDE DEF new
<1> QED
  BY <1>2, <1>3, <1>4 DEF IsAdded

\* What walking a paragraph or a table does.
AddsElement(text) ==
    \/ /\ TreeOf(part)[cursor].kind = "p" /\ table' = table /\ paragraph' = paragraph + 1
       /\ (text = {} /\ UNCHANGED output) \/ IsAdded(text, "p", paragraph, "p")
    \/ /\ TreeOf(part)[cursor].kind = "tbl" /\ table' = table + 1 /\ paragraph' = paragraph
       /\ (text = {} /\ UNCHANGED output) \/ IsAdded(text, "t", table, "tbl")
ElementStep ==
    /\ pc = "walk" /\ cursor \in DOMAIN TreeOf(part)
    /\ cursor' = cursor + 1 + TreeOf(part)[cursor].below
    /\ \E text \in SUBSET Nat :
           /\ \A t \in text : t \in DOMAIN TreeOf(part) /\ Holds(TreeOf(part), cursor, t)
           /\ \A t \in DOMAIN TreeOf(part) :
                  IsRead(TreeOf(part), t) /\ cursor <= t /\ t < cursor' => t \in text
           /\ AddsElement(text)
    /\ UNCHANGED <<file, part, taken, characters, lowText, pc>>

\* A paragraph has all the texts that it should.
LEMMA ParagraphSteps ==
    ASSUME TypeOK, PlaceInv, CursorInv, WalkParagraph
    PROVE  ElementStep
<1> DEFINE tree == TreeOf(part)
           text == TextContent(cursor)
<1>1. /\ pc = "walk" /\ Section = tree /\ Elements = DOMAIN tree /\ IsTree(tree)
      /\ cursor \in DOMAIN tree /\ tree[cursor].kind = "p" /\ ~Within(tree, cursor)
      /\ DOMAIN tree = 1..Len(tree) /\ tree[cursor].below \in Nat
  BY InSection, TreeFacts DEF WalkParagraph, CursorInv
<1>2. text \in SUBSET Nat /\ \A t \in text : t \in DOMAIN tree /\ Holds(tree, cursor, t)
  BY <1>1 DEF TextContent, Iterate
<1>3. /\ cursor' = cursor + 1 + tree[cursor].below
      /\ table' = table /\ paragraph' = paragraph + 1 /\ table \in Nat /\ paragraph \in Nat
      /\ UNCHANGED <<file, part, taken, characters, lowText, pc>>
  BY <1>1 DEF WalkParagraph, AfterElement, TypeOK
<1>4. ASSUME NEW t \in DOMAIN tree, IsRead(tree, t), cursor <= t, t < cursor'
      PROVE  t \in text
  <2>1. Holds(tree, cursor, t)
    BY <1>1, <1>3, <1>4, ReadIsBelow
  <2> QED
    BY <1>1, <1>4, <2>1 DEF TextContent, Iterate, IsRead
<1>5. (text = {} /\ UNCHANGED output) \/ IsAdded(text, "p", paragraph, "p")
  <2>1. CASE text = {}
    BY <2>1 DEF WalkParagraph
  <2>2. CASE text # {}
    <3>1. AddItem("paragraph", "p", paragraph, text, IsHeading(text))
      BY <2>2 DEF WalkParagraph
    <3>2. IsHeading(text) \in BOOLEAN
      BY DEF IsHeading
    <3>3. text \in (SUBSET Nat) \ {{}}
      BY <1>2, <2>2
    <3> HIDE DEF text
    <3> QED
      BY <3>1, <3>2, <3>3, ParagraphAdded
  <2> QED
    BY <2>1, <2>2
<1>6. AddsElement(text)
  BY <1>1, <1>3, <1>5 DEF AddsElement
<1> HIDE DEF text, AddsElement
<1> QED
  BY <1>1, <1>2, <1>3, <1>4, <1>6 DEF ElementStep

\* A table has all the texts of its cells, of those of tables in it too.
LEMMA TableSteps ==
    ASSUME TypeOK, PlaceInv, CursorInv, WalkTable
    PROVE  ElementStep
<1> DEFINE tree == TreeOf(part)
           text == TableText(cursor)
<1>1. /\ pc = "walk" /\ Section = tree /\ Elements = DOMAIN tree /\ IsTree(tree)
      /\ cursor \in DOMAIN tree /\ tree[cursor].kind = "tbl" /\ ~Within(tree, cursor)
      /\ DOMAIN tree = 1..Len(tree) /\ tree[cursor].below \in Nat
  BY InSection, TreeFacts DEF WalkTable, CursorInv
<1>2. text \in SUBSET Nat /\ \A t \in text : t \in DOMAIN tree /\ Holds(tree, cursor, t)
  <2>1. /\ DOMAIN tree \subseteq Nat
        /\ \A c, t \in DOMAIN tree :
               Holds(tree, cursor, c) /\ Holds(tree, c, t) => Holds(tree, cursor, t)
    BY <1>1, TreeFacts DEF Holds
  <2> QED
    BY <1>1, <2>1 DEF TableText, TextContent, Iterate
<1>3. /\ cursor' = cursor + 1 + tree[cursor].below
      /\ table' = table + 1 /\ paragraph' = paragraph /\ table \in Nat /\ paragraph \in Nat
      /\ UNCHANGED <<file, part, taken, characters, lowText, pc>>
  BY <1>1 DEF WalkTable, AfterElement, TypeOK
<1>4. ASSUME NEW t \in DOMAIN tree, IsRead(tree, t), cursor <= t, t < cursor'
      PROVE  t \in text
  <2>1. t <= cursor + tree[cursor].below
    BY <1>1, <1>3, <1>4
  <2>2. \E c \in DOMAIN tree :
            tree[c].kind = "cell" /\ Holds(tree, cursor, c) /\ Holds(tree, c, t)
    <3> HIDE DEF tree
    <3> QED
      BY <1>1, <1>4, <2>1, ReadIsBelow
  <2> QED
    BY <1>1, <1>4, <2>2 DEF TableText, TextContent, Iterate, IsRead
<1>5. (text = {} /\ UNCHANGED output) \/ IsAdded(text, "t", table, "tbl")
  <2>1. CASE text = {}
    BY <2>1 DEF WalkTable
  <2>2. CASE text # {}
    <3>1. AddItem("table", "t", table, text, FALSE)
      BY <2>2 DEF WalkTable
    <3>3. text \in (SUBSET Nat) \ {{}}
      BY <1>2, <2>2
    <3> HIDE DEF text
    <3> QED
      BY <3>1, <3>3, TableAdded
  <2> QED
    BY <2>1, <2>2
<1>6. AddsElement(text)
  BY <1>1, <1>3, <1>5 DEF AddsElement
<1> HIDE DEF text, AddsElement
<1> QED
  BY <1>1, <1>2, <1>3, <1>4, <1>6 DEF ElementStep

\* What is found on a page.
LEMMA PiecesFound ==
    ASSUME TypeOK, ~IsPackage, part <= Len(file.pages)
    PROVE  Candidates \subseteq Pieces
<1>1. file \in Pdfs /\ Len(file.pages) \in Nat
  BY FileFacts
<1>2. file.pages \in Seq(SUBSET Pieces)
  BY <1>1, PdfsAssumption
<1>3. part \in 1..Len(file.pages)
  BY <1>1 DEF TypeOK
<1> HIDE DEF Pieces
<1>4. file.pages[part] \subseteq Pieces
  BY <1>2, <1>3
<1> QED
  BY <1>4 DEF Candidates, PageCandidates

LEMMA PieceAdded ==
    ASSUME TypeOK, NEW c \in Pieces, NEW isTable \in BOOLEAN, NEW index \in Nat,
           NEW isTitle \in BOOLEAN, AddCandidate(c, isTable, index, isTitle)
    PROVE  \E kind : IsAdded({c.top}, IF isTable THEN "t" ELSE "b", index, kind)
<1> DEFINE letter == IF isTable THEN "t" ELSE "b"
           kind == IF c.look = "title" THEN "heading" ELSE IF isTable THEN "table" ELSE "paragraph"
           new == [part |-> part, letter |-> letter, index |-> index, kind |-> kind,
                   text |-> {c.top}, title |-> isTitle,
                   heading |-> IF isTitle THEN Len(blocks) + 1 ELSE heading]
<1>1. Len(blocks) \in Nat /\ c.top \in Nat
  BY BlockFacts DEF Pieces
<1>2. letter \in {"p", "t", "b"} /\ kind \in {"heading", "paragraph", "table"}
  OBVIOUS
<1>3. {c.top} \in (SUBSET Nat) \ {{}}
  BY <1>1
<1>4. blocks' = Append(blocks, new) /\ heading' = IF isTitle THEN Len(blocks) + 1 ELSE heading
  BY DEF AddCandidate
<1>5. new \in Blocks
  <2> DEFINE text == {c.top}
             h == IF isTitle THEN Len(blocks) + 1 ELSE heading
  <2>1. text \in (SUBSET Nat) \ {{}}
    BY <1>3
  <2>2. h \in Nat /\ part \in Nat \ {0}
    BY <1>1 DEF TypeOK
  <2> HIDE DEF letter, kind, text, h
  <2>3. [part |-> part, letter |-> letter, index |-> index, kind |-> kind, text |-> text,
         title |-> isTitle, heading |-> h] \in Blocks
    BY <1>2, <2>1, <2>2 DEF Blocks
  <2> QED
    BY <2>3 DEF text, h
<1> HIDE DEF letter, kind
<1>6. /\ new.part = part /\ new.text = {c.top} /\ new.letter = letter /\ new.index = index
      /\ new.title = isTitle /\ new.heading = heading'
  BY <1>4
<1> HIDE DEF new
<1>7. IsAdded({c.top}, letter, index, CountedKind(new))
  BY <1>4, <1>5, <1>6 DEF IsAdded
<1> QED
  BY <1>7 DEF letter

\* What taking a candidate of a page does.
PieceStep ==
    /\ pc = "part" /\ ~IsPackage /\ part <= Len(file.pages)
    /\ \E text, kind :
           \/ IsAdded(text, "t", table + 1, kind) /\ table' = table + 1 /\ paragraph' = paragraph
           \/ IsAdded(text, "b", paragraph + 1, kind) /\ paragraph' = paragraph + 1 /\ table' = table
    /\ taken' \subseteq Pieces /\ characters' \in Nat
    /\ UNCHANGED <<file, part, cursor, lowText, pc>>

LEMMA PieceSteps ==
    ASSUME TypeOK, TakeTable \/ TakeText
    PROVE  PieceStep
<1>1. Candidates \subseteq Pieces
  BY PiecesFound DEF TakeTable, TakeText
<1>2. /\ taken \subseteq Pieces /\ characters \in Nat /\ table \in Nat /\ paragraph \in Nat
      /\ \A c \in Pieces : c.chars \in Nat
  BY DEF TypeOK, Pieces
<1>3. CASE TakeTable
  <2>1. PICK c \in Candidates \ taken :
            /\ AddCandidate(c, TRUE, table + 1, c.look # "plain")
            /\ taken' = taken \cup {c} /\ characters' = characters + c.chars
    BY <1>3 DEF TakeTable
  <2>2. c \in Pieces /\ table + 1 \in Nat /\ (c.look # "plain") \in BOOLEAN
    BY <1>1, <1>2
  <2>3. \E kind : IsAdded({c.top}, "t", table + 1, kind)
    BY <2>1, <2>2, PieceAdded
  <2> QED
    BY <1>2, <1>3, <2>1, <2>2, <2>3 DEF TakeTable, PieceStep
<1>4. CASE TakeText
  <2>1. PICK c \in Candidates \ taken :
            /\ AddCandidate(c, FALSE, paragraph + 1, c.look # "plain")
            /\ taken' = taken \cup {c} /\ characters' = characters + c.chars
    BY <1>4 DEF TakeText
  <2>2. c \in Pieces /\ paragraph + 1 \in Nat /\ (c.look # "plain") \in BOOLEAN
    BY <1>1, <1>2
  <2>3. \E kind : IsAdded({c.top}, "b", paragraph + 1, kind)
    BY <2>1, <2>2, PieceAdded
  <2> QED
    BY <1>2, <1>4, <2>1, <2>2, <2>3 DEF TakeText, PieceStep
<1> QED
  BY <1>3, <1>4

\* The steps, with those that add blocks reduced to what the proofs use.
LEMMA NextSteps ==
    ASSUME TypeOK, PlaceInv, CursorInv, [Next]_vars
    PROVE  \/ ElementStep \/ PieceStep
           \/ OpenPackage \/ OpenSection \/ WalkChildren \/ EndSection \/ EndPackage
           \/ OpenPdf \/ EndPage \/ EndPdf
           \/ RaiseInSection \/ RaiseInPage
           \/ UNCHANGED vars
  BY ParagraphSteps, TableSteps, PieceSteps DEF Next

\* What a new block does to the headings.
LEMMA HeadingAppended ==
    ASSUME TypeOK, HeadingInv, NEW b \in Blocks, blocks' = Append(blocks, b),
           heading' = IF b.title THEN Len(blocks) + 1 ELSE heading, b.heading = heading'
    PROVE  HeadingInv'
<1>1. /\ DOMAIN blocks' = 1..Len(blocks) + 1 /\ Len(blocks') = Len(blocks) + 1
      /\ blocks'[Len(blocks) + 1] = b /\ Len(blocks) \in Nat
      /\ DOMAIN blocks = 1..Len(blocks)
      /\ \A k \in 1..Len(blocks) : blocks'[k] = blocks[k]
  BY Appended
<1>2. \A h : \A i \in 1..Len(blocks) : LastTitle(blocks, h, i) => LastTitle(blocks', h, i)
  BY <1>1 DEF LastTitle
<1>3. LastTitle(blocks', heading', Len(blocks'))
  <2>1. LastTitle(blocks, heading, Len(blocks)) /\ heading \in Nat
    BY DEF HeadingInv, TypeOK
  <2>2. CASE b.title
    BY <1>1, <2>2 DEF LastTitle
  <2>3. CASE ~b.title
    BY <1>1, <2>1, <2>3 DEF LastTitle
  <2> QED
    BY <2>2, <2>3
<1>4. \A i \in 1..Len(blocks) : LastTitle(blocks', blocks'[i].heading, i)
  BY <1>1, <1>2 DEF HeadingInv
<1>5. LastTitle(blocks', blocks'[Len(blocks) + 1].heading, Len(blocks) + 1)
  BY <1>1, <1>3
<1> QED
  BY <1>1, <1>3, <1>4, <1>5 DEF HeadingInv

\* A file that is opened is read, rejected or raises.
LEMMA OpeningSteps ==
    ASSUME TypeOK, OpenPackage \/ OpenPdf
    PROVE  /\ pc' \in {"part", "rejected", "raised"}
           /\ pc' = "part" => IF IsPackage THEN ValidSpine ELSE file.pages # <<>>
           /\ pc' = "raised" => IF IsPackage THEN PackageRaises ELSE PdfRaises
<1>1. CASE OpenPackage
  <2>1. IsPackage /\ file.manifest \in {"xml", "malformed", "unreadable"}
    BY <1>1, FileFacts DEF OpenPackage, Contents
  <2>2. ManifestRaises => \E i \in DOMAIN file.items : file.items[i].form = "unparsable"
    BY DEF ManifestRaises
  <2> QED
    BY <1>1, <2>1, <2>2 DEF OpenPackage, PackageRaises
<1>2. CASE OpenPdf
  <2>1. ~IsPackage /\ file.opens \in {"opened", "invalid", "unreadable"}
    BY <1>2, FileFacts DEF OpenPdf
  <2> QED
    BY <1>2, <2>1 DEF OpenPdf, PdfRaises
<1> QED
  BY <1>1, <1>2

\* A section that is opened is in the package.
LEMMA OpenSteps ==
    ASSUME TypeOK, PlaceInv, OpenSection
    PROVE  /\ IsPackage /\ part \in DOMAIN file.spine /\ part <= Len(file.spine)
           /\ IsTree(TreeOf(part)) /\ pc = "part"
           /\ cursor' = 1 /\ paragraph' = 0 /\ table' = 0
           /\ pc' \in {"walk", "rejected", "raised"}
           /\ pc' = "raised" => file.members[SectionPath(part)].content = "unreadable"
           /\ UNCHANGED <<file, part, taken, characters, lowText, heading, blocks>>
<1>1. IsPackage /\ pc = "part" /\ part \in DOMAIN file.spine /\ file \in Packages
  BY FileFacts DEF OpenSection, TypeOK
<1>2. SectionPath(part) \in DOMAIN file.members
  BY <1>1 DEF PlaceInv
<1>3. IsTree(TreeOf(part)) /\ Content \in {"xml", "malformed", "unreadable"}
  BY <1>1, <1>2, PackagesAssumption DEF TreeOf, Content, Contents
<1> HIDE DEF Content
<1>4. /\ pc' \in {"walk", "rejected", "raised"}
      /\ pc' = "raised" => Content = "unreadable"
  BY <1>3 DEF OpenSection
<1> QED
  BY <1>1, <1>3, <1>4 DEF OpenSection, output, Content

\* The elements that the walk goes into.
LEMMA ChildrenStep ==
    ASSUME TypeOK, PlaceInv, CursorInv, WalkChildren
    PROVE  /\ IsTree(TreeOf(part)) /\ cursor \in DOMAIN TreeOf(part)
           /\ TreeOf(part)[cursor].kind \notin {"p", "tbl"} /\ ~Within(TreeOf(part), cursor)
           /\ cursor' = cursor + 1 /\ pc = "walk"
           /\ UNCHANGED <<file, part, taken, characters, paragraph, table, lowText, output, pc>>
  BY InSection DEF WalkChildren, AfterCursor, CursorInv

----------------------------------------------------------------------------
(* What each step preserves.                                               *)

\* Every variable keeps its type.
LEMMA TypeStep ==
    ASSUME TypeOK, PlaceInv, CursorInv, [Next]_vars
    PROVE  TypeOK'
<1> USE DEF place, output, TypeOK
<1>1. CASE ElementStep
  <2>1. blocks' \in Seq(Blocks) /\ heading' \in Nat
    <3>1. CASE UNCHANGED output
      BY <3>1
    <3>2. ASSUME NEW b \in Blocks, blocks' = Append(blocks, b),
                 heading' = IF b.title THEN Len(blocks) + 1 ELSE heading
          PROVE  blocks' \in Seq(Blocks) /\ heading' \in Nat
      BY <3>2, Appended
    <3> QED
      BY <1>1, <3>1, <3>2 DEF ElementStep, AddsElement, IsAdded
  <2>2. cursor' \in Nat \ {0}
    <3>1. TreeOf(part)[cursor].below \in Nat
      BY <1>1, InSection, TreeFacts DEF ElementStep
    <3> QED
      BY <1>1, <3>1 DEF ElementStep
  <2> QED
    BY <1>1, <2>1, <2>2 DEF ElementStep, AddsElement
<1>2. CASE PieceStep
  <2>1. PICK b \in Blocks : /\ blocks' = Append(blocks, b)
                             /\ heading' = IF b.title THEN Len(blocks) + 1 ELSE heading
    BY <1>2 DEF PieceStep, IsAdded
  <2>2. blocks' \in Seq(Blocks) /\ heading' \in Nat
    BY <2>1, Appended
  <2> QED
    BY <1>2, <2>2 DEF PieceStep
<1>3. CASE OpenPackage
  BY <1>3, OpeningSteps DEF OpenPackage
<1>4. CASE OpenSection
  BY <1>4, OpenSteps
<1>5. CASE WalkChildren
  BY <1>5, ChildrenStep
<1>6. CASE EndSection
  BY <1>6 DEF EndSection
<1>7. CASE EndPackage
  BY <1>7 DEF EndPackage, Validate
<1>8. CASE OpenPdf
  BY <1>8, OpeningSteps DEF OpenPdf
<1>9. CASE EndPage
  BY <1>9 DEF EndPage
<1>10. CASE EndPdf
  BY <1>10 DEF EndPdf, Validate
<1>11. CASE UNCHANGED vars
  BY <1>11 DEF vars
<1>12. CASE RaiseInSection \/ RaiseInPage
  BY <1>12 DEF RaiseInSection, RaiseInPage
<1> QED
  BY <1>1, <1>2, <1>3, <1>4, <1>5, <1>6, <1>7, <1>8, <1>9, <1>10, <1>11, <1>12,
     NextSteps

\* The sections stay in their order.
LEMMA PlaceStep ==
    ASSUME TypeOK, PlaceInv, CursorInv, [Next]_vars
    PROVE  PlaceInv'
<1> USE DEF place, output, PlaceInv
<1>1. CASE ElementStep
  <2>1. CASE UNCHANGED blocks
    BY <1>1, <2>1, SameFile DEF ElementStep
  <2>2. CASE ~UNCHANGED blocks
    <3>1. PICK b \in Blocks : blocks' = Append(blocks, b) /\ b.part = part
      BY <1>1, <2>2 DEF ElementStep, AddsElement, IsAdded
    <3>2. part \in DOMAIN file.spine /\ part \in Nat
      BY <1>1, InSection DEF ElementStep, TypeOK
    <3> QED
      BY <1>1, <3>1, <3>2, Appended, SameFile DEF ElementStep
  <2> QED
    BY <2>1, <2>2
<1>2. CASE PieceStep
  BY <1>2, SameFile DEF PieceStep
<1>3. CASE OpenPackage
  <2>1. pc' \in {"part", "rejected", "raised"} /\ (pc' = "part" => ValidSpine)
    BY <1>3, OpeningSteps DEF OpenPackage
  <2>2. ValidSpine => \A i \in DOMAIN file.spine : SectionPath(i) \in DOMAIN file.members
    BY DEF ValidSpine
  <2> QED
    BY <1>3, <2>1, <2>2, SameFile DEF OpenPackage
<1>4. CASE OpenSection
  BY <1>4, OpenSteps, SameFile, FileFacts DEF OpenSection
<1>5. CASE WalkChildren
  BY <1>5, ChildrenStep, SameFile, FileFacts DEF WalkChildren
<1>6. CASE EndSection
  BY <1>6, SameFile, FileFacts DEF EndSection, TypeOK
<1>7. CASE EndPackage
  BY <1>7, SameFile, FileFacts DEF EndPackage, Validate
<1>8. CASE OpenPdf
  BY <1>8, OpeningSteps, SameFile, FileFacts DEF OpenPdf
<1>9. CASE EndPage
  BY <1>9, SameFile, FileFacts DEF EndPage
<1>10. CASE EndPdf
  BY <1>10, SameFile, FileFacts DEF EndPdf, Validate
<1>11. CASE UNCHANGED vars
  BY <1>11, SameFile, FileFacts DEF vars
<1>12. CASE RaiseInSection \/ RaiseInPage
  BY <1>12, SameFile, FileFacts DEF RaiseInSection, RaiseInPage
<1> QED
  BY <1>1, <1>2, <1>3, <1>4, <1>5, <1>6, <1>7, <1>8, <1>9, <1>10, <1>11, <1>12,
     NextSteps

\* The walk stays out of paragraphs and tables, and counts on.
LEMMA CursorStep ==
    ASSUME TypeOK, PlaceInv, CursorInv, [Next]_vars
    PROVE  CursorInv'
<1> USE DEF place, output, CursorInv
<1>1. CASE ElementStep
  <2> DEFINE tree == TreeOf(part)
  <2>1. /\ IsTree(tree) /\ cursor \in DOMAIN tree /\ tree[cursor].kind \in {"p", "tbl"}
        /\ ~Within(tree, cursor) /\ tree' = tree /\ pc = "walk" /\ pc' = "walk"
    BY <1>1, InSection, SameFile DEF ElementStep, AddsElement
  <2>2. cursor' = cursor + 1 + tree[cursor].below /\ cursor \in Nat
    BY <1>1 DEF ElementStep, TypeOK
  <2>3. /\ paragraph = Cardinality(CountedBefore(tree, "p", cursor))
        /\ table = Cardinality(CountedBefore(tree, "tbl", cursor))
    BY <2>1
  <2>4. \/ tree[cursor].kind = "p" /\ table' = table /\ paragraph' = paragraph + 1
        \/ tree[cursor].kind = "tbl" /\ table' = table + 1 /\ paragraph' = paragraph
    BY <1>1 DEF ElementStep, AddsElement
  <2> HIDE DEF tree
  <2>5. /\ cursor' \in DOMAIN tree => ~Within(tree, cursor')
        /\ \A kind \in {"p", "tbl"} :
               CountedBefore(tree, kind, cursor') =
                   CountedBefore(tree, kind, cursor)
                       \cup IF tree[cursor].kind = kind THEN {cursor} ELSE {}
    BY <2>1, <2>2, PassElement
  <2>6. /\ paragraph' = Cardinality(CountedBefore(tree, "p", cursor'))
        /\ table' = Cardinality(CountedBefore(tree, "tbl", cursor'))
    <3>1. \A kind : /\ Cardinality(CountedBefore(tree, kind, cursor)) \in Nat
                    /\ Cardinality(CountedBefore(tree, kind, cursor) \cup {cursor}) =
                           Cardinality(CountedBefore(tree, kind, cursor)) + 1
      BY <2>1, <2>2, CountFacts
    <3>2. CASE tree[cursor].kind = "p"
      <4>1. /\ CountedBefore(tree, "p", cursor') = CountedBefore(tree, "p", cursor) \cup {cursor}
            /\ CountedBefore(tree, "tbl", cursor') = CountedBefore(tree, "tbl", cursor)
        BY <2>5, <3>2
      <4> QED
        BY <2>3, <2>4, <3>1, <3>2, <4>1
    <3>3. CASE tree[cursor].kind = "tbl"
      <4>1. /\ CountedBefore(tree, "tbl", cursor') = CountedBefore(tree, "tbl", cursor) \cup {cursor}
            /\ CountedBefore(tree, "p", cursor') = CountedBefore(tree, "p", cursor)
        BY <2>5, <3>3
      <4> QED
        BY <2>3, <2>4, <3>1, <3>3, <4>1
    <3> QED
      BY <2>1, <3>2, <3>3
  <2> QED
    BY <2>1, <2>5, <2>6 DEF tree
<1>2. CASE PieceStep
  BY <1>2 DEF PieceStep
<1>3. CASE OpenPackage
  BY <1>3, OpeningSteps DEF OpenPackage
<1>4. CASE OpenSection
  <2> DEFINE tree == TreeOf(part)
  <2>1. /\ IsTree(tree) /\ tree' = tree /\ cursor' = 1 /\ paragraph' = 0 /\ table' = 0
    BY <1>4, OpenSteps, SameFile
  <2> HIDE DEF tree
  <2>2. 1 \in DOMAIN tree => ~Within(tree, 1)
    BY <2>1, TreeFacts DEF Within, Holds
  <2>3. \A kind : Cardinality(CountedBefore(tree, kind, 1)) = 0
    BY <2>1, CountFacts
  <2> QED
    BY <2>1, <2>2, <2>3 DEF tree
<1>5. CASE WalkChildren
  <2> DEFINE tree == TreeOf(part)
  <2>1. /\ IsTree(tree) /\ cursor \in DOMAIN tree /\ tree[cursor].kind \notin {"p", "tbl"}
        /\ ~Within(tree, cursor) /\ tree' = tree /\ pc = "walk" /\ cursor' = cursor + 1
        /\ paragraph' = paragraph /\ table' = table
    BY <1>5, ChildrenStep, SameFile
  <2>2. /\ paragraph = Cardinality(CountedBefore(tree, "p", cursor))
        /\ table = Cardinality(CountedBefore(tree, "tbl", cursor))
    BY <2>1
  <2> HIDE DEF tree
  <2>3. /\ cursor' \in DOMAIN tree => ~Within(tree, cursor')
        /\ \A kind \in {"p", "tbl"} :
               CountedBefore(tree, kind, cursor') = CountedBefore(tree, kind, cursor)
    BY <2>1, PassOther
  <2> QED
    BY <2>1, <2>2, <2>3 DEF tree
<1>6. CASE EndSection
  BY <1>6 DEF EndSection
<1>7. CASE EndPackage
  BY <1>7 DEF EndPackage, Validate
<1>8. CASE OpenPdf
  BY <1>8, OpeningSteps DEF OpenPdf
<1>9. CASE EndPage
  BY <1>9 DEF EndPage
<1>10. CASE EndPdf
  BY <1>10 DEF EndPdf, Validate
<1>11. CASE UNCHANGED vars
  BY <1>11, SameFile DEF vars
<1>12. CASE RaiseInSection \/ RaiseInPage
  BY <1>12, SameFile DEF RaiseInSection, RaiseInPage
<1> QED
  BY <1>1, <1>2, <1>3, <1>4, <1>5, <1>6, <1>7, <1>8, <1>9, <1>10, <1>11, <1>12,
     NextSteps

\* A block stays where it was found, and a new one is made of the element at the cursor.
LEMMA LocatedStep ==
    ASSUME TypeOK, PlaceInv, CursorInv, BlocksAreLocated, [Next]_vars
    PROVE  BlocksAreLocated'
<1> USE DEF place, output, BlocksAreLocated
<1>1. CASE ElementStep
  <2> DEFINE tree == TreeOf(part)
  <2>1. /\ cursor \in DOMAIN tree /\ cursor \in Nat /\ tree[cursor].kind \in {"p", "tbl"}
        /\ ~Within(tree, cursor) /\ IsPackage /\ file' = file
    BY <1>1, InSection DEF ElementStep, AddsElement, CursorInv, TypeOK
  <2>2. \A i : TreeOf(i)' = TreeOf(i)
    BY <2>1, SameFile
  <2>3. CASE UNCHANGED blocks
    BY <2>1, <2>2, <2>3
  <2>4. CASE ~UNCHANGED blocks
    <3>1. PICK b \in Blocks :
              /\ blocks' = Append(blocks, b) /\ b.part = part
              /\ CountedKind(b) = tree[cursor].kind
              /\ b.index = IF tree[cursor].kind = "p" THEN paragraph ELSE table
              /\ \A t \in b.text : Holds(tree, cursor, t)
      BY <1>1, <2>4 DEF ElementStep, AddsElement, IsAdded
    <3>2. b.index = Cardinality(CountedBefore(tree, CountedKind(b), cursor))
      BY <1>1, <2>1, <3>1 DEF CursorInv, ElementStep
    <3>3. cursor \in Counted(tree, CountedKind(b))
      BY <2>1, <3>1 DEF Counted
    <3>4. MadeOf(tree, b, cursor)
      BY <3>1, <3>2, <3>3 DEF MadeOf
    <3>5. \A k \in DOMAIN blocks', i \in DOMAIN file.spine :
              blocks'[k].part = i => \E n \in DOMAIN TreeOf(i) : MadeOf(TreeOf(i), blocks'[k], n)
      BY <2>1, <3>1, <3>4, Appended
    <3> QED
      BY <2>1, <2>2, <3>5
  <2> QED
    BY <2>3, <2>4
<1>2. CASE PieceStep
  BY <1>2, SameFile DEF PieceStep
<1>3. CASE OpenPackage
  BY <1>3, OpeningSteps, SameFile DEF OpenPackage
<1>4. CASE OpenSection
  BY <1>4, OpenSteps, SameFile DEF OpenSection
<1>5. CASE WalkChildren
  BY <1>5, ChildrenStep, SameFile DEF WalkChildren
<1>6. CASE EndSection
  BY <1>6, SameFile DEF EndSection
<1>7. CASE EndPackage
  BY <1>7, SameFile DEF EndPackage, Validate
<1>8. CASE OpenPdf
  BY <1>8, OpeningSteps, SameFile DEF OpenPdf
<1>9. CASE EndPage
  BY <1>9, SameFile DEF EndPage
<1>10. CASE EndPdf
  BY <1>10, SameFile DEF EndPdf, Validate
<1>11. CASE UNCHANGED vars
  BY <1>11, SameFile DEF vars
<1>12. CASE RaiseInSection \/ RaiseInPage
  BY <1>12, SameFile DEF RaiseInSection, RaiseInPage
<1> QED
  BY <1>1, <1>2, <1>3, <1>4, <1>5, <1>6, <1>7, <1>8, <1>9, <1>10, <1>11, <1>12,
     NextSteps

\* The blocks of a section have been counted.
LEMMA PackageCountersStep ==
    ASSUME TypeOK, PlaceInv, CursorInv, PackageCounters, [Next]_vars
    PROVE  PackageCounters'
<1> USE DEF place, output, PackageCounters
<1>1. CASE ElementStep
  <2>1. IsPackage /\ part \in Nat /\ table \in Nat /\ paragraph \in Nat /\ cursor \in Nat
    BY <1>1, InSection DEF ElementStep, TypeOK
  <2>2. CASE UNCHANGED blocks
    BY <1>1, <2>1, <2>2, SameFile, BlockFacts DEF ElementStep, AddsElement
  <2>3. CASE ~UNCHANGED blocks
    <3>1. PICK b \in Blocks :
              /\ blocks' = Append(blocks, b) /\ b.part = part
              /\ \/ /\ b.letter = "t" /\ b.index = table /\ table' = table + 1
                    /\ paragraph' = paragraph
                 \/ /\ b.letter = "p" /\ b.index = paragraph /\ paragraph' = paragraph + 1
                    /\ table' = table
      BY <1>1, <2>3 DEF ElementStep, AddsElement, IsAdded
    <3> QED
      BY <1>1, <2>1, <3>1, Appended, BlockFacts, SameFile DEF ElementStep
  <2> QED
    BY <2>2, <2>3
<1>2. CASE PieceStep
  BY <1>2, SameFile DEF PieceStep
<1>3. CASE OpenPackage
  BY <1>3, OpeningSteps, SameFile DEF OpenPackage
<1>4. CASE OpenSection
  BY <1>4, OpenSteps, SameFile DEF PlaceInv
<1>5. CASE WalkChildren
  BY <1>5, ChildrenStep, SameFile DEF WalkChildren
<1>6. CASE EndSection
  BY <1>6, SameFile DEF EndSection
<1>7. CASE EndPackage
  BY <1>7, SameFile DEF EndPackage, Validate
<1>8. CASE OpenPdf
  BY <1>8, OpeningSteps, SameFile DEF OpenPdf
<1>9. CASE EndPage
  BY <1>9, SameFile DEF EndPage
<1>10. CASE EndPdf
  BY <1>10, SameFile DEF EndPdf, Validate
<1>11. CASE UNCHANGED vars
  BY <1>11, SameFile DEF vars
<1>12. CASE RaiseInSection \/ RaiseInPage
  BY <1>12, SameFile DEF RaiseInSection, RaiseInPage
<1> QED
  BY <1>1, <1>2, <1>3, <1>4, <1>5, <1>6, <1>7, <1>8, <1>9, <1>10, <1>11, <1>12,
     NextSteps

\* So have those of a page.
LEMMA PdfCountersStep ==
    ASSUME TypeOK, PlaceInv, CursorInv, PdfCounters, [Next]_vars
    PROVE  PdfCounters'
<1> USE DEF place, output, PdfCounters
<1>1. CASE ElementStep
  BY <1>1, InSection, SameFile DEF ElementStep
<1>2. CASE PieceStep
  <2>1. PICK b \in Blocks :
            /\ blocks' = Append(blocks, b) /\ b.part = part
            /\ \/ /\ b.letter = "t" /\ b.index = table' /\ table' = table + 1
                  /\ paragraph' = paragraph
               \/ /\ b.letter = "b" /\ b.index = paragraph' /\ paragraph' = paragraph + 1
                  /\ table' = table
    BY <1>2 DEF PieceStep, IsAdded
  <2>2. part \in Nat /\ table \in Nat /\ paragraph \in Nat
    BY DEF TypeOK
  <2> QED
    BY <1>2, <2>1, <2>2, Appended, BlockFacts, SameFile DEF PieceStep
<1>3. CASE OpenPackage
  BY <1>3, OpeningSteps, SameFile, BlockFacts DEF OpenPackage
<1>4. CASE OpenSection
  BY <1>4, OpenSteps, SameFile
<1>5. CASE WalkChildren
  BY <1>5, ChildrenStep, SameFile, BlockFacts DEF WalkChildren
<1>6. CASE EndSection
  BY <1>6, SameFile DEF EndSection, PlaceInv
<1>7. CASE EndPackage
  BY <1>7, SameFile, BlockFacts DEF EndPackage, Validate
<1>8. CASE OpenPdf
  BY <1>8, OpeningSteps, SameFile, BlockFacts DEF OpenPdf
<1>9. CASE EndPage
  BY <1>9, SameFile, BlockFacts DEF EndPage, TypeOK
<1>10. CASE EndPdf
  BY <1>10, SameFile, BlockFacts DEF EndPdf, Validate
<1>11. CASE UNCHANGED vars
  BY <1>11, SameFile, BlockFacts DEF vars
<1>12. CASE RaiseInSection \/ RaiseInPage
  BY <1>12, SameFile, BlockFacts DEF RaiseInSection, RaiseInPage
<1> QED
  BY <1>1, <1>2, <1>3, <1>4, <1>5, <1>6, <1>7, <1>8, <1>9, <1>10, <1>11, <1>12,
     NextSteps

\* A new block has a letter and index that no block of its part has.
LEMMA NamesStep ==
    ASSUME TypeOK, PlaceInv, CursorInv, PackageCounters, PdfCounters, NamesDiffer, [Next]_vars
    PROVE  NamesDiffer'
<1> USE DEF place, output, NamesDiffer
<1>1. CASE ElementStep
  <2>1. IsPackage /\ part \in Nat /\ table \in Nat /\ paragraph \in Nat /\ cursor \in Nat
    BY <1>1, InSection DEF ElementStep, TypeOK
  <2>2. CASE UNCHANGED blocks
    BY <1>1, <2>1, <2>2, SameFile, BlockFacts DEF ElementStep, AddsElement
  <2>3. CASE ~UNCHANGED blocks
    <3>1. PICK b \in Blocks :
              /\ blocks' = Append(blocks, b) /\ b.part = part
              /\ \/ /\ b.letter = "t" /\ b.index = table /\ table' = table + 1
                    /\ paragraph' = paragraph
                 \/ /\ b.letter = "p" /\ b.index = paragraph /\ paragraph' = paragraph + 1
                    /\ table' = table
      BY <1>1, <2>3 DEF ElementStep, AddsElement, IsAdded
    <3>2. \A k \in DOMAIN blocks : ~SameName(blocks[k], b) /\ ~SameName(b, blocks[k])
      BY <1>1, <2>1, <3>1, BlockFacts DEF PackageCounters, SameName, ElementStep
    <3> HIDE DEF SameName
    <3> QED
      BY <3>1, <3>2, Appended
  <2> QED
    BY <2>2, <2>3
<1>2. CASE PieceStep
  <2>1. PICK b \in Blocks :
            /\ blocks' = Append(blocks, b) /\ b.part = part
            /\ \/ /\ b.letter = "t" /\ b.index = table' /\ table' = table + 1
                  /\ paragraph' = paragraph
               \/ /\ b.letter = "b" /\ b.index = paragraph' /\ paragraph' = paragraph + 1
                  /\ table' = table
    BY <1>2 DEF PieceStep, IsAdded
  <2>2. part \in Nat /\ table \in Nat /\ paragraph \in Nat
    BY DEF TypeOK
  <2>3. \A k \in DOMAIN blocks : ~SameName(blocks[k], b) /\ ~SameName(b, blocks[k])
    BY <1>2, <2>1, <2>2, BlockFacts DEF PdfCounters, SameName, PieceStep
  <2> HIDE DEF SameName
  <2> QED
    BY <2>1, <2>3, Appended
<1>3. CASE OpenPackage
  BY <1>3, OpeningSteps, SameFile DEF OpenPackage
<1>4. CASE OpenSection
  BY <1>4, OpenSteps, SameFile DEF OpenSection
<1>5. CASE WalkChildren
  BY <1>5, ChildrenStep, SameFile DEF WalkChildren
<1>6. CASE EndSection
  BY <1>6, SameFile DEF EndSection
<1>7. CASE EndPackage
  BY <1>7, SameFile DEF EndPackage, Validate
<1>8. CASE OpenPdf
  BY <1>8, OpeningSteps, SameFile DEF OpenPdf
<1>9. CASE EndPage
  BY <1>9, SameFile DEF EndPage
<1>10. CASE EndPdf
  BY <1>10, SameFile DEF EndPdf, Validate
<1>11. CASE UNCHANGED vars
  BY <1>11, SameFile DEF vars
<1>12. CASE RaiseInSection \/ RaiseInPage
  BY <1>12, SameFile DEF RaiseInSection, RaiseInPage
<1> QED
  BY <1>1, <1>2, <1>3, <1>4, <1>5, <1>6, <1>7, <1>8, <1>9, <1>10, <1>11, <1>12,
     NextSteps

\* The texts of a new block are passed with its element.
LEMMA PastStep ==
    ASSUME TypeOK, PlaceInv, CursorInv, TextsArePast, [Next]_vars
    PROVE  TextsArePast'
<1> USE DEF place, output, TextsArePast
<1>1. CASE ElementStep
  <2>1. IsPackage /\ part \in Nat /\ table \in Nat /\ paragraph \in Nat /\ cursor \in Nat
    BY <1>1, InSection DEF ElementStep, TypeOK
  <2>0. /\ \A t \in DOMAIN TreeOf(part) : Holds(TreeOf(part), cursor, t) <=> cursor < t /\ t < cursor'
        /\ cursor' \in Nat /\ cursor < cursor'
    <3>1. /\ IsTree(TreeOf(part)) /\ cursor \in DOMAIN TreeOf(part)
          /\ TreeOf(part)[cursor].kind \in {"p", "tbl"} /\ ~Within(TreeOf(part), cursor)
          /\ cursor' = cursor + 1 + TreeOf(part)[cursor].below
      BY <1>1, InSection DEF ElementStep, AddsElement, CursorInv
    <3> QED
      BY <3>1, PassElement
  <2>2. CASE UNCHANGED blocks
    BY <1>1, <2>0, <2>1, <2>2, SameFile, BlockFacts DEF ElementStep, AddsElement
  <2>3. CASE ~UNCHANGED blocks
    <3>1. PICK b \in Blocks :
              /\ blocks' = Append(blocks, b) /\ b.part = part
              /\ \A t \in b.text : t \in DOMAIN TreeOf(part) /\ Holds(TreeOf(part), cursor, t)
      BY <1>1, <2>3 DEF ElementStep, AddsElement, IsAdded
    <3> QED
      BY <1>1, <2>0, <2>1, <3>1, Appended, BlockFacts, SameFile DEF ElementStep
  <2> QED
    BY <2>2, <2>3
<1>2. CASE PieceStep
  BY <1>2, SameFile DEF PieceStep
<1>3. CASE OpenPackage
  BY <1>3, OpeningSteps, SameFile DEF OpenPackage
<1>4. CASE OpenSection
  BY <1>4, OpenSteps, SameFile DEF PlaceInv
<1>5. CASE WalkChildren
  BY <1>5, ChildrenStep, SameFile, BlockFacts DEF TypeOK
<1>6. CASE EndSection
  BY <1>6, SameFile DEF EndSection
<1>7. CASE EndPackage
  BY <1>7, SameFile DEF EndPackage, Validate
<1>8. CASE OpenPdf
  BY <1>8, OpeningSteps, SameFile DEF OpenPdf
<1>9. CASE EndPage
  BY <1>9, SameFile DEF EndPage
<1>10. CASE EndPdf
  BY <1>10, SameFile DEF EndPdf, Validate
<1>11. CASE UNCHANGED vars
  BY <1>11, SameFile DEF vars
<1>12. CASE RaiseInSection \/ RaiseInPage
  BY <1>12, SameFile DEF RaiseInSection, RaiseInPage
<1> QED
  BY <1>1, <1>2, <1>3, <1>4, <1>5, <1>6, <1>7, <1>8, <1>9, <1>10, <1>11, <1>12,
     NextSteps

\* The texts of a new block are those of no other.
LEMMA ApartStep ==
    ASSUME TypeOK, PlaceInv, CursorInv, TextsArePast, TextsAreApart, [Next]_vars
    PROVE  TextsAreApart'
<1> USE DEF place, output, TextsAreApart
<1>1. CASE ElementStep
  <2>1. IsPackage /\ part \in Nat /\ table \in Nat /\ paragraph \in Nat /\ cursor \in Nat
    BY <1>1, InSection DEF ElementStep, TypeOK
  <2>0. /\ \A t \in DOMAIN TreeOf(part) : Holds(TreeOf(part), cursor, t) <=> cursor < t /\ t < cursor'
        /\ cursor' \in Nat /\ cursor < cursor'
    <3>1. /\ IsTree(TreeOf(part)) /\ cursor \in DOMAIN TreeOf(part)
          /\ TreeOf(part)[cursor].kind \in {"p", "tbl"} /\ ~Within(TreeOf(part), cursor)
          /\ cursor' = cursor + 1 + TreeOf(part)[cursor].below
      BY <1>1, InSection DEF ElementStep, AddsElement, CursorInv
    <3> QED
      BY <3>1, PassElement
  <2>2. CASE UNCHANGED blocks
    BY <1>1, <2>1, <2>2, SameFile, BlockFacts DEF ElementStep, AddsElement
  <2>3. CASE ~UNCHANGED blocks
    <3>1. PICK b \in Blocks :
              /\ blocks' = Append(blocks, b) /\ b.part = part
              /\ \A t \in b.text : t \in DOMAIN TreeOf(part) /\ Holds(TreeOf(part), cursor, t)
      <4>1. PICK text \in SUBSET Nat :
                /\ \A t \in text : t \in DOMAIN TreeOf(part) /\ Holds(TreeOf(part), cursor, t)
                /\ AddsElement(text)
        BY <1>1 DEF ElementStep
      <4>2. \E letter, index, kind : IsAdded(text, letter, index, kind)
        BY <2>3, <4>1 DEF AddsElement
      <4>3. PICK b \in Blocks : blocks' = Append(blocks, b) /\ b.part = part /\ b.text = text
        BY <4>2 DEF IsAdded
      <4> QED
        BY <4>1, <4>3
    <3>2. \A k \in DOMAIN blocks :
              blocks[k].part = part => blocks[k].text \cap b.text = {}
      <4>1. \A k \in DOMAIN blocks :
                blocks[k].part = part => \A t \in blocks[k].text : t < cursor /\ t \in Nat
        BY <1>1, <2>1, BlockFacts DEF TextsArePast, ElementStep
      <4>2. \A t \in b.text : cursor < t /\ t \in Nat
        BY <2>0, <3>1, BlockFacts
      <4> QED
        BY <2>1, <4>1, <4>2
    <3>3. \A i, j \in DOMAIN blocks' :
              i # j /\ blocks'[i].part = blocks'[j].part => blocks'[i].text \cap blocks'[j].text = {}
      BY <2>1, <3>1, <3>2, Appended
    <3> QED
      BY <3>3
  <2> QED
    BY <2>2, <2>3
<1>2. CASE PieceStep
  BY <1>2, SameFile DEF PieceStep
<1>3. CASE OpenPackage
  BY <1>3, OpeningSteps, SameFile DEF OpenPackage
<1>4. CASE OpenSection
  BY <1>4, OpenSteps, SameFile DEF OpenSection
<1>5. CASE WalkChildren
  BY <1>5, ChildrenStep, SameFile DEF WalkChildren
<1>6. CASE EndSection
  BY <1>6, SameFile DEF EndSection
<1>7. CASE EndPackage
  BY <1>7, SameFile DEF EndPackage, Validate
<1>8. CASE OpenPdf
  BY <1>8, OpeningSteps, SameFile DEF OpenPdf
<1>9. CASE EndPage
  BY <1>9, SameFile DEF EndPage
<1>10. CASE EndPdf
  BY <1>10, SameFile DEF EndPdf, Validate
<1>11. CASE UNCHANGED vars
  BY <1>11, SameFile DEF vars
<1>12. CASE RaiseInSection \/ RaiseInPage
  BY <1>12, SameFile DEF RaiseInSection, RaiseInPage
<1> QED
  BY <1>1, <1>2, <1>3, <1>4, <1>5, <1>6, <1>7, <1>8, <1>9, <1>10, <1>11, <1>12,
     NextSteps

\* What the walk passes is in a block, if it should be.
LEMMA ReadStep ==
    ASSUME TypeOK, PlaceInv, CursorInv, PassedIsRead, [Next]_vars
    PROVE  PassedIsRead'
<1> USE DEF place, output, PassedIsRead
<1>1. CASE ElementStep
  <2>1. /\ IsPackage /\ part \in DOMAIN file.spine /\ part \in Nat /\ pc = "walk" /\ pc' = "walk"
        /\ part' = part /\ file' = file
    BY <1>1, InSection DEF ElementStep, TypeOK
  <2>2. \A i : TreeOf(i)' = TreeOf(i)
    BY <2>1, SameFile
  <2>3. PICK text \in SUBSET Nat :
            /\ \A t \in DOMAIN TreeOf(part) :
                   IsRead(TreeOf(part), t) /\ cursor <= t /\ t < cursor' => t \in text
            /\ AddsElement(text)
    BY <1>1 DEF ElementStep
  <2>4. /\ \A k \in DOMAIN blocks : k \in DOMAIN blocks' /\ blocks'[k] = blocks[k]
        /\ text # {} => \E k \in DOMAIN blocks' : blocks'[k].part = part /\ blocks'[k].text = text
    <3>1. CASE text = {} /\ UNCHANGED blocks
      BY <3>1
    <3>2. CASE \E b \in Blocks : blocks' = Append(blocks, b) /\ b.part = part /\ b.text = text
      BY <3>2, Appended
    <3> QED
      BY <2>3, <3>1, <3>2 DEF AddsElement, IsAdded
  <2>5. ASSUME NEW i \in DOMAIN file.spine, i <= part, NEW t \in DOMAIN TreeOf(i), IsRead(TreeOf(i), t),
               i = part => t < cursor'
        PROVE  \E k \in DOMAIN blocks' : blocks'[k].part = i /\ t \in blocks'[k].text
    <3>1. CASE i = part /\ cursor <= t
      BY <2>3, <2>4, <2>5, <3>1
    <3>2. CASE ~(i = part /\ cursor <= t)
      <4>1. i < part \/ (i = part /\ t < cursor)
        <5>1. IsTree(TreeOf(part)) /\ cursor \in Nat
          BY <2>1, InSection DEF TypeOK
        <5>2. i = part => t \in Nat
          BY <2>5, <5>1, TreeFacts
        <5> QED
          BY <2>1, <2>5, <3>2, <5>1, <5>2, FileFacts
      <4>2. \E k \in DOMAIN blocks : blocks[k].part = i /\ t \in blocks[k].text
        BY <2>1, <2>5, <4>1
      <4> QED
        BY <2>4, <4>2
    <3> QED
      BY <3>1, <3>2
  <2>6. \A i \in DOMAIN file.spine : i \in Nat
    BY <2>1, FileFacts
  <2> QED
    BY <2>1, <2>2, <2>5, <2>6
<1>2. CASE PieceStep
  BY <1>2, SameFile DEF PieceStep
<1>3. CASE OpenPackage
  <2>1. part = 1 /\ IsPackage /\ UNCHANGED <<file, part, cursor, blocks>>
    BY <1>3 DEF OpenPackage, PlaceInv
  <2>2. pc' # "walk" /\ \A i \in DOMAIN file.spine : i \in Nat /\ ~(i < 1)
    BY <1>3, <2>1, OpeningSteps, FileFacts
  <2> QED
    BY <2>1, <2>2, SameFile
<1>4. CASE OpenSection
  <2>1. /\ IsTree(TreeOf(part)) /\ cursor' = 1 /\ part \in DOMAIN file.spine /\ IsPackage
        /\ UNCHANGED <<file, part, blocks>> /\ part \in Nat
    BY <1>4, OpenSteps DEF TypeOK
  <2>2. \A t \in DOMAIN TreeOf(part) : ~(t < 1)
    BY <2>1, TreeFacts
  <2> QED
    BY <2>1, <2>2, SameFile
<1>5. CASE WalkChildren
  <2>1. /\ IsTree(TreeOf(part)) /\ cursor \in DOMAIN TreeOf(part) /\ cursor' = cursor + 1
        /\ ~IsRead(TreeOf(part), cursor) /\ pc = "walk" /\ pc' = pc
        /\ UNCHANGED <<file, part, blocks>> /\ part \in Nat
    BY <1>5, ChildrenStep, PassOther DEF TypeOK
  <2>2. \A t \in DOMAIN TreeOf(part) : t < cursor' => t < cursor \/ t = cursor
    BY <2>1, TreeFacts
  <2> QED
    BY <2>1, <2>2, SameFile
<1>6. CASE EndSection
  <2>1. /\ IsTree(TreeOf(part)) /\ cursor \notin DOMAIN TreeOf(part) /\ cursor \in Nat \ {0}
        /\ pc = "walk" /\ pc' = "part" /\ part' = part + 1 /\ part \in Nat
        /\ UNCHANGED <<file, blocks>>
    BY <1>6, InSection DEF EndSection, TypeOK
  <2>2. \A t \in DOMAIN TreeOf(part) : t < cursor
    BY <2>1, TreeFacts
  <2>3. \A i \in DOMAIN file.spine : i \in Nat
    BY <2>1, InSection, FileFacts
  <2> QED
    BY <2>1, <2>2, <2>3, SameFile
<1>7. CASE EndPackage
  BY <1>7, SameFile DEF EndPackage, Validate
<1>8. CASE OpenPdf
  BY <1>8, OpeningSteps, SameFile DEF OpenPdf
<1>9. CASE EndPage
  BY <1>9, SameFile DEF EndPage
<1>10. CASE EndPdf
  BY <1>10, SameFile DEF EndPdf, Validate
<1>11. CASE UNCHANGED vars
  BY <1>11, SameFile DEF vars
<1>12. CASE RaiseInSection \/ RaiseInPage
  BY <1>12, SameFile DEF RaiseInSection, RaiseInPage
<1> QED
  BY <1>1, <1>2, <1>3, <1>4, <1>5, <1>6, <1>7, <1>8, <1>9, <1>10, <1>11, <1>12,
     NextSteps

\* A new title is the last, and nothing else changes which one is.
LEMMA HeadingStep ==
    ASSUME TypeOK, PlaceInv, CursorInv, HeadingInv, [Next]_vars
    PROVE  HeadingInv'
<1> USE DEF place, output, HeadingInv
<1>1. CASE ElementStep
  <2>1. CASE UNCHANGED output
    BY <2>1
  <2>2. CASE ~UNCHANGED output
    BY <1>1, <2>2, HeadingAppended DEF ElementStep, AddsElement, IsAdded
  <2> QED
    BY <2>1, <2>2
<1>2. CASE PieceStep
  BY <1>2, HeadingAppended DEF PieceStep, IsAdded
<1>3. CASE OpenPackage
  BY <1>3, OpeningSteps DEF OpenPackage
<1>4. CASE OpenSection
  BY <1>4, OpenSteps
<1>5. CASE WalkChildren
  BY <1>5, ChildrenStep
<1>6. CASE EndSection
  BY <1>6 DEF EndSection
<1>7. CASE EndPackage
  BY <1>7 DEF EndPackage, Validate
<1>8. CASE OpenPdf
  BY <1>8, OpeningSteps DEF OpenPdf
<1>9. CASE EndPage
  BY <1>9 DEF EndPage
<1>10. CASE EndPdf
  BY <1>10 DEF EndPdf, Validate
<1>11. CASE UNCHANGED vars
  BY <1>11 DEF vars
<1>12. CASE RaiseInSection \/ RaiseInPage
  BY <1>12 DEF RaiseInSection, RaiseInPage
<1> QED
  BY <1>1, <1>2, <1>3, <1>4, <1>5, <1>6, <1>7, <1>8, <1>9, <1>10, <1>11, <1>12,
     NextSteps

\* A PDF file without blocks needs OCR, and none has two blocks of one name.
LEMMA EndPdfParses ==
    ASSUME TypeOK, NamesDiffer, PdfInv, EndPdf
    PROVE  pc' = "parsed"
<1>1. /\ ~IsPackage /\ Len(file.pages) \in Nat \ {0} /\ part = Len(file.pages) + 1
      /\ part \in Nat /\ pc = "part"
  BY FileFacts DEF EndPdf, TypeOK, PdfInv
<1>2. blocks = <<>> => 2 * lowText > Len(file.pages)
  BY <1>1 DEF PdfInv
<1>3. ~\E i, j \in DOMAIN blocks : i # j /\ BlockId(blocks[i]) = BlockId(blocks[j])
  BY <1>1 DEF BlockId, NamesDiffer, SameName
<1> QED
  BY <1>2, <1>3 DEF EndPdf, Validate

\* A page without blocks is a page of little text.
LEMMA PdfStep ==
    ASSUME TypeOK, PlaceInv, CursorInv, NamesDiffer, PdfInv, [Next]_vars
    PROVE  PdfInv'
<1> USE DEF place, output, PdfInv
<1>1. CASE ElementStep
  BY <1>1, InSection, SameFile DEF ElementStep
<1>2. CASE PieceStep
  <2>1. blocks' # <<>>
    BY <1>2, Appended DEF PieceStep, IsAdded
  <2> QED
    BY <1>2, <2>1, SameFile DEF PieceStep
<1>3. CASE OpenPackage
  BY <1>3, OpeningSteps, SameFile DEF OpenPackage
<1>4. CASE OpenSection
  BY <1>4, OpenSteps, SameFile
<1>5. CASE WalkChildren
  BY <1>5, ChildrenStep, SameFile DEF WalkChildren
<1>6. CASE EndSection
  BY <1>6, SameFile DEF EndSection, PlaceInv
<1>7. CASE EndPackage
  BY <1>7, SameFile DEF EndPackage, Validate
<1>8. CASE OpenPdf
  <2>1. /\ part = 1 /\ Len(file.pages) \in Nat /\ ~IsPackage
        /\ UNCHANGED <<file, part, taken, characters, lowText, blocks>>
    BY <1>8, FileFacts DEF OpenPdf, PlaceInv
  <2>2. pc' = "part" => file.pages # <<>>
    BY <1>8, <2>1, OpeningSteps
  <2> QED
    BY <2>1, <2>2, SameFile
<1>9. CASE EndPage
  <2>1. Len(file.pages) \in Nat /\ part \in Nat /\ lowText \in Nat
    BY <1>9, FileFacts DEF EndPage, TypeOK
  <2>2. blocks = <<>> => LowText
    BY <1>9, LimitsAssumption DEF LowText, EndPage
  <2> QED
    BY <1>9, <2>1, <2>2, SameFile DEF EndPage
<1>10. CASE EndPdf
  BY <1>10, SameFile DEF EndPdf, Validate
<1>11. CASE UNCHANGED vars
  BY <1>11, SameFile DEF vars
<1>12. CASE RaiseInSection \/ RaiseInPage
  BY <1>12, SameFile DEF RaiseInSection, RaiseInPage
<1> QED
  BY <1>1, <1>2, <1>3, <1>4, <1>5, <1>6, <1>7, <1>8, <1>9, <1>10, <1>11, <1>12,
     NextSteps

\* Two blocks with one id are from two sections with one name, and a long id is that of
\* an element, whose index is below the length of the section.
LEMMA RaisedStep ==
    ASSUME TypeOK, PlaceInv, CursorInv, NamesDiffer, PdfInv, RaisedHasCause, [Next]_vars
    PROVE  RaisedHasCause'
<1> USE DEF place, output
<1>1. CASE ElementStep
  BY <1>1 DEF ElementStep, RaisedHasCause
<1>2. CASE PieceStep
  BY <1>2 DEF PieceStep, RaisedHasCause
<1>3. CASE OpenPackage \/ OpenPdf
  BY <1>3, OpeningSteps, SameCauses DEF OpenPackage, OpenPdf, RaisedHasCause
<1>4. CASE OpenSection
  <2>1. pc' = "raised" => PackageRaises
    BY <1>4, OpenSteps DEF PackageRaises
  <2> QED
    BY <1>4, <2>1, SameCauses DEF OpenSection, RaisedHasCause
<1>5. CASE WalkChildren
  BY <1>5 DEF WalkChildren, RaisedHasCause
<1>6. CASE EndSection
  BY <1>6 DEF EndSection, RaisedHasCause
<1>7. CASE EndPackage
  <2> SUFFICES ASSUME pc' = "raised"
               PROVE  \E i, j \in DOMAIN file.spine :
                          i # j /\ SectionPath(i).stem = SectionPath(j).stem
    BY <1>7, SameCauses DEF EndPackage, RaisedHasCause, PackageRaises
  <2>1. IsPackage /\ blocks # <<>>
    BY <1>7 DEF EndPackage
  <2>2. PICK k, l \in DOMAIN blocks : k # l /\ BlockId(blocks[k]) = BlockId(blocks[l])
    BY <1>7, <2>1 DEF EndPackage, Validate
  <2>3. /\ SectionPath(blocks[k].part).stem = SectionPath(blocks[l].part).stem
        /\ blocks[k].letter = blocks[l].letter /\ blocks[k].index = blocks[l].index
    BY <2>1, <2>2 DEF BlockId
  <2>4. blocks[k].part # blocks[l].part
    BY <2>2, <2>3 DEF NamesDiffer, SameName
  <2> QED
    BY <2>1, <2>2, <2>3, <2>4 DEF PlaceInv
<1>8. CASE RaiseInSection
  <2>1. /\ IsPackage /\ part \in DOMAIN file.spine /\ Section = TreeOf(part)
        /\ IsTree(TreeOf(part)) /\ cursor \in DOMAIN TreeOf(part) /\ cursor \in Nat
    BY <1>8, InSection DEF RaiseInSection, TypeOK
  <2>2. table \in 0..Len(TreeOf(part)) /\ paragraph \in 0..Len(TreeOf(part))
    BY <1>8, <2>1, CountFacts DEF RaiseInSection, CursorInv
  <2>3. TooDeep => PackageRaises
    BY <2>1 DEF TooDeep, PackageRaises
  <2>4. \A n \in 0..Len(TreeOf(part)) : IdTooLong(n) => PackageRaises
    BY <2>1 DEF IdTooLong, PackageRaises
  <2>5. PackageRaises
    BY <1>8, <2>2, <2>3, <2>4 DEF RaiseInSection
  <2> QED
    BY <1>8, <2>1, <2>5, SameCauses DEF RaiseInSection, RaisedHasCause
<1>9. CASE RaiseInPage
  <2>1. ~IsPackage /\ Len(file.pages) \in Nat
    BY <1>9, FileFacts DEF RaiseInPage
  <2>2. part \in DOMAIN file.pages
    <3>1. DOMAIN file.pages = 1..Len(file.pages)
      BY <2>1, FileFacts, PdfsAssumption, SeqFacts
    <3> QED
      BY <1>9, <2>1, <3>1 DEF RaiseInPage, TypeOK
  <2>3. PdfRaises
    BY <1>9, <2>2 DEF RaiseInPage, PdfRaises
  <2> QED
    BY <1>9, <2>1, <2>3, SameCauses DEF RaiseInPage, RaisedHasCause
<1>10. CASE EndPage
  BY <1>10 DEF EndPage, RaisedHasCause
<1>11. CASE EndPdf
  BY <1>11, EndPdfParses DEF RaisedHasCause
<1>12. CASE UNCHANGED vars
  BY <1>12, SameCauses DEF vars, RaisedHasCause
<1> QED
  BY <1>1, <1>2, <1>3, <1>4, <1>5, <1>6, <1>7, <1>8, <1>9, <1>10, <1>11, <1>12,
     NextSteps

----------------------------------------------------------------------------
(* The theorems.                                                           *)

\* The inductive invariant holds in every state of a parser.
THEOREM ParsingInvariant == Spec => []ParsingInv
<1>1. Init => ParsingInv
  <2> SUFFICES ASSUME Init
               PROVE  ParsingInv
    OBVIOUS
  <2>1. /\ blocks = <<>> /\ pc = "open" /\ part = 1 /\ heading = 0
        /\ blocks \in Seq(Blocks) /\ Len(blocks) = 0 /\ DOMAIN blocks = {}
    BY DEF Init
  <2>2. TypeOK
    BY <2>1 DEF Init, TypeOK
  <2>3. PlaceInv /\ CursorInv /\ BlocksAreLocated
    BY <2>1 DEF PlaceInv, CursorInv, BlocksAreLocated
  <2>4. PackageCounters /\ PdfCounters /\ NamesDiffer /\ TextsArePast /\ TextsAreApart
    BY <2>1 DEF PackageCounters, PdfCounters, NamesDiffer, TextsArePast, TextsAreApart
  <2>5. PassedIsRead
    BY <2>1, <2>2, FileFacts DEF PassedIsRead
  <2>6. HeadingInv /\ PdfInv /\ RaisedHasCause
    BY <2>1 DEF Init, HeadingInv, LastTitle, PdfInv, RaisedHasCause
  <2> QED
    BY <2>2, <2>3, <2>4, <2>5, <2>6 DEF ParsingInv
<1>2. ParsingInv /\ [Next]_vars => ParsingInv'
  BY TypeStep, PlaceStep, CursorStep, LocatedStep, PackageCountersStep, PdfCountersStep,
     NamesStep, PastStep, ApartStep, ReadStep, HeadingStep, PdfStep, RaisedStep DEF ParsingInv
<1> QED
  BY <1>1, <1>2, PTL DEF Spec

\* Every variable has its type in every state of a parser.
THEOREM TypeCorrect == Spec => []TypeOK
  BY ParsingInvariant, PTL DEF ParsingInv

\* Whatever the sections and pages, a block is below the last title at or before it.
THEOREM HeadingsAreLast == Spec => []HeadingIsTheLast
<1>1. ASSUME ParsingInv
      PROVE  HeadingIsTheLast
  <2> SUFFICES ASSUME NEW i \in DOMAIN blocks
               PROVE  blocks[i].heading = Max({0} \cup {j \in 1..i : blocks[j].title})
    BY DEF HeadingIsTheLast
  <2> DEFINE titles == {0} \cup {j \in 1..i : blocks[j].title}
             h == blocks[i].heading
  <2>1. LastTitle(blocks, h, i) /\ i \in Nat
    BY <1>1, BlockFacts DEF ParsingInv, HeadingInv
  <2>2. h \in titles /\ titles \subseteq Nat /\ \A j \in titles : h >= j
    BY <2>1 DEF LastTitle
  <2> HIDE DEF titles, h
  <2>3. Max(titles) \in titles /\ \A j \in titles : Max(titles) >= j
    BY <2>2, Zenon DEF Max
  <2>4. \A m \in Nat : m \in titles /\ (\A j \in titles : m >= j) => m = h
    BY <2>2
  <2>5. h = Max(titles)
    BY <2>2, <2>3, <2>4
  <2> QED
    BY <2>5 DEF titles, h
<1> QED
  BY <1>1, ParsingInvariant, PTL

\* However paragraphs and tables contain each other, each of their texts is in one block.
THEOREM TextsAreInOneBlock == Spec => []EachTextInOneBlock
<1>1. ASSUME ParsingInv
      PROVE  EachTextInOneBlock
  <2> SUFFICES ASSUME pc = "parsed", IsPackage, NEW i \in DOMAIN file.spine,
                      NEW t \in DOMAIN TreeOf(i), IsRead(TreeOf(i), t)
               PROVE  Cardinality({b \in BlocksOf(i) : t \in b.text}) = 1
    BY DEF EachTextInOneBlock
  <2> USE <1>1 DEF ParsingInv
  <2>1. i < part
    BY FileFacts DEF PlaceInv, TypeOK
  <2>2. PICK k \in DOMAIN blocks : blocks[k].part = i /\ t \in blocks[k].text
    BY <2>1 DEF PassedIsRead, TypeOK
  <2>3. \A l \in DOMAIN blocks : blocks[l].part = i /\ t \in blocks[l].text => l = k
    BY <2>2 DEF TextsAreApart
  <2>4. {b \in BlocksOf(i) : t \in b.text} = {blocks[k]}
    BY <2>2, <2>3 DEF BlocksOf, ToSet
  <2> QED
    BY <2>4, FS_Singleton
<1> QED
  BY <1>1, ParsingInvariant, PTL

\* However paragraphs and tables contain each other, a locator leads to the element that
\* the block is made of.
THEOREM LocatorsCount == Spec => []LocatorCountsElements
<1>1. ASSUME ParsingInv
      PROVE  LocatorCountsElements
  <2> SUFFICES ASSUME IsPackage, NEW i \in DOMAIN file.spine, NEW b \in BlocksOf(i)
               PROVE  LET counted == Counted(TreeOf(i), CountedKind(b))
                      IN  \E n \in counted :
                              /\ b.index = Cardinality({m \in counted : m < n})
                              /\ \A t \in b.text : Holds(TreeOf(i), n, t)
    BY DEF LocatorCountsElements, CountedKind
  <2>1. PICK k \in DOMAIN blocks : b = blocks[k] /\ blocks[k].part = i
    BY DEF BlocksOf, ToSet
  <2>2. PICK n \in DOMAIN TreeOf(i) : MadeOf(TreeOf(i), b, n)
    BY <1>1, <2>1 DEF ParsingInv, BlocksAreLocated
  <2> QED
    BY <2>2 DEF MadeOf, CountedBefore
<1> QED
  BY <1>1, ParsingInvariant, PTL

\* A parser raises what is not expected only for a file that has one of the causes named:
\* for no other does it make two blocks of one name, or find nothing and not say so.
THEOREM RaisesAreCaused == Spec => []RaisedHasCause
  BY ParsingInvariant, PTL DEF ParsingInv

=============================================================================
