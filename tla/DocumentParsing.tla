--------------------------- MODULE DocumentParsing ---------------------------
(***************************************************************************)
(* HwpxParser.parse and PdfParser.parse: a file becomes the sequence of    *)
(* blocks that is analysed and cited, or it is rejected with an error that *)
(* process_document knows, or the parser raises one that it does not.      *)
(*                                                                         *)
(* The loops of the parsers are steps.  A section is its XML tree in       *)
(* document order, each element with the number of those below it; a table *)
(* row has one cell, and the elements between a cell, a paragraph and its  *)
(* texts are left out.  The text of a block is the set of the texts it is  *)
(* made of, by their place in the section or their height on the page.  A  *)
(* page is a set of texts and tables with their vertical extent.           *)
(***************************************************************************)
EXTENDS Integers, SequencesExt

CONSTANTS
    Packages,      \* HWPX files
    Pdfs,          \* PDF files
    MinTextChars,  \* min_text_chars_per_page
    MaxNesting     \* elements inside each other that walk's recursion allows

\* In a tree, element m is above element n.
Holds(tree, m, n) == m < n /\ n <= m + tree[m].below

\* A section is a tree: what is below an element is below all that it is below of.
ElementKinds == {"box", "p", "tbl", "cell", "t"}
ElementLooks == {"none", "blank", "plain", "title", "long"}
IsTree(tree) ==
    /\ tree \in Seq([kind : ElementKinds, below : Nat, look : ElementLooks])
    /\ \A m, n \in DOMAIN tree :
           Holds(tree, m, n) => n + tree[n].below <= m + tree[m].below

Pieces == [kind : {"text", "table"}, top : Nat, bottom : Nat,
           look : {"plain", "title", "titled"}, chars : Nat]

\* What reading and parsing a member comes to.  Of an unreadable one archive.read raises
\* what is no BadZipFile, as for an encrypted member or one that does not inflate, or the
\* parser what is no ParseError, as for an encoding that it does not know.
Contents == {"xml", "malformed", "unreadable"}

ASSUME PackagesAssumption ==
    \A package \in Packages :
        /\ package.spine \in Seq(STRING)
        /\ "spine" \in DOMAIN package
        /\ package.manifest \in Contents
        /\ \A name \in DOMAIN package.members :
               /\ package.members[name].content \in Contents
               /\ IsTree(package.members[name].tree)

ASSUME PdfsAssumption ==
    \A pdf \in Pdfs :
        /\ "spine" \notin DOMAIN pdf /\ pdf.pages \in Seq(SUBSET Pieces)
        /\ pdf.opens \in {"opened", "invalid", "unreadable"}

\* The parser is made with its default, 20.
ASSUME LimitsAssumption == MinTextChars \in Nat \ {0} /\ MaxNesting \in Nat \ {0}

VARIABLES
    file,        \* the file being parsed
    part,        \* the section in spine order, or the page
    cursor,      \* the element of the section it is at
    taken,       \* the candidates of the page it is past
    characters,  \* page_characters, as far as the page is taken
    paragraph,   \* paragraph_index
    table,       \* table_index
    heading,     \* the block that heading_path names, 0 for none
    lowText,     \* low_text_pages
    blocks,
    pc           \* where the parser is

place == <<part, cursor, taken, characters, paragraph, table>>
output == <<heading, blocks>>
vars == <<file, place, lowText, output, pc>>

\* An HWPX file has its members, by stem, its length and the number of directories
\* Contents/ they are in, and the items and the spine of its manifest; a PDF file has
\* pages, of which some may be broken.
IsPackage == "spine" \in DOMAIN file

Init ==
    /\ file \in Packages \cup Pdfs
    /\ part = 1 /\ cursor = 1 /\ paragraph = 0 /\ table = 0
    /\ taken = {} /\ characters = 0
    /\ heading = 0 /\ lowText = 0
    /\ blocks = <<>>
    /\ pc = "open"

----------------------------------------------------------------------------
(* _section_paths: the manifest and the spine.                             *)

\* A reference is a name from the root of the package if there is such a member, and
\* else one from the directory of the manifest.
Resolve(href) ==
    IF href \in DOMAIN file.members THEN href ELSE [href EXCEPT !.depth = @ + 1]

\* urlparse and is_unsafe_archive_member find the reference of an item plain, unsafe,
\* or no URL at all, which is a ValueError of urlparse's.
RepeatsId(i) == \E j \in 1..i - 1 : file.items[j].id = file.items[i].id
RepeatsPath(i) ==
    \E j \in 1..i - 1 : Resolve(file.items[j].href) = Resolve(file.items[i].href)

ItemFails(i) == RepeatsId(i) \/ file.items[i].form # "plain" \/ RepeatsPath(i)
ValidManifest == \A i \in DOMAIN file.items : ~ItemFails(i)

\* The first item that fails decides.
ManifestRaises ==
    \E i \in DOMAIN file.items :
        /\ file.items[i].form = "unparsable" /\ ~RepeatsId(i)
        /\ \A j \in 1..i - 1 : ~ItemFails(j)

ItemOf(id) == CHOOSE item \in ToSet(file.items) : item.id = id
SectionPath(i) == Resolve(ItemOf(file.spine[i]).href)

ValidSpine ==
    /\ file.spine # <<>>
    /\ \A i \in DOMAIN file.spine :
           /\ \E item \in ToSet(file.items) : item.id = file.spine[i]
           /\ SectionPath(i) \in DOMAIN file.members

\* block_id: the stem of the section or the number of the page, a letter and an index.
BlockId(b) == <<IF IsPackage THEN SectionPath(b.part).stem ELSE b.part, b.letter, b.index>>

\* ParseResult.validate_result, whose error nobody expects.
Validate(requiresOcr) ==
    pc' = IF \/ \E i, j \in DOMAIN blocks : i # j /\ BlockId(blocks[i]) = BlockId(blocks[j])
             \/ ~requiresOcr /\ blocks = <<>>
          THEN "raised" ELSE "parsed"

\* detect_document_format and validate_archive find the archive intact or do not.
OpenPackage ==
    /\ pc = "open" /\ IsPackage
    /\ pc' = IF ~file.intact THEN "rejected"
             ELSE CASE file.manifest = "unreadable" -> "raised"
                    [] file.manifest = "malformed"  -> "rejected"
                    [] file.manifest = "xml"        ->
                           IF ManifestRaises THEN "raised"
                           ELSE IF ValidManifest /\ ValidSpine THEN "part" ELSE "rejected"
    /\ UNCHANGED <<file, place, lowText, output>>

----------------------------------------------------------------------------
(* _section_items and the blocks made of them.                             *)

Content == file.members[SectionPath(part)].content
Section == file.members[SectionPath(part)].tree
Elements == DOMAIN Section

\* Mutant: the headings of a section end with it.
OpenSectionAfresh ==
    /\ pc = "part" /\ IsPackage /\ part <= Len(file.spine)
    /\ cursor' = 1 /\ paragraph' = 0 /\ table' = 0 /\ heading' = 0
    /\ pc' = CASE Content = "xml" -> "walk"
               [] Content = "malformed" -> "rejected"
               [] Content = "unreadable" -> "raised"
    /\ UNCHANGED <<file, part, taken, characters, lowText, blocks>>

OpenSection ==
    /\ pc = "part" /\ IsPackage /\ part <= Len(file.spine)
    /\ cursor' = 1 /\ paragraph' = 0 /\ table' = 0
    /\ pc' = CASE Content = "xml" -> "walk"
               [] Content = "malformed" -> "rejected"
               [] Content = "unreadable" -> "raised"
    /\ UNCHANGED <<file, part, taken, characters, lowText, output>>

\* iter(): all that is below the element.
Iterate(n, kind) == {m \in Elements : Holds(Section, n, m) /\ Section[m].kind = kind}

TextContent(n) == {t \in Iterate(n, "t") : Section[t].look # "blank"}

\* The cells of each row of the table, nested rows and cells included.
TableText(n) == UNION {TextContent(cell) : cell \in Iterate(n, "cell")}

\* The first text has a number or letter, and all are short together.
IsHeading(text) ==
    /\ \E t \in text : Section[t].look = "title" /\ \A u \in text : t <= u
    /\ \A t \in text : Section[t].look # "long"

\* walk does not go into what it has made an item of.
AfterCursor == cursor' = cursor + 1
AfterElement == cursor' = cursor + 1 + Section[cursor].below

\* walk calls itself for each element it goes into; the RecursionError is nobody's.
NestingOf(tree, n) == Cardinality({m \in DOMAIN tree : Holds(tree, m, n)})
TooDeep == NestingOf(Section, cursor) >= MaxNesting

\* "hwpx-", the stem, "-", the letter and the index; TLC's integers end below 10^10, and
\* an archive below 10^9 elements.
Digits(n) == 1 + Cardinality({k \in 1..9 : 10^k <= n})
IdLength(name, index) == 7 + name.chars + Digits(index)
MaxIdLength == 160
IdTooLong(index) == IdLength(SectionPath(part), index) > MaxIdLength

AddItem(kind, letter, index, text, isTitle) ==
    /\ blocks' = Append(blocks, [part |-> part, letter |-> letter, index |-> index,
                                 kind |-> IF isTitle THEN "heading" ELSE kind,
                                 text |-> text, title |-> isTitle,
                                 heading |-> IF isTitle THEN Len(blocks) + 1 ELSE heading])
    /\ heading' = IF isTitle THEN Len(blocks) + 1 ELSE heading

WalkTable ==
    /\ pc = "walk" /\ cursor \in Elements /\ Section[cursor].kind = "tbl"
    /\ ~TooDeep /\ ~(TableText(cursor) # {} /\ IdTooLong(table))
    /\ IF TableText(cursor) = {} THEN UNCHANGED output
       ELSE AddItem("table", "t", table, TableText(cursor), FALSE)
    /\ table' = table + 1
    /\ AfterElement
    /\ UNCHANGED <<file, part, taken, characters, paragraph, lowText, pc>>

\* Mutant: empty paragraphs are not counted.
WalkParagraphUncounted ==
    /\ pc = "walk" /\ cursor \in Elements /\ Section[cursor].kind = "p"
    /\ ~TooDeep /\ ~(TextContent(cursor) # {} /\ IdTooLong(paragraph))
    /\ IF TextContent(cursor) = {} THEN UNCHANGED <<output, paragraph>>
       ELSE /\ AddItem("paragraph", "p", paragraph, TextContent(cursor),
                       IsHeading(TextContent(cursor)))
            /\ paragraph' = paragraph + 1
    /\ AfterElement
    /\ UNCHANGED <<file, part, taken, characters, table, lowText, pc>>

WalkParagraph ==
    /\ pc = "walk" /\ cursor \in Elements /\ Section[cursor].kind = "p"
    /\ ~TooDeep /\ ~(TextContent(cursor) # {} /\ IdTooLong(paragraph))
    /\ IF TextContent(cursor) = {} THEN UNCHANGED output
       ELSE AddItem("paragraph", "p", paragraph, TextContent(cursor),
                    IsHeading(TextContent(cursor)))
    /\ paragraph' = paragraph + 1
    /\ AfterElement
    /\ UNCHANGED <<file, part, taken, characters, table, lowText, pc>>

WalkChildren ==
    /\ pc = "walk" /\ cursor \in Elements /\ Section[cursor].kind \notin {"p", "tbl"}
    /\ ~TooDeep
    /\ AfterCursor
    /\ UNCHANGED <<file, part, taken, characters, paragraph, table, lowText, output, pc>>

\* The section is nested too deeply, or a DocumentBlock is refused its block_id.
RaiseInSection ==
    /\ pc = "walk" /\ cursor \in Elements
    /\ \/ TooDeep
       \/ Section[cursor].kind = "tbl" /\ TableText(cursor) # {} /\ IdTooLong(table)
       \/ Section[cursor].kind = "p" /\ TextContent(cursor) # {} /\ IdTooLong(paragraph)
    /\ pc' = "raised"
    /\ UNCHANGED <<file, place, lowText, output>>

EndSection ==
    /\ pc = "walk" /\ cursor \notin Elements
    /\ part' = part + 1
    /\ pc' = "part"
    /\ UNCHANGED <<file, cursor, taken, characters, paragraph, table, lowText, output>>

EndPackage ==
    /\ pc = "part" /\ IsPackage /\ part > Len(file.spine)
    /\ IF blocks = <<>> THEN pc' = "rejected" ELSE Validate(FALSE)
    /\ UNCHANGED <<file, place, lowText, output>>

----------------------------------------------------------------------------
(* PdfParser.parse.                                                        *)

\* invalid_pdf, encrypted_pdf and empty_pdf; fitz.open may raise what is neither a
\* FileDataError nor a RuntimeError, and page_count anything.
OpenPdf ==
    /\ pc = "open" /\ ~IsPackage
    /\ pc' = CASE file.opens = "unreadable" -> "raised"
               [] file.opens = "invalid"    -> "rejected"
               [] file.opens = "opened"     ->
                      IF ~file.needsPass /\ file.pages # <<>> THEN "part" ELSE "rejected"
    /\ UNCHANGED <<file, place, lowText, output>>

\* The page cannot be loaded, or find_tables or get_text raises: no try covers them.
RaiseInPage ==
    /\ pc = "part" /\ ~IsPackage /\ part <= Len(file.pages)
    /\ part \in file.broken
    /\ pc' = "raised"
    /\ UNCHANGED <<file, place, lowText, output>>

Intersect(a, b) == a.top < b.bottom /\ b.top < a.bottom

\* _page_candidates: the tables with text, and the texts that touch none of them.
PageCandidates(page) ==
    LET some == {c \in page : c.chars > 0}
        tables == {c \in some : c.kind = "table"}
    IN  tables \cup {c \in some \ tables : ~\E t \in tables : Intersect(c, t)}

Candidates == PageCandidates(file.pages[part])

\* Sorted from top to bottom.
Topmost(c) == \A d \in Candidates \ taken : c.top <= d.top

\* A title in the first line of a text or a table heads what follows; alone it is a
\* heading itself.
AddCandidate(c, isTable, index, isTitle) ==
    /\ heading' = IF isTitle THEN Len(blocks) + 1 ELSE heading
    /\ blocks' = Append(blocks, [part |-> part, letter |-> IF isTable THEN "t" ELSE "b",
                                 index |-> index,
                                 kind |-> IF c.look = "title" THEN "heading"
                                          ELSE IF isTable THEN "table" ELSE "paragraph",
                                 text |-> {c.top}, title |-> isTitle,
                                 heading |-> IF isTitle THEN Len(blocks) + 1 ELSE heading])

TakeTable ==
    /\ pc = "part" /\ ~IsPackage /\ part <= Len(file.pages)
    /\ part \notin file.broken
    /\ \E c \in Candidates \ taken :
           /\ Topmost(c) /\ c.kind = "table"
           /\ AddCandidate(c, TRUE, table + 1, c.look # "plain")
           /\ taken' = taken \cup {c} /\ characters' = characters + c.chars
    /\ table' = table + 1
    /\ UNCHANGED <<file, part, cursor, paragraph, lowText, pc>>

TakeText ==
    /\ pc = "part" /\ ~IsPackage /\ part <= Len(file.pages)
    /\ part \notin file.broken
    /\ \E c \in Candidates \ taken :
           /\ Topmost(c) /\ c.kind = "text"
           /\ AddCandidate(c, FALSE, paragraph + 1, c.look # "plain")
           /\ taken' = taken \cup {c} /\ characters' = characters + c.chars
    /\ paragraph' = paragraph + 1
    /\ UNCHANGED <<file, part, cursor, table, lowText, pc>>

\* Mutant: a blank page is no page of little text.
LowTextUnlessBlank == characters \in 1..(MinTextChars - 1)

LowText == characters < MinTextChars

EndPage ==
    /\ pc = "part" /\ ~IsPackage /\ part <= Len(file.pages)
    /\ part \notin file.broken
    /\ Candidates \subseteq taken
    /\ lowText' = lowText + IF LowText THEN 1 ELSE 0
    /\ part' = part + 1 /\ taken' = {} /\ characters' = 0 /\ paragraph' = 0 /\ table' = 0
    /\ UNCHANGED <<file, cursor, output, pc>>

\* requires_ocr: more than half of the pages.
EndPdf ==
    /\ pc = "part" /\ ~IsPackage /\ part > Len(file.pages)
    /\ Validate(2 * lowText > Len(file.pages))
    /\ UNCHANGED <<file, place, lowText, output>>

----------------------------------------------------------------------------
Next ==
    \/ OpenPackage
    \/ OpenSection
    \/ WalkTable
    \/ WalkParagraph
    \/ WalkChildren
    \/ RaiseInSection
    \/ EndSection
    \/ EndPackage
    \/ OpenPdf
    \/ RaiseInPage
    \/ TakeTable
    \/ TakeText
    \/ EndPage
    \/ EndPdf

Spec == Init /\ [][Next]_vars

----------------------------------------------------------------------------
(* Properties.                                                             *)

Blocks == [part : Nat \ {0}, letter : {"p", "t", "b"}, index : Nat,
           kind : {"heading", "paragraph", "table"}, text : (SUBSET Nat) \ {{}},
           title : BOOLEAN, heading : Nat]

\* Every variable has its type: no block is blank.
TypeOK ==
    /\ file \in Packages \cup Pdfs
    /\ part \in Nat \ {0} /\ cursor \in Nat \ {0}
    /\ paragraph \in Nat /\ table \in Nat /\ heading \in Nat /\ lowText \in Nat
    /\ taken \subseteq Pieces /\ characters \in Nat
    /\ blocks \in Seq(Blocks)
    /\ pc \in {"open", "part", "walk", "parsed", "rejected", "raised"}

\* Every block is below the last title at or before it, across sections and pages.
HeadingIsTheLast ==
    \A i \in DOMAIN blocks :
        blocks[i].heading = Max({0} \cup {j \in 1..i : blocks[j].title})

TreeOf(i) == file.members[SectionPath(i)].tree
Within(tree, n) == \E m \in DOMAIN tree : tree[m].kind \in {"p", "tbl"} /\ Holds(tree, m, n)
BlocksOf(i) == {b \in ToSet(blocks) : b.part = i}

\* What a locator counts: the paragraphs or tables that are in no other.
Counted(tree, kind) == {n \in DOMAIN tree : tree[n].kind = kind /\ ~Within(tree, n)}

\* A text of a paragraph or of a cell of a table; a table's caption is in no cell.
IsRead(tree, t) ==
    /\ tree[t].kind = "t" /\ tree[t].look # "blank"
    /\ \/ \E n \in Counted(tree, "p") : Holds(tree, n, t)
       \/ \E n \in Counted(tree, "tbl"), c \in DOMAIN tree :
              tree[c].kind = "cell" /\ Holds(tree, n, c) /\ Holds(tree, c, t)

\* Each text of a paragraph or of a cell, however they contain each other, is in one
\* block and no other.
EachTextInOneBlock ==
    pc = "parsed" /\ IsPackage =>
        \A i \in DOMAIN file.spine : \A t \in DOMAIN TreeOf(i) :
            IsRead(TreeOf(i), t) => Cardinality({b \in BlocksOf(i) : t \in b.text}) = 1

\* A locator counts the paragraphs or tables before it in the section, those without
\* text included and those inside of others not: whoever follows it finds the text.
LocatorCountsElements ==
    IsPackage =>
        \A i \in DOMAIN file.spine : \A b \in BlocksOf(i) :
            LET counted == Counted(TreeOf(i), IF b.kind = "table" THEN "tbl" ELSE "p")
            IN  \E n \in counted :
                    /\ b.index = Cardinality({m \in counted : m < n})
                    /\ \A t \in b.text : Holds(TreeOf(i), n, t)

\* What process_document does not catch is raised by what no try covers, and by nothing
\* else.  In an HWPX file: a manifest or section that cannot be read, a reference that is
\* no URL, sections of one name, of a long one, or nested too deeply.
PackageRaises ==
    \/ file.manifest = "unreadable"
    \/ \E i \in DOMAIN file.items : file.items[i].form = "unparsable"
    \/ \E i \in DOMAIN file.spine :
           \/ file.members[SectionPath(i)].content = "unreadable"
           \/ \E j \in DOMAIN file.spine : i # j /\ SectionPath(i).stem = SectionPath(j).stem
           \/ \E n \in 0..Len(TreeOf(i)) : IdLength(SectionPath(i), n) > MaxIdLength
           \/ \E n \in DOMAIN TreeOf(i) : NestingOf(TreeOf(i), n) >= MaxNesting

\* In a PDF file: the file itself or a page that cannot be read.
PdfRaises == file.opens = "unreadable" \/ \E i \in DOMAIN file.pages : i \in file.broken

\* So no other file makes two blocks of one name, and one without any text is rejected
\* or sent to OCR.
RaisedHasCause == pc = "raised" => IF IsPackage THEN PackageRaises ELSE PdfRaises

----------------------------------------------------------------------------
(* A claim of the documentation that the code does not keep.               *)

\* The plan of the parser: each table is one table block.
EachTableIsOneBlock ==
    pc = "parsed" /\ IsPackage =>
        \A i \in DOMAIN file.spine :
            LET tables == {n \in DOMAIN TreeOf(i) :
                              /\ TreeOf(i)[n].kind = "tbl"
                              /\ \E c, t \in DOMAIN TreeOf(i) :
                                     /\ Holds(TreeOf(i), n, c) /\ TreeOf(i)[c].kind = "cell"
                                     /\ Holds(TreeOf(i), c, t)
                                     /\ TreeOf(i)[t].kind = "t" /\ TreeOf(i)[t].look # "blank"}
            IN  Cardinality(tables) = Cardinality({b \in BlocksOf(i) : b.kind = "table"})
=============================================================================
