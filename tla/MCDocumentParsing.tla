------------------------- MODULE MCDocumentParsing -------------------------
(* Instances of DocumentParsing for TLC.                                   *)
EXTENDS DocumentParsing, TLC

CONSTANT MaxElements

\* What may stand in what; a paragraph of a table that is in no cell is its caption.
Children == [root |-> {"box", "p", "tbl"}, box |-> {"p"}, p |-> {"t", "tbl"},
             tbl |-> {"cell", "p"}, cell |-> {"p"}, t |-> {}]
Looks(kind) == IF kind = "t" THEN {"blank", "plain", "title", "long"} ELSE {"none"}
Element(kind, below, look) == [kind |-> kind, below |-> below, look |-> look]

\* The elements below one of some kind: a first with all below it, and the others.
Forests ==
    LET of[kind \in DOMAIN Children, n \in 0..MaxElements] ==
            IF n = 0 THEN {<<>>}
            ELSE UNION {{<<Element(k, m, look)>> \o below \o rest :
                             look \in Looks(k), below \in of[k, m], rest \in of[kind, n - 1 - m]} :
                           k \in Children[kind], m \in 0..n - 1}
    IN  UNION {of["root", n] : n \in 0..MaxElements}

\* A table in the cell of a table.
Nested == <<Element("tbl", 6, "none"), Element("cell", 5, "none"), Element("p", 4, "none"),
            Element("tbl", 3, "none"), Element("cell", 2, "none"), Element("p", 1, "none"),
            Element("t", 0, "plain")>>
Line(look) == <<Element("p", 1, "none"), Element("t", 0, look)>>

\* A paragraph at the end of the recursion, and as many paragraphs as need a second digit.
Inside == [n \in 1..4 |-> Element("box", 6 - n, "none")]
              \o <<Element("p", 1, "none"), Element("t", 0, "plain")>>
Column == FlattenSeq([k \in 1..11 |-> Line("plain")])

Xml(tree) == [content |-> "xml", tree |-> tree]

\* The longest name with which a single digit fits in, and the next.
StemLength(stem) == CASE stem = "full" -> 152 [] stem = "over" -> 153 [] OTHER -> 2
Name(depth, stem) == [depth |-> depth, stem |-> stem, chars |-> StemLength(stem)]
Item(id, href, form) == [id |-> id, href |-> href, form |-> form]

\* One section.
Single(stem, tree) ==
    [intact |-> TRUE, manifest |-> "xml", items |-> <<Item("i1", Name(0, stem), "plain")>>,
     spine |-> <<"i1">>, members |-> (Name(1, stem) :> Xml(tree))]
Singles ==
    {Single("s1", tree) : tree \in Forests \cup {Nested, Inside, Column}}
        \cup {Single(stem, tree) : stem \in {"full", "over"}, tree \in {Line("plain"), Column, Nested}}

\* Manifests of all kinds, of two references to one section.
Manifests ==
    [intact : BOOLEAN, manifest : Contents,
     items : {<<Item("i1", Name(0, "s1"), f), Item(id, Name(d, "s1"), g)>> :
                 f, g \in {"plain", "unsafe", "unparsable"}, id \in {"i1", "i2"}, d \in {0, 2}},
     spine : {<<"i1">>}, members : {Name(1, "s1") :> Xml(Line("plain"))}]

\* Two sections, found at the root or below Contents.
TwoContents == {Xml(Line("title")), Xml(Line("plain"))}
                  \cup [content : Contents \ {"xml"}, tree : {<<>>}]
Pairs ==
    LET hrefs == {Name(0, "s1"), Name(1, "s1"), Name(0, "s2")}
        items == {<<Item("i1", Name(0, "s1"), "plain"), Item(id, href, "plain")>> :
                     id \in {"i1", "i2"}, href \in hrefs}
        members == {(Name(d, "s1") :> a) @@ (Name(1, other) :> b) :
                       d \in {0, 1}, other \in {"s1", "s2"}, a \in TwoContents, b \in TwoContents}
    IN  [intact : {TRUE}, manifest : {"xml"}, items : items,
         spine : BoundedSeq({"i1", "i2"}, 2), members : members]

SomePackages == Singles \cup Manifests \cup Pairs

Candidate(kind, top, bottom, look, chars) ==
    [kind |-> kind, top |-> top, bottom |-> bottom, look |-> look, chars |-> chars]
SomePages ==
    {above \cup amid \cup below :
        above \in {{}} \cup {{Candidate("text", 1, 2, look, chars)} :
                                look \in {"plain", "title", "titled"}, chars \in {0, 1, 2}},
        amid \in {{}, {Candidate("text", 2, 4, "plain", 1)}},
        below \in {{}} \cup {{Candidate("table", 3, 5, look, 2)} :
                                look \in {"plain", "title", "titled"}}}
Opened(pages, broken) ==
    [opens : {"opened"}, needsPass : {FALSE}, pages : pages, broken : broken]
SomePdfs ==
    Opened(BoundedSeq(SomePages, 2), {{}})
        \cup Opened({<<page, {}>> : page \in SomePages}, {{1}, {2}})
        \cup Opened({<<{}, {}, {}>>, <<{Candidate("text", 1, 2, "plain", 2)}, {}, {}>>}, {{}})
        \cup [opens : {"opened", "invalid", "unreadable"}, needsPass : BOOLEAN, pages : {<<>>},
              broken : {{}}]
=============================================================================
