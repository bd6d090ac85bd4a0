-------------------------------- MODULE Parser --------------------------------
(***************************************************************************)
(* CanonicalParser (packages/rag/parsing.py): a document becomes blocks of *)
(* text, each with the headings it stands under.                           *)
(*                                                                         *)
(* A text is a sequence of tokens.  A source has a media type and a        *)
(* sequence of items, which are parsed one after the other:                *)
(*   markdown, plain   lines   [kind, text, level]                         *)
(*   html              events of the HTML tokenizer  [kind, tag, text]     *)
(*   pdf               pages   [lines, outline], the lines with their      *)
(*                     place on the page in points; the lines of a page    *)
(*                     are read one after the other                        *)
(***************************************************************************)
EXTENDS Integers, SequencesExt

CONSTANTS
    Supply,      \* Supply[media][i]: what the i-th item of a source can be
    MaxPages,    \* max_pages
    MaxText,     \* max_characters
    MidPage,     \* half of the width of a page
    Nothing      \* no tag is captured

\* Headings have a level, only a blank line has no text, and tags have none.
Words == Seq(STRING) \ {<<>>}
MarkdownLine ==
    [kind : {"heading"}, text : Words, level : 1 .. 6]
    \cup [kind : {"item", "text"}, text : Words, level : {0}]
    \cup [kind : {"blank"}, text : {<<>>}, level : {0}]
PlainLine == {line \in MarkdownLine : line.kind \in {"text", "blank"}}
HtmlEvent ==
    [kind : {"open", "close"}, tag : STRING, text : {<<>>}]
    \cup [kind : {"data"}, tag : {Nothing}, text : Seq(STRING)]
PageLine ==
    [text : Words, top : Int, bottom : Int, x0 : Int, x1 : Int, size : Int,
     bold : BOOLEAN, bullet : BOOLEAN, short : BOOLEAN]
PdfPage ==
    [lines : {lines \in SUBSET PageLine : IsFiniteSet(lines)},
     outline : SUBSET [text : Words, level : 1 .. 6]]

SourceItem ==
    [markdown |-> MarkdownLine, plain |-> PlainLine, html |-> HtmlEvent, pdf |-> PdfPage]

ASSUME SupplyAssumption ==
    /\ DOMAIN Supply \subseteq DOMAIN SourceItem
    /\ \A type \in DOMAIN Supply : Supply[type] \in Seq(SUBSET SourceItem[type])

VARIABLES
    media,       \* media_type
    items,       \* the source, as far as it was parsed
    unread,      \* the lines of the last page that are not parsed yet
    collector    \* _BlockCollector, and the local variables of the parsers

parserVars == <<media, items, unread, collector>>

\* parts: the open paragraph or captured element; lines: of that paragraph in a PDF;
\* tag, depth: of that element.
NewCollector == [blocks |-> <<>>, headings |-> <<>>, parts |-> <<>>, lines |-> <<>>,
                 tag |-> Nothing, depth |-> 0]

\* add; level 0 is no heading, page 0 no page.
AddMutant(c, text, level, page) ==   \* the heading of the same level stays
    IF text = <<>> THEN c
    ELSE LET path == IF level = 0 THEN c.headings
                     ELSE Append(SubSeq(c.headings, 1, Min({level, Len(c.headings)})), text)
         IN  [c EXCEPT !.headings = path,
                       !.blocks = Append(@, [text |-> text, path |-> path, page |-> page])]
Add(c, text, level, page) ==
    IF text = <<>> THEN c
    ELSE LET path == IF level = 0 THEN c.headings
                     ELSE Append(SubSeq(c.headings, 1, Min({level - 1, Len(c.headings)})),
                                 text)
         IN  [c EXCEPT !.headings = path,
                       !.blocks = Append(@, [text |-> text, path |-> path, page |-> page])]

---------------------------------------------------------------------------
(* Markdown, and plain text, which has text and blank lines only. *)

Flush(c) == [Add(c, c.parts, 0, 0) EXCEPT !.parts = <<>>]

OnLine(c, line) ==
    CASE line.kind = "heading" -> Add(Flush(c), line.text, line.level, 0)
      [] line.kind = "item"    -> Add(Flush(c), line.text, 0, 0)
      [] line.kind = "blank"   -> Flush(c)
      [] line.kind = "text"    -> [c EXCEPT !.parts = @ \o line.text]

---------------------------------------------------------------------------
(* HTML.  Elements without an end tag, like br, are only opened. *)

Level == [h1 |-> 1, h2 |-> 2, h3 |-> 3, h4 |-> 4, h5 |-> 5, h6 |-> 6, p |-> 0, li |-> 0]
CaptureTags == DOMAIN Level

ASSUME NothingAssumption == Nothing \notin CaptureTags

OnOpen(c, tag) ==
    IF c.tag # Nothing THEN [c EXCEPT !.depth = @ + 1]
    ELSE IF tag \in CaptureTags THEN [c EXCEPT !.tag = tag, !.depth = 1, !.parts = <<>>]
    ELSE c

OnClose(c, tag) ==
    IF c.tag = Nothing THEN c
    ELSE IF c.depth > 1 \/ tag # c.tag THEN [c EXCEPT !.depth = @ - 1]
    ELSE [Add(c, c.parts, Level[tag], 0) EXCEPT !.tag = Nothing, !.depth = @ - 1,
                                                !.parts = <<>>]

OnEvent(c, event) ==
    CASE event.kind = "open"  -> OnOpen(c, event.tag)
      [] event.kind = "close" -> OnClose(c, event.tag)
      [] event.kind = "data"  ->
             IF c.tag = Nothing THEN c ELSE [c EXCEPT !.parts = @ \o event.text]

---------------------------------------------------------------------------
(* PDF. *)

Above(a, b) == a.top < b.top \/ (a.top = b.top /\ a.x0 < b.x0)

\* _reading_order: a page is cut where a gap is wide, and in each band two columns are
\* read one after the other, after the lines across them.
WideGap(line, page) == \A l \in page.lines : Above(l, line) => line.top - l.bottom > 45
BandNumber(line, page) ==
    Cardinality({l \in page.lines : WideGap(l, page) /\ ~Above(line, l)})

Column(line, page) ==
    LET band == {l \in page.lines : BandNumber(l, page) = BandNumber(line, page)}
        left == {l \in band : l.x1 < MidPage - 5}
        right == {l \in band : l.x0 > MidPage + 5}
    IN  CASE Cardinality(left) < 2 \/ Cardinality(right) < 2 -> 0
          [] line \in left -> 1
          [] line \in right -> 2
          [] OTHER -> 0

ReadBefore(a, b, page) ==
    \/ BandNumber(a, page) < BandNumber(b, page)
    \/ /\ BandNumber(a, page) = BandNumber(b, page)
       /\ \/ Column(a, page) < Column(b, page)
          \/ Column(a, page) = Column(b, page) /\ Above(a, b)

\* _visual_heading_level, with sizes in half points; 0 is no heading.
VisualLevel(line) ==
    CASE line.size >= 38 -> 1
      [] line.size \in 32 .. 37 -> 2
      [] line.size \in 26 .. 31 /\ line.bold -> 3
      [] line.size \in 21 .. 25 /\ line.bold -> 4
      [] OTHER -> 0

\* _pdf_paragraphs: line continues the paragraph before it.
Continues(line, paragraph) ==
    LET previous == Last(paragraph)
        indent == line.x0 - Head(paragraph).x0
        gap == line.top - previous.bottom
    IN  /\ VisualLevel(line) = 0 /\ ~line.bullet /\ ~(line.bold /\ line.short)
        /\ VisualLevel(previous) = 0
        /\ IF Head(paragraph).bullet THEN indent \in 8 .. 40
           ELSE line.x0 - previous.x0 \in -24 .. 24
        /\ gap >= 0 /\ (gap <= 9 \/ 10 * gap <= 6 * previous.size)

\* A paragraph is added; a heading of the page's outline has its level there, every other
\* one by its looks.
EndParagraphMutant(c, page, number) == c   \* the last paragraph of a page stays open
EndParagraph(c, page, number) ==
    LET listed == {o.level : o \in {o \in page.outline : o.text = c.parts}}
        level == IF listed # {} THEN CHOOSE n \in listed : TRUE
                 ELSE VisualLevel(Head(c.lines))
    IN  [Add(c, c.parts, level, number) EXCEPT !.parts = <<>>, !.lines = <<>>]

OnPageLine(c, line, page, number) ==
    IF c.lines = <<>> \/ Continues(line, c.lines)
    THEN [c EXCEPT !.parts = @ \o line.text, !.lines = Append(@, line)]
    ELSE [EndParagraph(c, page, number) EXCEPT !.parts = line.text, !.lines = <<line>>]

---------------------------------------------------------------------------
(* parse: one step for each item, and one for each line of a page. *)

ParserInit ==
    /\ media \in DOMAIN Supply
    /\ items = <<>>
    /\ unread = {}
    /\ collector = NewCollector

ParseItem(item) ==
    /\ unread = {}
    /\ items' = Append(items, item)
    /\ unread' = IF media = "pdf" THEN item.lines ELSE {}
    /\ collector' = CASE media \in {"markdown", "plain"} -> OnLine(collector, item)
                      [] media = "html" -> OnEvent(collector, item)
                      [] media = "pdf" -> collector
    /\ UNCHANGED media

ParseLine(line) ==
    LET page == Last(items)
        read == OnPageLine(collector, line, page, Len(items))
    IN  /\ \A l \in unread \ {line} : ReadBefore(line, l, page)
        /\ unread' = unread \ {line}
        /\ collector' = IF unread' = {} THEN EndParagraph(read, page, Len(items)) ELSE read
        /\ UNCHANGED <<media, items>>

\* What is left open at the end: a paragraph of lines is flushed, an element is dropped.
Parsed == IF media = "html" THEN collector.blocks ELSE Flush(collector).blocks

Text(blocks) == FlattenSeq([i \in DOMAIN blocks |-> blocks[i].text])

\* Too many pages, too much text, or none.
Unparsable ==
    \/ media = "pdf" /\ Len(items) > MaxPages
    \/ Len(Text(Parsed)) \notin 1 .. MaxText
=============================================================================
