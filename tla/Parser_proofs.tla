----------------------------- MODULE Parser_proofs -----------------------------
(***************************************************************************)
(* What the parser makes of a source of any length, as lemmas: the types   *)
(* of what it collects; that the text of a source of lines, and of the     *)
(* elements that count in an HTML source, is collected in its order; the   *)
(* headings that a block stands under; and where the lines of a page are   *)
(* in the document.  Indexing_proofs draws the theorems from them.         *)
(***************************************************************************)
EXTENDS Indexing, Chunker_proofs

---------------------------------------------------------------------------
(* Types: the parser yields a document. *)

Tags == CaptureTags \cup {Nothing}

Collector ==
    [blocks : Document, headings : Seq(Seq(STRING)), parts : Seq(STRING),
     lines : Seq(PageLine), tag : Tags, depth : Int]

ParserInv ==
    /\ media \in DOMAIN Supply
    /\ items \in Seq(SourceItem[media])
    /\ unread \subseteq PageLine
    /\ unread # {} => media = "pdf" /\ items # <<>>
    /\ collector \in Collector

\* An update of a field of a collector that keeps its type.
LEMMA CollectorUpdates ==
    ASSUME NEW c \in Collector
    PROVE  /\ \A p \in Seq(STRING) : [c EXCEPT !.parts = p] \in Collector
           /\ \A l \in Seq(PageLine) : [c EXCEPT !.lines = l] \in Collector
           /\ \A t \in Tags : [c EXCEPT !.tag = t] \in Collector
           /\ \A d \in Int : [c EXCEPT !.depth = d] \in Collector
<1>2. ASSUME NEW x \in Seq(STRING) PROVE [c EXCEPT !.parts = x] \in Collector
  BY DEF Collector
<1>3. ASSUME NEW x \in Seq(PageLine) PROVE [c EXCEPT !.lines = x] \in Collector
  BY DEF Collector
<1>4. ASSUME NEW x \in Tags PROVE [c EXCEPT !.tag = x] \in Collector
  BY DEF Collector
<1>5. ASSUME NEW x \in Int PROVE [c EXCEPT !.depth = x] \in Collector
  BY DEF Collector
<1> QED
  BY <1>2, <1>3, <1>4, <1>5

\* A text that is added becomes a block that stands under the headings so far.
LEMMA AddTypes ==
    ASSUME NEW c \in Collector, NEW text \in Seq(STRING), NEW level \in Nat, NEW page \in Nat
    PROVE  Add(c, text, level, page) \in Collector
<1> DEFINE short == SubSeq(c.headings, 1, Min({level - 1, Len(c.headings)}))
           path == IF level = 0 THEN c.headings ELSE Append(short, text)
           block == [text |-> text, path |-> path, page |-> page]
<1>1. CASE text = <<>>
  BY <1>1 DEF Add
<1>2. CASE text # <<>>
  <2>1. c.headings \in Seq(Seq(STRING)) /\ c.blocks \in Document
    BY DEF Collector
  <2>2. path \in Seq(Seq(STRING))
    <3>1. CASE level = 0
      BY <2>1, <3>1
    <3>2. CASE level # 0
      <4>1. Len(c.headings) \in Nat /\ level - 1 \in Nat
        BY <2>1, <3>2
      <4> DEFINE a == level - 1
                 b == Len(c.headings)
                 n == Min({a, b})
      <4>2. a \in Nat /\ b \in Nat
        BY <4>1
      <4> HIDE DEF a, b
      <4>3. n \in Nat /\ n <= b
        <5>1. a \in Int /\ b \in Int
          BY <4>2
        <5>2. n \in {a, b} /\ n <= b
          BY <5>1, MinOfTwo
        <5> HIDE DEF n
        <5> QED
          BY <4>2, <5>2
      <4> HIDE DEF n
      <4>4. SubSeq(c.headings, 1, n) \in Seq(Seq(STRING))
        BY <2>1, <4>2, <4>3, SubSeqProperties DEF b
      <4>5. Append(SubSeq(c.headings, 1, n), text) \in Seq(Seq(STRING))
        BY <4>4, AppendProperties
      <4> QED
        BY <3>2, <4>5 DEF n, a, b
    <3> QED
      BY <3>1, <3>2
  <2> HIDE DEF path
  <2>3. block \in Block
    BY <1>2, <2>2 DEF Block
  <2> HIDE DEF block
  <2>4. Append(c.blocks, block) \in Document
    BY <2>1, <2>3 DEF Document
  <2>5. Add(c, text, level, page) =
          [c EXCEPT !.headings = path, !.blocks = Append(c.blocks, block)]
    BY <1>2 DEF Add, path, block
  <2> QED
    BY <2>2, <2>4, <2>5 DEF Collector
<1> QED
  BY <1>1, <1>2

\* What a heading looks like decides its level.
LEMMA VisualLevelTypes == ASSUME NEW line PROVE VisualLevel(line) \in Nat
  BY DEF VisualLevel

\* More text in the open paragraph.
LEMMA PartsGrow ==
    ASSUME NEW c \in Collector, NEW text \in Seq(STRING)
    PROVE  [c EXCEPT !.parts = @ \o text] \in Collector
<1>1. c.parts \o text \in Seq(STRING)
  BY ConcatProperties DEF Collector
<1> QED
  BY <1>1 DEF Collector

\* The steps of the three parsers keep the types.
LEMMA OnLineTypes ==
    ASSUME NEW c \in Collector, NEW line \in MarkdownLine
    PROVE  OnLine(c, line) \in Collector /\ Flush(c) \in Collector
<1>1. Flush(c) \in Collector
  <2>1. Add(c, c.parts, 0, 0) \in Collector
    BY AddTypes DEF Collector
  <2> QED
    BY <2>1, EmptySeq DEF Flush, Collector
<1>2. /\ line.kind \in {"heading", "item", "text", "blank"}
      /\ line.text \in Seq(STRING) /\ line.level \in Nat
  <2>1. <<>> \in Seq(STRING)
    BY EmptySeq
  <2>2. CASE line \in [kind : {"heading"}, text : Words, level : 1 .. 6]
    BY <2>2 DEF Words
  <2>3. CASE line \in [kind : {"item", "text"}, text : Words, level : {0}]
    BY <2>3 DEF Words
  <2>4. CASE line \in [kind : {"blank"}, text : {<<>>}, level : {0}]
    <3>1. line.kind = "blank" /\ line.text = <<>> /\ line.level = 0
      BY <2>4
    <3> QED
      BY <2>1, <3>1
  <2> QED
    BY <2>2, <2>3, <2>4 DEF MarkdownLine
<1>3. Add(Flush(c), line.text, line.level, 0) \in Collector
      /\ Add(Flush(c), line.text, 0, 0) \in Collector
  BY <1>1, <1>2, AddTypes
<1>4. [c EXCEPT !.parts = @ \o line.text] \in Collector
  BY <1>2, PartsGrow
<1> QED
  BY <1>1, <1>2, <1>3, <1>4 DEF OnLine

LEMMA OnEventTypes ==
    ASSUME NEW c \in Collector, NEW event \in HtmlEvent
    PROVE  OnEvent(c, event) \in Collector
<1>1. /\ event.kind \in {"open", "close", "data"} /\ event.text \in Seq(STRING)
      /\ c.depth \in Int /\ c.parts \in Seq(STRING)
      /\ c.tag \in CaptureTags \cup {Nothing} /\ <<>> \in Seq(STRING)
  BY EmptySeq DEF HtmlEvent, Collector, Tags
<1>2. ASSUME NEW tag PROVE OnOpen(c, tag) \in Collector
  <2> DEFINE n == c.depth + 1
  <2>1. [c EXCEPT !.depth = @ + 1] \in Collector
    <3>1. n \in Int
      BY <1>1
    <3> HIDE DEF n
    <3>2. [c EXCEPT !.depth = n] \in Collector
      BY <3>1, CollectorUpdates
    <3> QED
      BY <3>2 DEF n
  <2>2. tag \in CaptureTags =>
          [c EXCEPT !.tag = tag, !.depth = 1, !.parts = <<>>] \in Collector
    <3> SUFFICES ASSUME tag \in CaptureTags
                 PROVE  [c EXCEPT !.tag = tag, !.depth = 1, !.parts = <<>>] \in Collector
      OBVIOUS
    <3>1. [c EXCEPT !.tag = tag] \in Collector
      BY CollectorUpdates DEF Tags
    <3>2. [c EXCEPT !.tag = tag, !.depth = 1] \in Collector
      <4> DEFINE d == [c EXCEPT !.tag = tag]
      <4>1. d \in Collector /\ 1 \in Int
        BY <3>1
      <4> HIDE DEF d
      <4>2. [d EXCEPT !.depth = 1] \in Collector
        BY <4>1, CollectorUpdates
      <4> QED
        BY <4>2 DEF d
    <3> QED
      BY <1>1, <3>2, CollectorUpdates
  <2> QED
    BY <2>1, <2>2 DEF OnOpen
<1>3. ASSUME NEW tag PROVE OnClose(c, tag) \in Collector
  <2>1. CASE c.tag = Nothing
    BY <2>1 DEF OnClose
  <2>2. CASE c.tag # Nothing /\ (c.depth > 1 \/ tag # c.tag)
    <3> DEFINE n == c.depth - 1
    <3>1. n \in Int
      BY <1>1
    <3> HIDE DEF n
    <3>2. [c EXCEPT !.depth = n] \in Collector
      BY <3>1, CollectorUpdates
    <3> QED
      BY <2>2, <3>2 DEF OnClose, n
  <2>3. CASE c.tag # Nothing /\ ~(c.depth > 1 \/ tag # c.tag)
    <3>1. tag \in CaptureTags
      BY <1>1, <2>3
    <3>2. Level[tag] \in Nat
      BY <3>1 DEF CaptureTags, Level
    <3>3. Add(c, c.parts, Level[tag], 0) \in Collector
      BY <1>1, <3>2, AddTypes
    <3> DEFINE d == Add(c, c.parts, Level[tag], 0)
    <3> HIDE DEF d
    <3>4. d \in Collector /\ d.depth \in Int
      BY <3>3 DEF d, Collector
    <3>5. [d EXCEPT !.tag = Nothing, !.depth = @ - 1, !.parts = <<>>] \in Collector
      <4> DEFINE n == d.depth - 1
      <4>1. n \in Int
        BY <3>4
      <4> HIDE DEF n
      <4>2. [d EXCEPT !.tag = Nothing] \in Collector
        BY <3>4, CollectorUpdates DEF Tags
      <4>3. [d EXCEPT !.tag = Nothing, !.depth = n] \in Collector
        BY <4>1, <4>2, CollectorUpdates
      <4>4. [d EXCEPT !.tag = Nothing, !.depth = n, !.parts = <<>>] \in Collector
        BY <1>1, <4>3, CollectorUpdates
      <4> QED
        BY <4>4 DEF n
    <3> QED
      BY <2>3, <3>5 DEF OnClose, d
  <2> QED
    BY <2>1, <2>2, <2>3
<1>4. [c EXCEPT !.parts = @ \o event.text] \in Collector
  BY <1>1, PartsGrow
<1> QED
  BY <1>1, <1>2, <1>3, <1>4 DEF OnEvent

LEMMA OnPageLineTypes ==
    ASSUME NEW c \in Collector, NEW line \in PageLine, NEW page \in PdfPage,
           NEW number \in Nat
    PROVE  /\ EndParagraph(c, page, number) \in Collector
           /\ OnPageLine(c, line, page, number) \in Collector
<1> DEFINE listed == {o.level : o \in {o \in page.outline : o.text = c.parts}}
           level == IF listed # {} THEN CHOOSE n \in listed : TRUE
                    ELSE VisualLevel(Head(c.lines))
<1>1. level \in Nat
  <2>1. listed \subseteq Nat
    BY DEF PdfPage
  <2>2. listed # {} => (CHOOSE n \in listed : TRUE) \in listed
    OBVIOUS
  <2> HIDE DEF listed
  <2> QED
    BY <2>1, <2>2, VisualLevelTypes
<1>2. c.parts \in Seq(STRING) /\ <<>> \in Seq(STRING) /\ <<>> \in Seq(PageLine)
      /\ c.lines \in Seq(PageLine)
  BY EmptySeq DEF Collector
<1> HIDE DEF level
<1>3. Add(c, c.parts, level, number) \in Collector
  BY <1>1, <1>2, AddTypes
<1>4. EndParagraph(c, page, number) \in Collector
  BY <1>2, <1>3, CollectorUpdates DEF EndParagraph, level
<1>5. line.text \in Seq(STRING)
  BY DEF PageLine, Words
<1>6. OnPageLine(c, line, page, number) \in Collector
  <2>1. [c EXCEPT !.parts = @ \o line.text, !.lines = Append(@, line)] \in Collector
    <3>1. c.parts \o line.text \in Seq(STRING) /\ Append(c.lines, line) \in Seq(PageLine)
      BY <1>2, <1>5, ConcatProperties, AppendProperties
    <3> QED
      BY <3>1, CollectorUpdates
  <2>2. [EndParagraph(c, page, number) EXCEPT !.parts = line.text, !.lines = <<line>>]
          \in Collector
    <3>1. <<line>> \in Seq(PageLine)
      OBVIOUS
    <3>2. [EndParagraph(c, page, number) EXCEPT !.parts = line.text] \in Collector
      BY <1>4, <1>5, CollectorUpdates
    <3> QED
      BY <3>1, <3>2, CollectorUpdates
  <2> QED
    BY <2>1, <2>2 DEF OnPageLine
<1> QED
  BY <1>4, <1>6

\* An item is of the kind that its source consists of.
LEMMA ItemIsOfSource ==
    ASSUME NEW type \in DOMAIN Supply, NEW i \in 1 .. Len(Supply[type]),
           NEW item \in Supply[type][i]
    PROVE  /\ type \in {"markdown", "plain", "html", "pdf"}
           /\ item \in SourceItem[type]
           /\ type \in {"markdown", "plain"} => item \in MarkdownLine
           /\ type = "html" => item \in HtmlEvent
           /\ type = "pdf" => item \in PdfPage
<1>1. type \in {"markdown", "plain", "html", "pdf"}
  BY SupplyAssumption DEF SourceItem
<1>2. item \in SourceItem[type]
  <2>1. Supply[type] \in Seq(SUBSET SourceItem[type])
    BY SupplyAssumption
  <2>2. Supply[type][i] \in SUBSET SourceItem[type]
    BY <2>1, ElementOfSeq
  <2> QED
    BY <2>2
<1>3. /\ SourceItem["markdown"] = MarkdownLine /\ SourceItem["plain"] = PlainLine
      /\ SourceItem["html"] = HtmlEvent /\ SourceItem["pdf"] = PdfPage
  BY DEF SourceItem
<1>4. PlainLine \subseteq MarkdownLine
  BY DEF PlainLine
<1> QED
  BY <1>1, <1>2, <1>3, <1>4

LEMMA ParserInvInit == ParserInit => ParserInv
<1> SUFFICES ASSUME ParserInit PROVE ParserInv
  OBVIOUS
<1>1. <<>> \in Document /\ <<>> \in Seq(Seq(STRING)) /\ <<>> \in Seq(STRING)
      /\ <<>> \in Seq(PageLine) /\ <<>> \in Seq(SourceItem[media])
  BY EmptySeq DEF Document
<1>2. NewCollector \in Collector
  BY <1>1 DEF NewCollector, Collector, Tags
<1> QED
  BY <1>1, <1>2 DEF ParserInit, ParserInv

\* Every line of a page is a line of a PDF, and goes to the collector with its page.
LEMMA ParserInvStep ==
    ASSUME ParserInv, Parse
    PROVE  ParserInv'
<1>1. /\ media \in DOMAIN Supply /\ items \in Seq(SourceItem[media])
      /\ unread \subseteq PageLine /\ collector \in Collector
      /\ unread # {} => media = "pdf" /\ items # <<>>
  BY DEF ParserInv
<1>2. CASE /\ Len(items) < Len(Supply[media])
           /\ \E item \in Supply[media][Len(items) + 1] : ParseItem(item)
  <2>1. PICK item \in Supply[media][Len(items) + 1] : ParseItem(item)
    BY <1>2
  <2>2. Len(items) + 1 \in 1 .. Len(Supply[media])
    <3>1. Len(items) \in Nat
      BY <1>1
    <3>2. Supply[media] \in Seq(SUBSET SourceItem[media])
      BY <1>1, SupplyAssumption
    <3>3. Len(Supply[media]) \in Nat
      BY <3>2
    <3> QED
      BY <1>2, <3>1, <3>3
  <2>3. /\ media \in {"markdown", "plain", "html", "pdf"}
        /\ item \in SourceItem[media]
        /\ media \in {"markdown", "plain"} => item \in MarkdownLine
        /\ media = "html" => item \in HtmlEvent
        /\ media = "pdf" => item \in PdfPage
    BY <1>1, <2>1, <2>2, ItemIsOfSource
  <2>4. media' = media /\ items' = Append(items, item)
        /\ unread' = IF media = "pdf" THEN item.lines ELSE {}
    BY <2>1 DEF ParseItem
  <2>5. items' \in Seq(SourceItem[media']) /\ items' # <<>>
    BY <1>1, <2>3, <2>4, AppendProperties
  <2>6. unread' \subseteq PageLine /\ (unread' # {} => media' = "pdf")
    BY <2>3, <2>4 DEF PdfPage
  <2>7. collector' \in Collector
    <3>1. CASE media \in {"markdown", "plain"}
      <4>1. collector' = OnLine(collector, item)
        BY <2>1, <3>1 DEF ParseItem
      <4> QED
        BY <1>1, <2>3, <3>1, <4>1, OnLineTypes
    <3>2. CASE media = "html"
      <4>1. collector' = OnEvent(collector, item)
        BY <2>1, <3>2 DEF ParseItem
      <4> QED
        BY <1>1, <2>3, <3>2, <4>1, OnEventTypes
    <3>3. CASE media = "pdf"
      BY <1>1, <2>1, <3>3 DEF ParseItem
    <3> QED
      BY <2>3, <3>1, <3>2, <3>3
  <2> QED
    BY <1>1, <2>4, <2>5, <2>6, <2>7 DEF ParserInv
<1>3. CASE \E line \in unread : ParseLine(line)
  <2>1. PICK line \in unread : ParseLine(line)
    BY <1>3
  <2> DEFINE page == Last(items)
             number == Len(items)
             read == OnPageLine(collector, line, page, number)
  <2>2. media = "pdf" /\ items # <<>> /\ line \in PageLine
    BY <1>1, <2>1
  <2>3. page \in PdfPage /\ number \in Nat
    <3>1. items \in Seq(PdfPage)
      BY <1>1, <2>2 DEF SourceItem
    <3>2. Len(items) \in 1 .. Len(items)
      BY <2>2, <3>1, EmptySeq
    <3> QED
      BY <3>1, <3>2, ElementOfSeq DEF Last
  <2>4. /\ unread' = unread \ {line} /\ media' = media /\ items' = items
        /\ collector' = IF unread' = {} THEN EndParagraph(read, page, number) ELSE read
    BY <2>1 DEF ParseLine
  <2> HIDE DEF page, number
  <2>5. read \in Collector
    BY <1>1, <2>2, <2>3, OnPageLineTypes
  <2> HIDE DEF read
  <2>6. EndParagraph(read, page, number) \in Collector
    BY <2>2, <2>3, <2>5, OnPageLineTypes
  <2> QED
    BY <1>1, <2>4, <2>5, <2>6 DEF ParserInv
<1> QED
  BY <1>2, <1>3 DEF Parse

\* The parsed document: its texts are not empty, and its last paragraph is not lost.
LEMMA ParsedIsDocument ==
    ASSUME ParserInv
    PROVE  Parsed \in Document
<1>1. collector \in Collector
  BY DEF ParserInv
<1>2. Flush(collector) \in Collector
  <2>1. Add(collector, collector.parts, 0, 0) \in Collector
    BY <1>1, AddTypes DEF Collector
  <2> QED
    BY <2>1, EmptySeq, CollectorUpdates DEF Flush
<1>3. collector.blocks \in Document /\ Flush(collector).blocks \in Document
  BY <1>1, <1>2 DEF Collector
<1> QED
  BY <1>3 DEF Parsed

---------------------------------------------------------------------------
(* Texts one after the other. *)

\* FlattenSeq joins texts one after the other.
Joins(f, s, n) == f = [i \in 1 .. n |-> IF i = 1 THEN s[i] ELSE f[i - 1] \o s[i]]

LEMMA JoinsAt ==
    ASSUME NEW f, NEW s, NEW n \in Nat, Joins(f, s, n)
    PROVE  \A i \in 1 .. n : f[i] = IF i = 1 THEN s[i] ELSE f[i - 1] \o s[i]
  BY DEF Joins

\* The recursive function of FlattenSeq exists.
LEMMA JoinsExists == ASSUME NEW s, NEW n \in Nat PROVE \E f : Joins(f, s, n)
<1> DEFINE N == {m \in Nat : ~\E f : Joins(f, s, m)}
<1>1. SUFFICES ASSUME N # {} PROVE FALSE
  OBVIOUS
<1>2. PICK m \in N : \A k \in N : m <= k
  BY <1>1, LeastNat
<1>3. CASE m = 0
  <2> DEFINE f == [i \in 1 .. 0 |-> s[i]]
  <2>1. Joins(f, s, 0)
    BY DEF Joins
  <2> QED
    BY <1>2, <1>3, <2>1
<1>4. CASE m # 0
  <2>1. m \in Nat /\ m - 1 \in Nat /\ m - 1 \notin N
    BY <1>2, <1>4
  <2>2. PICK f : Joins(f, s, m - 1)
    BY <2>1
  <2> DEFINE g == [i \in 1 .. m |-> IF i < m THEN f[i]
                                    ELSE IF m = 1 THEN s[1] ELSE f[m - 1] \o s[m]]
  <2>3. \A i \in 1 .. m - 1 : f[i] = IF i = 1 THEN s[i] ELSE f[i - 1] \o s[i]
    BY <2>1, <2>2, JoinsAt
  <2>4. ASSUME NEW i \in 1 .. m
        PROVE  g[i] = IF i = 1 THEN s[i] ELSE g[i - 1] \o s[i]
    <3>1. CASE i < m
      BY <2>1, <2>3, <3>1
    <3>2. CASE i = m
      BY <2>1, <3>2
    <3> QED
      BY <2>1, <3>1, <3>2
  <2>5. g = [i \in 1 .. m |-> IF i = 1 THEN s[i] ELSE g[i - 1] \o s[i]]
    <3>1. g = [i \in 1 .. m |-> g[i]]
      OBVIOUS
    <3> HIDE DEF g
    <3> QED
      BY <2>4, <3>1
  <2>6. Joins(g, s, m)
    BY <2>5 DEF Joins
  <2> QED
    BY <1>2, <2>6
<1> QED
  BY <1>3, <1>4

\* FlattenSeq is the last value of that function.
LEMMA FlattenIsJoin ==
    ASSUME NEW s, Len(s) \in Nat \ {0}
    PROVE  \E f : Joins(f, s, Len(s)) /\ FlattenSeq(s) = f[Len(s)]
<1> DEFINE f == CHOOSE f : f = [i \in 1 .. Len(s) |-> IF i = 1 THEN s[i] ELSE f[i - 1] \o s[i]]
<1>1. Joins(f, s, Len(s))
  <2>1. \E g : g = [i \in 1 .. Len(s) |-> IF i = 1 THEN s[i] ELSE g[i - 1] \o s[i]]
    BY JoinsExists DEF Joins
  <2> QED
    BY <2>1 DEF Joins
<1>2. FlattenSeq(s) = f[Len(s)]
  BY DEF FlattenSeq
<1> QED
  BY <1>1, <1>2

\* The join of a prefix is a prefix of the join.
LEMMA JoinsAgree ==
    ASSUME NEW f, NEW g, NEW s, NEW t, NEW m \in Nat, NEW n \in Nat,
           Joins(f, s, m), Joins(g, t, n), m <= n, \A i \in 1 .. m : s[i] = t[i]
    PROVE  \A i \in 1 .. m : f[i] = g[i]
<1> DEFINE N == {i \in Nat : i \in 1 .. m /\ f[i] # g[i]}
<1>1. SUFFICES ASSUME N # {} PROVE FALSE
  OBVIOUS
<1>2. PICK i \in N : \A j \in N : i <= j
  BY <1>1, LeastNat
<1>3. /\ f[i] = IF i = 1 THEN s[i] ELSE f[i - 1] \o s[i]
      /\ g[i] = IF i = 1 THEN t[i] ELSE g[i - 1] \o t[i]
  <2>1. /\ \A j \in 1 .. m : f[j] = IF j = 1 THEN s[j] ELSE f[j - 1] \o s[j]
        /\ \A j \in 1 .. n : g[j] = IF j = 1 THEN t[j] ELSE g[j - 1] \o t[j]
    BY JoinsAt
  <2>2. i \in 1 .. m /\ i \in 1 .. n
    BY <1>2
  <2> QED
    BY <2>1, <2>2
<1>4. i # 1 => f[i - 1] = g[i - 1]
  BY <1>2
<1> QED
  BY <1>2, <1>3, <1>4

LEMMA FlattenEmpty == FlattenSeq(<<>>) = <<>>
  BY DEF FlattenSeq

\* A sequence with one more text joins to a longer text.
LEMMA FlattenLonger ==
    ASSUME NEW S, NEW s \in Seq(Seq(S)), NEW t \in Seq(Seq(S)), Len(t) = Len(s) + 1,
           \A i \in 1 .. Len(s) : s[i] = t[i]
    PROVE  FlattenSeq(t) = FlattenSeq(s) \o t[Len(s) + 1]
<1> DEFINE n == Len(s)
           k == n + 1
           e == t[k]
<1>1. /\ n \in Nat /\ k \in Nat /\ k # 0 /\ k - 1 = n /\ n <= k /\ k \in 1 .. k
      /\ Len(t) = k /\ e \in Seq(S)
      /\ \A i \in 1 .. n : s[i] = t[i]
  BY LenProperties
<1> HIDE DEF n, k
<1>2. PICK g : Joins(g, t, k) /\ FlattenSeq(t) = g[k]
  BY <1>1, FlattenIsJoin
<1>3. g[k] = IF k = 1 THEN t[k] ELSE g[k - 1] \o t[k]
  BY <1>1, <1>2, JoinsAt
<1>4. CASE n = 0
  <2>1. s = <<>>
    BY <1>4, EmptySeq DEF n
  <2>2. FlattenSeq(s) \o e = e
    BY <1>1, <2>1, FlattenEmpty, ConcatEmptySeq
  <2> QED
    BY <1>1, <1>2, <1>3, <1>4, <2>2 DEF n, k
<1>5. CASE n # 0
  <2>1. PICK f : Joins(f, s, n) /\ FlattenSeq(s) = f[n]
    BY <1>1, <1>5, FlattenIsJoin DEF n
  <2>2. \A i \in 1 .. n : f[i] = g[i]
    <3>1. /\ n \in Nat /\ k \in Nat /\ n <= k /\ \A i \in 1 .. n : s[i] = t[i]
          /\ Joins(f, s, n) /\ Joins(g, t, k)
      BY <1>1, <1>2, <2>1
    <3> QED
      BY ONLY <3>1, JoinsAgree
  <2>3. f[n] = g[n] /\ k # 1
    BY <1>1, <1>5, <2>2
  <2>4. g[k] = g[n] \o t[k]
    BY <1>1, <1>3, <2>3
  <2> QED
    BY <1>2, <2>1, <2>3, <2>4 DEF n, k
<1> QED
  BY <1>4, <1>5

LEMMA FlattenTypes ==
    ASSUME NEW S, NEW s \in Seq(Seq(S))
    PROVE  FlattenSeq(s) \in Seq(S)
<1> DEFINE n == Len(s)
<1>1. n \in Nat /\ \A i \in 1 .. n : s[i] \in Seq(S)
  BY LenProperties
<1>2. CASE n = 0
  <2>1. s = <<>>
    BY <1>2, EmptySeq
  <2> QED
    BY <2>1, FlattenEmpty, EmptySeq
<1>3. CASE n # 0
  <2>1. PICK f : Joins(f, s, n) /\ FlattenSeq(s) = f[n]
    BY <1>1, <1>3, FlattenIsJoin
  <2> DEFINE N == {i \in Nat : i \in 1 .. n /\ f[i] \notin Seq(S)}
  <2>2. ASSUME N # {} PROVE FALSE
    <3>1. PICK i \in N : \A j \in N : i <= j
      BY <2>2, LeastNat
    <3>2. f[i] = IF i = 1 THEN s[i] ELSE f[i - 1] \o s[i]
      BY <1>1, <2>1, <3>1, JoinsAt
    <3>3. i # 1 => f[i - 1] \in Seq(S)
      BY <3>1
    <3>4. s[i] \in Seq(S)
      BY <1>1, <3>1
    <3>5. i # 1 => f[i - 1] \o s[i] \in Seq(S)
      BY <3>3, <3>4, ConcatProperties
    <3> QED
      BY <3>1, <3>2, <3>4, <3>5
  <2>3. n \in 1 .. n /\ n \notin N
    BY <1>1, <1>3, <2>2
  <2> QED
    BY <2>1, <2>3
<1> QED
  BY <1>2, <1>3

\* The texts of blocks, or of the items of a source.
TextsOf(bs) == [b \in DOMAIN bs |-> bs[b].text]

\* Text is the join of the texts.
LEMMA TextsTypes ==
    ASSUME NEW R, \A r \in R : r.text \in Seq(STRING), NEW bs \in Seq(R)
    PROVE  /\ Len(bs) \in Nat
           /\ TextsOf(bs) \in Seq(Seq(STRING))
           /\ Len(TextsOf(bs)) = Len(bs)
           /\ \A i \in 1 .. Len(bs) : TextsOf(bs)[i] = bs[i].text
           /\ Text(bs) = FlattenSeq(TextsOf(bs))
           /\ Text(bs) \in Seq(STRING)
<1>1. /\ Len(bs) \in Nat /\ DOMAIN bs = 1 .. Len(bs)
      /\ \A i \in 1 .. Len(bs) : bs[i] \in R
  BY LenProperties
<1>2. TextsOf(bs) = [i \in 1 .. Len(bs) |-> bs[i].text]
  BY <1>1 DEF TextsOf
<1>3. \A i \in 1 .. Len(bs) : bs[i].text \in Seq(STRING)
  BY <1>1
<1>4. /\ TextsOf(bs) \in Seq(Seq(STRING)) /\ Len(TextsOf(bs)) = Len(bs)
      /\ \A i \in 1 .. Len(bs) : TextsOf(bs)[i] = bs[i].text
  BY <1>1, <1>2, <1>3
<1>5. Text(bs) = FlattenSeq(TextsOf(bs))
  BY DEF Text, TextsOf
<1> QED
  BY <1>1, <1>4, <1>5, FlattenTypes

\* The text of one more block, or of one more item, follows the others'.
LEMMA TextAppend ==
    ASSUME NEW R, \A r \in R : r.text \in Seq(STRING), NEW bs \in Seq(R), NEW x \in R
    PROVE  Text(Append(bs, x)) = Text(bs) \o x.text
<1> DEFINE ys == Append(bs, x)
           n == Len(bs)
<1>1. /\ ys \in Seq(R) /\ n \in Nat /\ Len(ys) = n + 1 /\ n + 1 \in 1 .. n + 1
      /\ ys[n + 1] = x
      /\ \A i \in 1 .. n : ys[i] = bs[i] /\ i \in 1 .. n + 1
  BY AppendProperties, LenProperties
<1> HIDE DEF ys
<1>2. /\ Text(bs) = FlattenSeq(TextsOf(bs)) /\ TextsOf(bs) \in Seq(Seq(STRING))
      /\ Len(TextsOf(bs)) = n
      /\ \A i \in 1 .. n : TextsOf(bs)[i] = bs[i].text
  BY TextsTypes
<1>3. /\ Text(ys) = FlattenSeq(TextsOf(ys)) /\ TextsOf(ys) \in Seq(Seq(STRING))
      /\ Len(TextsOf(ys)) = n + 1
      /\ \A i \in 1 .. n + 1 : TextsOf(ys)[i] = ys[i].text
  BY <1>1, TextsTypes
<1>4. \A i \in 1 .. n : TextsOf(bs)[i] = TextsOf(ys)[i]
  BY <1>1, <1>2, <1>3
<1>5. TextsOf(ys)[n + 1] = x.text
  BY <1>1, <1>3
<1>6. FlattenSeq(TextsOf(ys)) = FlattenSeq(TextsOf(bs)) \o TextsOf(ys)[n + 1]
  BY <1>2, <1>3, <1>4, FlattenLonger
<1> QED
  BY <1>2, <1>3, <1>5, <1>6 DEF ys

LEMMA TextEmpty == Text(<<>>) = <<>>
<1>1. [i \in DOMAIN <<>> |-> <<>>[i].text] = <<>>
  OBVIOUS
<1> QED
  BY <1>1, FlattenEmpty DEF Text

---------------------------------------------------------------------------
(* Blocks. *)

\* What add does: a text becomes a block behind the others, under the headings so far if it
\* is none itself; everything else stays.
AddedPath(c, text, level) ==
    IF level = 0 THEN c.headings
    ELSE Append(SubSeq(c.headings, 1, Min({level - 1, Len(c.headings)})), text)

LEMMA AddEmpty ==
    ASSUME NEW c, NEW level, NEW page
    PROVE  Add(c, <<>>, level, page) = c
  BY DEF Add

LEMMA AddBlock ==
    ASSUME NEW c \in Collector, NEW text \in Seq(STRING) \ {<<>>}, NEW level \in Nat,
           NEW page \in Nat
    PROVE  LET d == Add(c, text, level, page)
               path == AddedPath(c, text, level)
           IN  /\ d.blocks = Append(c.blocks, [text |-> text, path |-> path, page |-> page])
               /\ d.headings = path
               /\ path \in Seq(Seq(STRING))
               /\ [text |-> text, path |-> path, page |-> page] \in Block
               /\ d.parts = c.parts /\ d.lines = c.lines
               /\ d.tag = c.tag /\ d.depth = c.depth
<1> DEFINE d == Add(c, text, level, page)
           path == AddedPath(c, text, level)
           block == [text |-> text, path |-> path, page |-> page]
<1>1. d = [c EXCEPT !.headings = path, !.blocks = Append(c.blocks, block)]
  BY DEF Add, AddedPath
<1> HIDE DEF path, block
<1>2. /\ d.blocks = Append(c.blocks, block) /\ d.headings = path
      /\ d.parts = c.parts /\ d.lines = c.lines /\ d.tag = c.tag /\ d.depth = c.depth
  BY <1>1 DEF Collector
<1>3. path \in Seq(Seq(STRING))
  <2>1. d \in Collector
    BY AddTypes
  <2> QED
    BY <1>2, <2>1 DEF Collector
<1>4. block \in Block
  BY <1>3 DEF block, Block
<1> QED
  BY <1>2, <1>3, <1>4 DEF path, block

\* The text of the document grows by the text that is added.
LEMMA AddText ==
    ASSUME NEW c \in Collector, NEW text \in Seq(STRING), NEW level \in Nat, NEW page \in Nat
    PROVE  /\ Text(Add(c, text, level, page).blocks) = Text(c.blocks) \o text
           /\ Text(c.blocks) \in Seq(STRING)
           /\ Add(c, text, level, page).parts = c.parts
           /\ Add(c, text, level, page).tag = c.tag
           /\ Add(c, text, level, page).depth = c.depth
<1>1. c.blocks \in Seq(Block) /\ \A b \in Block : b.text \in Seq(STRING)
  BY DEF Collector, Document, Block
<1>2. Text(c.blocks) \in Seq(STRING)
  BY <1>1, TextsTypes
<1>3. CASE text = <<>>
  BY <1>2, <1>3, AddEmpty, ConcatEmptySeq
<1>4. CASE text # <<>>
  <2> DEFINE block == [text |-> text, path |-> AddedPath(c, text, level), page |-> page]
  <2>1. /\ Add(c, text, level, page).blocks = Append(c.blocks, block) /\ block \in Block
        /\ Add(c, text, level, page).parts = c.parts
        /\ Add(c, text, level, page).tag = c.tag
        /\ Add(c, text, level, page).depth = c.depth
    BY <1>4, AddBlock
  <2>2. block.text = text
    OBVIOUS
  <2> HIDE DEF block
  <2>3. Text(Append(c.blocks, block)) = Text(c.blocks) \o text
    BY <1>1, <2>1, <2>2, TextAppend
  <2> QED
    BY <1>2, <2>1, <2>3
<1> QED
  BY <1>3, <1>4

---------------------------------------------------------------------------
(* Lines: the blocks and the open paragraph hold every line so far. *)

LEMMA CollectorTypes ==
    ASSUME NEW c \in Collector
    PROVE  /\ c.blocks \in Document /\ Text(c.blocks) \in Seq(STRING)
           /\ c.headings \in Seq(Seq(STRING))
           /\ c.parts \in Seq(STRING) /\ c.lines \in Seq(PageLine)
           /\ c.depth \in Int
<1>1. c.blocks \in Seq(Block) /\ \A b \in Block : b.text \in Seq(STRING)
  BY DEF Collector, Document, Block
<1> QED
  BY <1>1, TextsTypes DEF Collector, Document

\* A flush moves the open paragraph to the blocks.
LEMMA FlushText ==
    ASSUME NEW c \in Collector
    PROVE  /\ Flush(c) \in Collector
           /\ Flush(c).parts = <<>>
           /\ Flush(c).blocks = Add(c, c.parts, 0, 0).blocks
           /\ Flush(c).headings = Add(c, c.parts, 0, 0).headings
           /\ Text(Flush(c).blocks) = Text(c.blocks) \o c.parts
<1> DEFINE d == Add(c, c.parts, 0, 0)
<1>1. c.parts \in Seq(STRING) /\ <<>> \in Seq(STRING)
  BY CollectorTypes, EmptySeq
<1>2. d \in Collector /\ Text(d.blocks) = Text(c.blocks) \o c.parts
  <2>1. 0 \in Nat
    OBVIOUS
  <2> QED
    BY <1>1, <2>1, AddTypes, AddText
<1>3. Flush(c) = [d EXCEPT !.parts = <<>>]
  BY DEF Flush
<1> HIDE DEF d
<1>4. Flush(c) \in Collector
  BY <1>1, <1>2, <1>3, CollectorUpdates
<1>5. Flush(c).parts = <<>> /\ Flush(c).blocks = d.blocks /\ Flush(c).headings = d.headings
  BY <1>2, <1>3 DEF Collector
<1> QED
  BY <1>2, <1>4, <1>5 DEF d

\* Only a blank line has no text, only a heading a level.
LEMMA LineKinds ==
    ASSUME NEW line \in MarkdownLine
    PROVE  /\ line.kind \in {"heading", "item", "text", "blank"}
           /\ line.text \in Seq(STRING)
           /\ line.level \in Nat
           /\ line.kind = "heading" => line.level \in 1 .. 6
           /\ line.kind # "heading" => line.level = 0
           /\ line.text = <<>> <=> line.kind = "blank"
<1>1. CASE line \in [kind : {"heading"}, text : Words, level : 1 .. 6]
  BY <1>1 DEF Words
<1>2. CASE line \in [kind : {"item", "text"}, text : Words, level : {0}]
  BY <1>2 DEF Words
<1>3. CASE line \in [kind : {"blank"}, text : {<<>>}, level : {0}]
  <2>1. line.kind = "blank" /\ line.text = <<>> /\ line.level = 0
    BY <1>3
  <2>2. <<>> \in Seq(STRING)
    BY EmptySeq
  <2> QED
    BY <2>1, <2>2
<1> QED
  BY <1>1, <1>2, <1>3 DEF MarkdownLine

\* A line adds its own text, behind all the others.
LEMMA OnLineText ==
    ASSUME NEW c \in Collector, NEW line \in MarkdownLine
    PROVE  LET d == OnLine(c, line)
           IN  Text(d.blocks) \o d.parts = (Text(c.blocks) \o c.parts) \o line.text
<1> DEFINE d == OnLine(c, line)
           text == Text(c.blocks) \o c.parts
<1>1. /\ Text(c.blocks) \in Seq(STRING) /\ c.parts \in Seq(STRING)
      /\ line.text \in Seq(STRING)
      /\ text \in Seq(STRING) /\ text \o line.text \in Seq(STRING)
  BY CollectorTypes, LineKinds, ConcatProperties
<1>2. /\ Flush(c) \in Collector /\ Flush(c).parts = <<>>
      /\ Text(Flush(c).blocks) = text
  BY FlushText
<1>3. ASSUME NEW level \in Nat
      PROVE  LET e == Add(Flush(c), line.text, level, 0)
             IN  Text(e.blocks) \o e.parts = text \o line.text
  <2> DEFINE e == Add(Flush(c), line.text, level, 0)
  <2>1. Text(e.blocks) = text \o line.text /\ e.parts = <<>>
    <3> DEFINE f == Flush(c)
    <3>1. /\ f \in Collector /\ line.text \in Seq(STRING) /\ level \in Nat /\ 0 \in Nat
          /\ f.parts = <<>> /\ Text(f.blocks) = text
      BY <1>1, <1>2
    <3> HIDE DEF f, text
    <3>2. /\ Text(Add(f, line.text, level, 0).blocks) = Text(f.blocks) \o line.text
          /\ Add(f, line.text, level, 0).parts = f.parts
      BY ONLY <3>1, AddText
    <3> QED
      BY <3>1, <3>2 DEF f
  <2> QED
    BY <1>1, <2>1, ConcatEmptySeq
<1>4. CASE line.kind = "heading"
  BY <1>3, <1>4, LineKinds DEF OnLine
<1>5. CASE line.kind = "item"
  BY <1>3, <1>5 DEF OnLine
<1>6. CASE line.kind = "blank"
  <2>1. d = Flush(c) /\ line.text = <<>>
    BY <1>6, LineKinds DEF OnLine
  <2> QED
    BY <1>1, <1>2, <2>1, ConcatEmptySeq
<1>7. CASE line.kind = "text"
  <2>1. d = [c EXCEPT !.parts = c.parts \o line.text]
    BY <1>7 DEF OnLine
  <2>2. d.blocks = c.blocks /\ d.parts = c.parts \o line.text
    BY <2>1 DEF Collector
  <2> QED
    <3>1. text \o line.text = Text(c.blocks) \o (c.parts \o line.text)
      <4> DEFINE before == Text(c.blocks)
                 open == c.parts
                 more == line.text
      <4>1. before \in Seq(STRING) /\ open \in Seq(STRING) /\ more \in Seq(STRING)
        BY <1>1
      <4> HIDE DEF before, open, more
      <4>2. (before \o open) \o more = before \o (open \o more)
        BY <4>1, ConcatAssociative
      <4> QED
        BY <4>2 DEF before, open, more
    <3> QED
      BY <2>2, <3>1
<1> QED
  BY <1>4, <1>5, <1>6, <1>7, LineKinds

---------------------------------------------------------------------------
(* How many tokens precede a text. *)

LEMMA InAllPlaces ==
    ASSUME NEW t, NEW p
    PROVE  p \in AllPlaces(t) <=> /\ p = <<p[1], p[2]>>
                                  /\ p[1] \in DOMAIN t /\ p[2] \in DOMAIN t[p[1]]
  BY DEF AllPlaces

LEMMA AllPlacesFinite ==
    ASSUME NEW t \in Seq(Seq(STRING))
    PROVE  IsFiniteSet(AllPlaces(t))
<1> DEFINE row(k) == {k} \X DOMAIN t[k]
           rows == {row(k) : k \in DOMAIN t}
           f == [k \in DOMAIN t |-> row(k)]
<1>1. /\ Len(t) \in Nat /\ DOMAIN t = 1 .. Len(t) /\ IsFiniteSet(DOMAIN t)
      /\ \A k \in DOMAIN t : t[k] \in Seq(STRING)
  BY LenProperties, FS_Interval
<1>2. f \in Surjection(DOMAIN t, rows)
  BY DEF Surjection
<1>3. IsFiniteSet(rows)
  BY <1>1, <1>2, FS_Surjection
<1>4. ASSUME NEW r \in rows PROVE IsFiniteSet(r)
  <2>1. PICK k \in DOMAIN t : r = {k} \X DOMAIN t[k]
    BY <1>4
  <2>2. IsFiniteSet(DOMAIN t[k])
    BY <1>1, LenProperties, FS_Interval
  <2> QED
    BY <2>1, <2>2, FS_Singleton, FS_Product
<1> QED
  BY <1>3, <1>4, FS_UNION DEF AllPlaces

\* As many tokens precede text k + 1 as precede text k and are in it.
LEMMA OffsetNext ==
    ASSUME NEW t \in Seq(Seq(STRING)), NEW k \in 1 .. Len(t)
    PROVE  /\ Offset(t, k) \in Nat
           /\ Len(t[k]) \in Nat
           /\ Offset(t, k + 1) = Offset(t, k) + Len(t[k])
<1> DEFINE A == {p \in AllPlaces(t) : p[1] < k}
           B == {k} \X DOMAIN t[k]
           C == {p \in AllPlaces(t) : p[1] < k + 1}
<1>1. /\ Len(t) \in Nat /\ DOMAIN t = 1 .. Len(t) /\ t[k] \in Seq(STRING) /\ k \in Nat
      /\ Len(t[k]) \in Nat /\ DOMAIN t[k] = 1 .. Len(t[k])
  BY LenProperties
<1>2. IsFiniteSet(A)
  BY AllPlacesFinite, FS_Subset
<1>3. IsFiniteSet(B) /\ Cardinality(B) = Len(t[k])
  <2>1. IsFiniteSet(DOMAIN t[k]) /\ Cardinality(DOMAIN t[k]) = Len(t[k])
    <3> DEFINE m == Len(t[k])
    <3>1. m \in Nat /\ DOMAIN t[k] = 1 .. m
      BY <1>1
    <3> HIDE DEF m
    <3>2. IsFiniteSet(1 .. m) /\ Cardinality(1 .. m) = m
      BY <3>1, FS_Interval
    <3> QED
      BY <3>1, <3>2 DEF m
  <2> DEFINE n == Len(t[k])
             D == DOMAIN t[k]
  <2>2. IsFiniteSet({k}) /\ Cardinality({k}) = 1 /\ n \in Nat
    BY <1>1, FS_Singleton
  <2> HIDE DEF n, D
  <2>3. IsFiniteSet({k} \X D) /\ Cardinality({k} \X D) = 1 * n
    BY <2>1, <2>2, FS_Product DEF n, D
  <2> QED
    BY <2>2, <2>3 DEF n, D
<1>4. C = A \cup B
  <2>1. ASSUME NEW p \in C PROVE p \in A \cup B
    <3>1. p = <<p[1], p[2]>> /\ p[1] \in 1 .. Len(t) /\ p[2] \in DOMAIN t[p[1]] /\ p[1] < k + 1
      BY <1>1, InAllPlaces
    <3> QED
      BY <1>1, <3>1
  <2>2. ASSUME NEW p \in B PROVE p \in C
    <3>1. p = <<p[1], p[2]>> /\ p[1] = k /\ p[2] \in DOMAIN t[p[1]]
      OBVIOUS
    <3>2. p \in AllPlaces(t)
      BY <1>1, <3>1, InAllPlaces
    <3> QED
      BY <1>1, <3>1, <3>2
  <2>3. A \subseteq C
    <3>1. ASSUME NEW p \in A PROVE p[1] < k + 1
      BY <1>1, InAllPlaces
    <3> QED
      BY <3>1
  <2> QED
    BY <2>1, <2>2, <2>3
<1>5. A \cap B = {}
  BY <1>1
<1>6. Cardinality(C) = Cardinality(A) + Cardinality(B) /\ Cardinality(A) \in Nat
  <2> HIDE DEF A, B, C
  <2>1. Cardinality(C) = Cardinality(A) + Cardinality(B) - Cardinality(A \cap B)
    BY <1>2, <1>3, <1>4, FS_Union
  <2>2. Cardinality(A \cap B) = 0 /\ Cardinality(A) \in Nat /\ Cardinality(B) \in Nat
    BY <1>2, <1>3, <1>5, FS_EmptySet, FS_CardinalityType
  <2> QED
    BY <2>1, <2>2
<1>7. Offset(t, k) = Cardinality(A) /\ Offset(t, k + 1) = Cardinality(C)
  BY DEF Offset
<1> HIDE DEF A, B, C
<1> QED
  BY <1>1, <1>3, <1>6, <1>7

LEMMA OffsetGrows ==
    ASSUME NEW t \in Seq(Seq(STRING)), NEW j \in Nat, NEW k \in Nat, j <= k
    PROVE  /\ Offset(t, j) \in Nat /\ Offset(t, k) \in Nat
           /\ Offset(t, j) <= Offset(t, k)
<1> DEFINE A == {p \in AllPlaces(t) : p[1] < j}
           B == {p \in AllPlaces(t) : p[1] < k}
<1>1. IsFiniteSet(A) /\ IsFiniteSet(B)
  BY AllPlacesFinite, FS_Subset
<1>2. A \subseteq B
  <2>1. ASSUME NEW p \in A PROVE p[1] < k
    <3>1. p[1] \in DOMAIN t /\ p[1] < j
      BY InAllPlaces
    <3>2. p[1] \in Nat
      BY <3>1, LenProperties
    <3> QED
      BY <3>1, <3>2
  <2> QED
    BY <2>1
<1>3. Offset(t, j) = Cardinality(A) /\ Offset(t, k) = Cardinality(B)
  BY DEF Offset
<1> HIDE DEF A, B
<1> QED
  BY <1>1, <1>2, <1>3, FS_Subset, FS_CardinalityType

\* Only the texts before it matter.
LEMMA OffsetSame ==
    ASSUME NEW s \in Seq(Seq(STRING)), NEW t \in Seq(Seq(STRING)), NEW k \in Nat,
           k <= Len(s) + 1, k <= Len(t) + 1, \A i \in 1 .. k - 1 : s[i] = t[i]
    PROVE  Offset(s, k) = Offset(t, k)
<1>1. /\ Len(s) \in Nat /\ DOMAIN s = 1 .. Len(s) /\ Len(t) \in Nat /\ DOMAIN t = 1 .. Len(t)
  BY LenProperties
<1>2. ASSUME NEW p PROVE (p \in AllPlaces(s) /\ p[1] < k) <=> (p \in AllPlaces(t) /\ p[1] < k)
  <2>1. CASE p[1] \in 1 .. k - 1
    <3>1. p[1] \in DOMAIN s /\ p[1] \in DOMAIN t /\ s[p[1]] = t[p[1]]
      BY <1>1, <2>1
    <3> QED
      BY <3>1, InAllPlaces
  <2>2. CASE p[1] \notin 1 .. k - 1
    <3>1. ASSUME p[1] \in 1 .. Len(s) \/ p[1] \in 1 .. Len(t) PROVE ~(p[1] < k)
      BY <1>1, <2>2, <3>1
    <3> QED
      BY <1>1, <3>1, InAllPlaces
  <2> QED
    BY <2>1, <2>2
<1>3. {p \in AllPlaces(s) : p[1] < k} = {p \in AllPlaces(t) : p[1] < k}
  BY <1>2
<1> QED
  BY <1>3 DEF Offset

\* One more block, or one more item.
LEMMA OffsetsAppend ==
    ASSUME NEW R, \A r \in R : r.text \in Seq(STRING), NEW bs \in Seq(R), NEW x \in R
    PROVE  /\ \A k \in 1 .. Len(bs) + 1 :
                 /\ Offset(TextsOf(bs), k) \in Nat
                 /\ Offset(TextsOf(Append(bs, x)), k) = Offset(TextsOf(bs), k)
           /\ Offset(TextsOf(Append(bs, x)), Len(bs) + 2)
                 = Offset(TextsOf(bs), Len(bs) + 1) + Len(x.text)
<1> DEFINE ys == Append(bs, x)
           n == Len(bs)
<1>1. /\ ys \in Seq(R) /\ n \in Nat /\ Len(ys) = n + 1 /\ ys[n + 1] = x
      /\ \A i \in 1 .. n : ys[i] = bs[i]
  BY AppendProperties, LenProperties
<1> HIDE DEF ys
<1>2. /\ TextsOf(bs) \in Seq(Seq(STRING)) /\ Len(TextsOf(bs)) = n
      /\ \A i \in 1 .. n : TextsOf(bs)[i] = bs[i].text
  BY TextsTypes
<1>3. /\ TextsOf(ys) \in Seq(Seq(STRING)) /\ Len(TextsOf(ys)) = n + 1
      /\ \A i \in 1 .. n + 1 : TextsOf(ys)[i] = ys[i].text
  BY <1>1, TextsTypes
<1> DEFINE s == TextsOf(bs)
           t == TextsOf(ys)
<1> HIDE DEF s, t, n
<1>4. ASSUME NEW k \in 1 .. n + 1
      PROVE  Offset(s, k) \in Nat /\ Offset(t, k) = Offset(s, k)
  <2>1. k \in Nat /\ k <= Len(s) + 1 /\ k <= Len(t) + 1
    BY <1>1, <1>2, <1>3 DEF s, t
  <2>2. \A i \in 1 .. k - 1 : t[i] = s[i]
    <3>1. ASSUME NEW i \in 1 .. k - 1 PROVE i \in 1 .. n /\ i \in 1 .. n + 1
      BY <1>1
    <3>2. ASSUME NEW i \in 1 .. n, i \in 1 .. n + 1 PROVE t[i] = s[i]
      <4>1. t[i] = ys[i].text /\ s[i] = bs[i].text /\ ys[i] = bs[i]
        BY <1>1, <1>2, <1>3, <3>2 DEF s, t
      <4> QED
        BY <4>1
    <3> QED
      BY <3>1, <3>2
  <2>3. s \in Seq(Seq(STRING)) /\ t \in Seq(Seq(STRING))
    BY <1>2, <1>3 DEF s, t
  <2>4. Offset(t, k) = Offset(s, k)
    BY <2>1, <2>2, <2>3, OffsetSame
  <2>5. Offset(s, k) \in Nat
    BY <2>1, <2>3, OffsetGrows
  <2> QED
    BY <2>4, <2>5
<1>5. Offset(t, n + 2) = Offset(s, n + 1) + Len(x.text)
  <2>1. n + 1 \in 1 .. Len(t) /\ t \in Seq(Seq(STRING)) /\ t[n + 1] = x.text
    BY <1>1, <1>3 DEF t
  <2>2. Offset(t, (n + 1) + 1) = Offset(t, n + 1) + Len(t[n + 1])
    BY <2>1, OffsetNext
  <2>3. (n + 1) + 1 = n + 2 /\ n + 1 \in 1 .. n + 1
    BY <1>1
  <2>4. Offset(t, n + 1) = Offset(s, n + 1)
    BY <1>4, <2>3
  <2> QED
    BY <2>1, <2>2, <2>3, <2>4
<1> QED
  BY <1>4, <1>5 DEF s, t, n, ys

\* Offsets in a sequence of texts grow.
LEMMA OffsetsGrow ==
    ASSUME NEW R, \A r \in R : r.text \in Seq(STRING), NEW bs \in Seq(R),
           NEW j \in 1 .. Len(bs) + 1, NEW k \in 1 .. Len(bs) + 1, j <= k
    PROVE  Offset(TextsOf(bs), j) <= Offset(TextsOf(bs), k)
<1>1. TextsOf(bs) \in Seq(Seq(STRING)) /\ Len(bs) \in Nat
  BY TextsTypes
<1>2. j \in Nat /\ k \in Nat
  BY <1>1
<1> QED
  BY <1>1, <1>2, OffsetGrows

LEMMA OffsetsNext ==
    ASSUME NEW R, \A r \in R : r.text \in Seq(STRING), NEW bs \in Seq(R), NEW i \in 1 .. Len(bs)
    PROVE  /\ Offset(TextsOf(bs), i) \in Nat
           /\ Offset(TextsOf(bs), i + 1) = Offset(TextsOf(bs), i) + Len(bs[i].text)
<1>1. /\ TextsOf(bs) \in Seq(Seq(STRING)) /\ Len(TextsOf(bs)) = Len(bs)
      /\ TextsOf(bs)[i] = bs[i].text
  BY TextsTypes
<1> DEFINE t == TextsOf(bs)
<1>2. t \in Seq(Seq(STRING)) /\ i \in 1 .. Len(t) /\ t[i] = bs[i].text
  BY <1>1
<1> HIDE DEF t
<1>3. Offset(t, i) \in Nat /\ Offset(t, i + 1) = Offset(t, i) + Len(t[i])
  BY <1>2, OffsetNext
<1> QED
  BY <1>2, <1>3 DEF t

---------------------------------------------------------------------------
(* The outline of a Markdown source. *)

\* Which headings item i of a source stands under: those before it that no later heading
\* of their level or above ends.
HeadingAt(its, k) == its[k].kind = "heading"
Over(its, i) ==
    {k \in 1 .. i : /\ HeadingAt(its, k)
                    /\ \A n \in k + 1 .. i : HeadingAt(its, n) => its[n].level > its[k].level}

\* No heading is more than one level below the one before it.
Gapless(its) ==
    \A k \in 1 .. Len(its) : HeadingAt(its, k) /\ its[k].level > 1 =>
        \E n \in 1 .. k - 1 : /\ HeadingAt(its, n) /\ its[n].level >= its[k].level - 1
                              /\ \A m \in n + 1 .. k - 1 : ~HeadingAt(its, m)

\* A path that is right for item i: the item's headings, not below their levels; in a source
\* without gaps just these, at their levels.
PathOK(its, path, i) ==
    /\ \A k \in Over(its, i) : \E n \in DOMAIN path : n <= its[k].level /\ path[n] = its[k].text
    /\ Gapless(its) =>
          /\ \A k \in Over(its, i) : /\ its[k].level \in DOMAIN path
                                     /\ path[its[k].level] = its[k].text
          /\ \A n \in DOMAIN path : \E k \in Over(its, i) : its[k].level = n

\* What another item stands under: a heading ends those of its level and below.
LEMMA OverNext ==
    ASSUME NEW its \in Seq(MarkdownLine), NEW x \in MarkdownLine
    PROVE  LET jts == Append(its, x)
               n == Len(its)
           IN  /\ \A k \in 1 .. n : jts[k] = its[k]
               /\ jts[n + 1] = x /\ Len(jts) = n + 1 /\ n \in Nat
               /\ \A i \in 0 .. n : Over(jts, i) = Over(its, i)
               /\ x.kind # "heading" => Over(jts, n + 1) = Over(its, n)
               /\ x.kind = "heading" =>
                     Over(jts, n + 1)
                        = {k \in Over(its, n) : its[k].level < x.level} \cup {n + 1}
               /\ Gapless(jts) => Gapless(its)
               /\ Gapless(jts) /\ x.kind = "heading" /\ x.level > 1 =>
                     \E k \in Over(its, n) : its[k].level >= x.level - 1
<1> DEFINE jts == Append(its, x)
           n == Len(its)
<1>1. /\ \A k \in 1 .. n : jts[k] = its[k]
      /\ jts[n + 1] = x /\ Len(jts) = n + 1 /\ n \in Nat
  BY AppendProperties, LenProperties
<1>2. \A k \in 1 .. n : its[k] \in MarkdownLine /\ its[k].level \in Nat
  BY ElementOfSeq, LineKinds
<1> HIDE DEF jts, n
<1>3. ASSUME NEW i \in 0 .. n PROVE Over(jts, i) = Over(its, i)
  <2>1. \A k \in 1 .. i : jts[k] = its[k]
    BY <1>1
  <2>2. \A k \in 1 .. i : HeadingAt(jts, k) <=> HeadingAt(its, k)
    BY <2>1 DEF HeadingAt
  <2>3. \A k \in 1 .. i : \A m \in k + 1 .. i : m \in 1 .. i
    BY <1>1
  <2> QED
    BY <2>1, <2>2, <2>3 DEF Over
<1>4. ASSUME NEW k
      PROVE  k \in Over(jts, n + 1) <=>
                \/ k \in Over(its, n) /\ (x.kind = "heading" => x.level > its[k].level)
                \/ k = n + 1 /\ x.kind = "heading"
  <2>1. CASE k \in 1 .. n
    <3>1. n + 1 \in k + 1 .. n + 1 /\ k + 1 .. n + 1 = (k + 1 .. n) \cup {n + 1} /\ k # n + 1
          /\ k \in 1 .. n + 1
      BY <1>1, <2>1
    <3>2. HeadingAt(jts, k) <=> HeadingAt(its, k)
      BY <1>1, <2>1 DEF HeadingAt
    <3>3. \A m \in k + 1 .. n : (HeadingAt(jts, m) <=> HeadingAt(its, m)) /\ jts[m] = its[m]
      BY <1>1, <2>1 DEF HeadingAt
    <3>4. jts[k] = its[k]
      BY <1>1, <2>1
    <3>5. HeadingAt(jts, n + 1) <=> x.kind = "heading"
      BY <1>1 DEF HeadingAt
    <3>6. (\A m \in k + 1 .. n + 1 : HeadingAt(jts, m) => jts[m].level > jts[k].level)
          <=> /\ \A m \in k + 1 .. n : HeadingAt(its, m) => its[m].level > its[k].level
              /\ x.kind = "heading" => x.level > its[k].level
      <4>1. (\A m \in k + 1 .. n + 1 : HeadingAt(jts, m) => jts[m].level > jts[k].level)
            <=> /\ \A m \in k + 1 .. n : HeadingAt(jts, m) => jts[m].level > jts[k].level
                /\ HeadingAt(jts, n + 1) => jts[n + 1].level > jts[k].level
        BY ONLY <3>1
      <4> QED
        BY <1>1, <3>3, <3>4, <3>5, <4>1
    <3> QED
      BY <2>1, <3>1, <3>2, <3>6 DEF Over
  <2>2. CASE k = n + 1
    <3>1. k + 1 .. n + 1 = {} /\ k \in 1 .. n + 1 /\ k \notin 1 .. n
      BY <1>1, <2>2
    <3>2. HeadingAt(jts, k) <=> x.kind = "heading"
      BY <1>1, <2>2 DEF HeadingAt
    <3> QED
      BY <2>2, <3>1, <3>2 DEF Over
  <2>3. CASE k \notin 1 .. n + 1
    <3>1. k \notin 1 .. n /\ k # n + 1
      BY <1>1, <2>3
    <3> QED
      BY <2>3, <3>1 DEF Over
  <2> QED
    BY <1>1, <2>1, <2>2, <2>3
<1>5. x.kind # "heading" => Over(jts, n + 1) = Over(its, n)
  BY <1>4
<1>6. x.kind = "heading" =>
        Over(jts, n + 1) = {k \in Over(its, n) : its[k].level < x.level} \cup {n + 1}
  <2>1. x.level \in Nat
    BY LineKinds
  <2>2. \A k \in Over(its, n) : its[k].level < x.level <=> x.level > its[k].level
    BY <1>2, <2>1 DEF Over, n
  <2> QED
    BY <1>4, <2>2
<1>7. \A k \in 1 .. n : HeadingAt(jts, k) <=> HeadingAt(its, k)
  BY <1>1 DEF HeadingAt
<1>8. Gapless(jts) => Gapless(its)
  <2> SUFFICES ASSUME Gapless(jts), NEW k \in 1 .. n, HeadingAt(its, k), its[k].level > 1
               PROVE  \E m \in 1 .. k - 1 : /\ HeadingAt(its, m)
                                            /\ its[m].level >= its[k].level - 1
                                            /\ \A l \in m + 1 .. k - 1 : ~HeadingAt(its, l)
    BY DEF Gapless, n
  <2>1. k \in 1 .. Len(jts) /\ HeadingAt(jts, k) /\ jts[k].level > 1 /\ jts[k] = its[k]
    BY <1>1, <1>7
  <2>2. PICK m \in 1 .. k - 1 : /\ HeadingAt(jts, m) /\ jts[m].level >= jts[k].level - 1
                                /\ \A l \in m + 1 .. k - 1 : ~HeadingAt(jts, l)
    BY <2>1 DEF Gapless
  <2>3. m \in 1 .. n /\ \A l \in m + 1 .. k - 1 : l \in 1 .. n
    BY <1>1
  <2>4. HeadingAt(its, m) /\ its[m].level >= its[k].level - 1
    BY <1>1, <1>7, <2>1, <2>2, <2>3
  <2>5. \A l \in m + 1 .. k - 1 : ~HeadingAt(its, l)
    BY <1>7, <2>2, <2>3
  <2> QED
    BY <2>4, <2>5
<1>9. ASSUME Gapless(jts), x.kind = "heading", x.level > 1
      PROVE  \E k \in Over(its, n) : its[k].level >= x.level - 1
  <2>1. n + 1 \in 1 .. Len(jts) /\ HeadingAt(jts, n + 1) /\ (n + 1) - 1 = n
    BY <1>1, <1>9 DEF HeadingAt
  <2>2. PICK m \in 1 .. n : /\ HeadingAt(jts, m) /\ jts[m].level >= x.level - 1
                            /\ \A l \in m + 1 .. n : ~HeadingAt(jts, l)
    BY <1>1, <1>9, <2>1 DEF Gapless
  <2>3. \A l \in m + 1 .. n : l \in 1 .. n
    BY <1>1
  <2>4. m \in Over(its, n)
    BY <1>7, <2>2, <2>3 DEF Over
  <2> QED
    BY <1>1, <2>2, <2>4
<1> QED
  BY <1>1, <1>3, <1>5, <1>6, <1>8, <1>9 DEF jts, n

\* A path that was right for the last item is right for a line that is no heading.
LEMMA PathKept ==
    ASSUME NEW its \in Seq(MarkdownLine), NEW x \in MarkdownLine, NEW path
    PROVE  /\ \A i \in 0 .. Len(its) : PathOK(its, path, i) => PathOK(Append(its, x), path, i)
           /\ x.kind # "heading" /\ PathOK(its, path, Len(its)) =>
                 PathOK(Append(its, x), path, Len(its) + 1)
<1> DEFINE jts == Append(its, x)
           n == Len(its)
<1>1. /\ \A k \in 1 .. n : jts[k] = its[k]
      /\ n \in Nat
      /\ \A i \in 0 .. n : Over(jts, i) = Over(its, i)
      /\ x.kind # "heading" => Over(jts, n + 1) = Over(its, n)
      /\ Gapless(jts) => Gapless(its)
  BY OverNext
<1> HIDE DEF jts, n
<1>2. ASSUME NEW i \in 0 .. n, NEW j, Over(jts, j) = Over(its, i), PathOK(its, path, i)
      PROVE  PathOK(jts, path, j)
  <2>1. ASSUME NEW k \in Over(its, i) PROVE jts[k] = its[k]
    <3>1. k \in 1 .. n
      BY <1>1 DEF Over
    <3> QED
      BY <1>1, <3>1
  <2> QED
    BY <1>1, <1>2, <2>1 DEF PathOK
<1>3. n \in 0 .. n
  BY <1>1
<1> QED
  BY <1>1, <1>2, <1>3 DEF jts, n

\* A heading cuts the path at its level.
LEMMA HeadingPath ==
    ASSUME NEW its \in Seq(MarkdownLine), NEW x \in MarkdownLine, x.kind = "heading",
           NEW c \in Collector, PathOK(its, c.headings, Len(its))
    PROVE  PathOK(Append(its, x), AddedPath(c, x.text, x.level), Len(its) + 1)
<1> DEFINE jts == Append(its, x)
           n == Len(its)
           v == x.level
           h == c.headings
           a == v - 1
           b == Len(h)
           m == Min({a, b})
           short == SubSeq(h, 1, m)
           path == Append(short, x.text)
<1>1. /\ \A k \in 1 .. n : jts[k] = its[k]
      /\ jts[n + 1] = x /\ n \in Nat
      /\ Over(jts, n + 1) = {k \in Over(its, n) : its[k].level < v} \cup {n + 1}
      /\ Gapless(jts) => Gapless(its)
      /\ Gapless(jts) /\ v > 1 => \E k \in Over(its, n) : its[k].level >= v - 1
  BY OverNext
<1>2. v \in 1 .. 6 /\ x.text \in Seq(STRING) /\ h \in Seq(Seq(STRING)) /\ a \in Nat
      /\ b \in Nat /\ DOMAIN h = 1 .. b /\ a = v - 1
  BY LineKinds, CollectorTypes, LenProperties
<1>3. AddedPath(c, x.text, x.level) = path
  <2>1. v # 0
    BY <1>2
  <2> QED
    BY ONLY <2>1 DEF AddedPath
<1>4. \A k \in 1 .. n : its[k].level \in Nat /\ (HeadingAt(its, k) => its[k].level >= 1)
  <2> SUFFICES ASSUME NEW k \in 1 .. n
               PROVE  its[k].level \in Nat /\ (HeadingAt(its, k) => its[k].level >= 1)
    OBVIOUS
  <2>1. its[k] \in MarkdownLine
    BY ElementOfSeq
  <2>2. /\ its[k].level \in Nat
        /\ its[k].kind = "heading" => its[k].level \in 1 .. 6
    BY <2>1, LineKinds
  <2> QED
    BY <2>2 DEF HeadingAt
<1> HIDE DEF jts, n, v, h, a, b, path, short, m
<1>5. m \in Nat /\ m <= a /\ m <= b /\ (m = a \/ m = b)
  <2>1. a \in Int /\ b \in Int
    BY <1>2
  <2>2. m \in {a, b} /\ m <= a /\ m <= b
    BY <2>1, MinOfTwo DEF m
  <2> QED
    BY <1>2, <2>2
<1>6. /\ short \in Seq(Seq(STRING)) /\ Len(short) = m
      /\ \A i \in 1 .. m : short[i] = h[i]
  <2>1. \A i \in 1 .. m : h[i] \in Seq(STRING)
    BY <1>2, <1>5
  <2>2. 1 \in Int /\ m \in Int
    BY <1>5
  <2>3. /\ SubSeq(h, 1, m) \in Seq(Seq(STRING))
        /\ Len(SubSeq(h, 1, m)) = IF 1 <= m THEN m - 1 + 1 ELSE 0
        /\ \A i \in 1 .. m - 1 + 1 : SubSeq(h, 1, m)[i] = h[1 + i - 1]
    BY ONLY <2>1, <2>2, SubSeqProperties
  <2> QED
    BY <1>5, <2>3 DEF short
<1>7. /\ DOMAIN path = 1 .. m + 1 /\ path[m + 1] = x.text
      /\ \A i \in 1 .. m : path[i] = h[i]
  BY <1>2, <1>5, <1>6, AppendProperties, LenProperties DEF path
<1>8. \A k \in Over(its, n) : k \in 1 .. n /\ HeadingAt(its, k) /\ k # n + 1
  BY <1>1 DEF Over
<1>9. PathOK(its, h, n)
  BY DEF h, n
<1>10. ASSUME NEW k \in Over(jts, n + 1)
       PROVE  \E i \in DOMAIN path : i <= jts[k].level /\ path[i] = jts[k].text
  <2>1. CASE k = n + 1
    <3>1. m + 1 \in DOMAIN path /\ m + 1 <= v
      BY <1>2, <1>5, <1>7
    <3> QED
      BY <1>1, <1>7, <2>1, <3>1 DEF v
  <2>2. CASE k # n + 1
    <3>1. k \in Over(its, n) /\ its[k].level < v /\ jts[k] = its[k] /\ its[k].level \in Nat
      BY <1>1, <1>4, <1>8, <1>10, <2>2
    <3>2. PICK i \in DOMAIN h : i <= its[k].level /\ h[i] = its[k].text
      BY <1>9, <3>1 DEF PathOK
    <3>3. i \in 1 .. m
      <4>1. i \in 1 .. b /\ i <= a
        BY <1>2, <3>1, <3>2
      <4> QED
        BY <1>5, <4>1
    <3>4. i \in DOMAIN path
      BY <1>5, <1>7, <3>3
    <3> QED
      BY <1>7, <3>1, <3>2, <3>3, <3>4
  <2> QED
    BY <2>1, <2>2
<1>11. ASSUME Gapless(jts)
       PROVE  /\ \A k \in Over(jts, n + 1) : /\ jts[k].level \in DOMAIN path
                                            /\ path[jts[k].level] = jts[k].text
              /\ \A i \in DOMAIN path : \E k \in Over(jts, n + 1) : jts[k].level = i
  <2>1. Gapless(its)
    BY <1>1, <1>11
  <2>2. /\ \A k \in Over(its, n) : /\ its[k].level \in DOMAIN h
                                   /\ h[its[k].level] = its[k].text
        /\ \A i \in DOMAIN h : \E k \in Over(its, n) : its[k].level = i
    BY <1>9, <2>1 DEF PathOK
  <2>3. m = a
    <3>1. CASE v = 1
      BY <1>2, <1>5, <3>1
    <3>2. CASE v > 1
      <4>1. PICK k \in Over(its, n) : its[k].level >= v - 1
        BY <1>1, <1>11, <3>2
      <4>2. its[k].level \in 1 .. b
        BY <1>2, <2>2
      <4> QED
        BY <1>2, <1>5, <4>1, <4>2
    <3> QED
      BY <1>2, <3>1, <3>2
  <2>4. ASSUME NEW k \in Over(jts, n + 1)
        PROVE  jts[k].level \in DOMAIN path /\ path[jts[k].level] = jts[k].text
    <3>1. CASE k = n + 1
      <4>1. jts[k].level = m + 1 /\ jts[k].text = x.text
        BY <1>1, <1>2, <2>3, <3>1 DEF v
      <4> QED
        BY <1>5, <1>7, <4>1
    <3>2. CASE k # n + 1
      <4>1. k \in Over(its, n) /\ its[k].level < v /\ jts[k] = its[k] /\ its[k].level \in Nat
            /\ its[k].level >= 1
        BY <1>1, <1>4, <1>8, <2>4, <3>2
      <4>2. its[k].level \in 1 .. m /\ its[k].level \in 1 .. m + 1
        BY <1>2, <2>3, <4>1
      <4> QED
        BY <1>7, <2>2, <4>1, <4>2
    <3> QED
      BY <3>1, <3>2
  <2>5. ASSUME NEW i \in DOMAIN path PROVE \E k \in Over(jts, n + 1) : jts[k].level = i
    <3>1. CASE i = m + 1
      <4>1. n + 1 \in Over(jts, n + 1) /\ jts[n + 1].level = m + 1
        BY <1>1, <1>2, <2>3 DEF v
      <4> QED
        BY <3>1, <4>1
    <3>2. CASE i # m + 1
      <4>1. i \in DOMAIN h /\ i < v
        BY <1>2, <1>5, <1>7, <2>3, <3>2
      <4>2. PICK k \in Over(its, n) : its[k].level = i
        BY <2>2, <4>1
      <4>3. k \in Over(jts, n + 1) /\ jts[k] = its[k]
        BY <1>1, <1>8, <4>1, <4>2
      <4> QED
        BY <4>2, <4>3
    <3> QED
      BY <3>1, <3>2
  <2> QED
    BY <2>4, <2>5
<1>12. PathOK(jts, path, n + 1)
  BY <1>10, <1>11 DEF PathOK
<1> QED
  BY <1>3, <1>12 DEF jts, n

\* How many tokens there are; and which block the text of item i went to.
EndOf(bs) == Offset(TextsOf(bs), Len(bs) + 1)

OriginIn(bs, its, b, i) ==
    /\ its[i].text # <<>>
    /\ Offset(TextsOf(its), i) \in Offset(TextsOf(bs), b) .. Offset(TextsOf(bs), b + 1) - 1

\* The open paragraph has the items that no block has, all of which stand under the
\* headings that are open now.
OutlineOK(its, c) ==
    /\ EndOf(its) = EndOf(c.blocks) + Len(c.parts)
    /\ \A b \in 1 .. Len(c.blocks), i \in 1 .. Len(its) :
          OriginIn(c.blocks, its, b, i) => PathOK(its, c.blocks[b].path, i)
    /\ PathOK(its, c.headings, Len(its))
    /\ \A i \in 1 .. Len(its) :
          its[i].text # <<>> /\ Offset(TextsOf(its), i) >= EndOf(c.blocks) =>
              Over(its, i) = Over(its, Len(its))

\* Texts and items have their tokens between their offset and the next.
LEMMA ItemEnds ==
    ASSUME NEW its \in Seq(MarkdownLine)
    PROVE  /\ EndOf(its) \in Nat
           /\ \A i \in 1 .. Len(its) : /\ Offset(TextsOf(its), i) \in Nat
                                       /\ its[i].text # <<>> => Offset(TextsOf(its), i) < EndOf(its)
<1>1. \A r \in MarkdownLine : r.text \in Seq(STRING)
  BY LineKinds
<1>2. Len(its) \in Nat /\ TextsOf(its) \in Seq(Seq(STRING))
  BY <1>1, TextsTypes
<1>3. Len(its) + 1 \in Nat
  BY <1>2
<1>4. EndOf(its) \in Nat
  BY <1>2, <1>3, OffsetGrows DEF EndOf
<1>5. ASSUME NEW i \in 1 .. Len(its), its[i].text # <<>>
      PROVE  Offset(TextsOf(its), i) < EndOf(its)
  <2>1. /\ Offset(TextsOf(its), i) \in Nat
        /\ Offset(TextsOf(its), i + 1) = Offset(TextsOf(its), i) + Len(its[i].text)
    BY <1>1, OffsetsNext
  <2>2. its[i].text \in Seq(STRING)
    BY <1>1, ElementOfSeq
  <2>3. Len(its[i].text) \in Nat \ {0}
    BY <1>5, <2>2, EmptySeq
  <2>4. i + 1 \in 1 .. Len(its) + 1 /\ Len(its) + 1 \in 1 .. Len(its) + 1 /\ i + 1 <= Len(its) + 1
    BY <1>2
  <2>5. Offset(TextsOf(its), i + 1) <= Offset(TextsOf(its), Len(its) + 1)
    BY <1>1, <2>4, OffsetsGrow
  <2> QED
    BY <1>4, <2>1, <2>3, <2>5 DEF EndOf
<1>6. \A i \in 1 .. Len(its) : Offset(TextsOf(its), i) \in Nat
  BY <1>1, OffsetsNext
<1> QED
  BY <1>4, <1>5, <1>6

\* Another item, and another block.
LEMMA ItemAppend ==
    ASSUME NEW its \in Seq(MarkdownLine), NEW x \in MarkdownLine
    PROVE  /\ EndOf(its) \in Nat
           /\ \A i \in 1 .. Len(its) + 1 :
                 Offset(TextsOf(Append(its, x)), i) = Offset(TextsOf(its), i)
           /\ Offset(TextsOf(Append(its, x)), Len(its) + 1) = EndOf(its)
           /\ EndOf(Append(its, x)) = EndOf(its) + Len(x.text)
<1>1. \A r \in MarkdownLine : r.text \in Seq(STRING)
  BY LineKinds
<1>2. /\ \A k \in 1 .. Len(its) + 1 :
            Offset(TextsOf(Append(its, x)), k) = Offset(TextsOf(its), k)
      /\ Offset(TextsOf(Append(its, x)), Len(its) + 2)
            = Offset(TextsOf(its), Len(its) + 1) + Len(x.text)
  BY <1>1, OffsetsAppend
<1>3. Len(its) \in Nat /\ Len(Append(its, x)) = Len(its) + 1
  BY LenProperties, AppendProperties
<1>4. Len(its) + 1 \in 1 .. Len(its) + 1 /\ (Len(its) + 1) + 1 = Len(its) + 2
  BY <1>3
<1> QED
  BY <1>2, <1>3, <1>4, ItemEnds DEF EndOf

LEMMA BlockAppend ==
    ASSUME NEW bs \in Document, NEW x \in Block
    PROVE  /\ Len(bs) \in Nat /\ Len(Append(bs, x)) = Len(bs) + 1
           /\ \A b \in 1 .. Len(bs) : Append(bs, x)[b] = bs[b]
           /\ Append(bs, x)[Len(bs) + 1] = x
           /\ EndOf(bs) \in Nat
           /\ \A b \in 1 .. Len(bs) + 1 : /\ Offset(TextsOf(bs), b) \in Nat
                                          /\ Offset(TextsOf(bs), b) <= EndOf(bs)
                                          /\ Offset(TextsOf(Append(bs, x)), b) = Offset(TextsOf(bs), b)
           /\ Offset(TextsOf(Append(bs, x)), Len(bs) + 1) = EndOf(bs)
           /\ Offset(TextsOf(Append(bs, x)), (Len(bs) + 1) + 1) = EndOf(bs) + Len(x.text)
           /\ EndOf(Append(bs, x)) = EndOf(bs) + Len(x.text)
<1>1. bs \in Seq(Block) /\ \A r \in Block : r.text \in Seq(STRING)
  BY DEF Document, Block
<1>2. /\ \A k \in 1 .. Len(bs) + 1 :
            /\ Offset(TextsOf(bs), k) \in Nat
            /\ Offset(TextsOf(Append(bs, x)), k) = Offset(TextsOf(bs), k)
      /\ Offset(TextsOf(Append(bs, x)), Len(bs) + 2)
            = Offset(TextsOf(bs), Len(bs) + 1) + Len(x.text)
  BY <1>1, OffsetsAppend
<1>3. /\ Len(bs) \in Nat /\ Len(Append(bs, x)) = Len(bs) + 1
      /\ \A b \in 1 .. Len(bs) : Append(bs, x)[b] = bs[b]
      /\ Append(bs, x)[Len(bs) + 1] = x
  BY <1>1, LenProperties, AppendProperties
<1>4. Len(bs) + 1 \in 1 .. Len(bs) + 1 /\ (Len(bs) + 1) + 1 = Len(bs) + 2
  BY <1>3
<1>5. \A b \in 1 .. Len(bs) + 1 : Offset(TextsOf(bs), b) <= EndOf(bs)
  <2>1. \A b \in 1 .. Len(bs) + 1 : b <= Len(bs) + 1
    BY <1>3
  <2> QED
    BY <1>1, <1>4, <2>1, OffsetsGrow DEF EndOf
<1> QED
  BY <1>2, <1>3, <1>4, <1>5 DEF EndOf

\* The open paragraph becomes a block.
LEMMA ParagraphOutline ==
    ASSUME NEW its \in Seq(MarkdownLine), NEW c \in Collector, OutlineOK(its, c),
           NEW x \in Block, x.text = c.parts, x.path = c.headings,
           NEW d, d.blocks = Append(c.blocks, x), d.headings = c.headings, d.parts = <<>>
    PROVE  OutlineOK(its, d)
<1> DEFINE N == Len(c.blocks)
           n == Len(its)
<1>1. c.blocks \in Document /\ c.parts \in Seq(STRING)
  BY CollectorTypes
<1>2. /\ N \in Nat /\ Len(d.blocks) = N + 1
      /\ \A b \in 1 .. N : d.blocks[b] = c.blocks[b]
      /\ d.blocks[N + 1] = x
      /\ EndOf(c.blocks) \in Nat
      /\ \A b \in 1 .. N + 1 : Offset(TextsOf(d.blocks), b) = Offset(TextsOf(c.blocks), b)
      /\ Offset(TextsOf(d.blocks), N + 1) = EndOf(c.blocks)
      /\ EndOf(d.blocks) = EndOf(c.blocks) + Len(c.parts)
  BY <1>1, BlockAppend
<1>3. /\ EndOf(its) = EndOf(c.blocks) + Len(c.parts)
      /\ \A b \in 1 .. N, i \in 1 .. n :
            OriginIn(c.blocks, its, b, i) => PathOK(its, c.blocks[b].path, i)
      /\ PathOK(its, c.headings, n)
      /\ \A i \in 1 .. n :
            its[i].text # <<>> /\ Offset(TextsOf(its), i) >= EndOf(c.blocks) =>
                Over(its, i) = Over(its, n)
  BY DEF OutlineOK
<1>4. EndOf(its) \in Nat /\ \A i \in 1 .. n :
         /\ Offset(TextsOf(its), i) \in Nat
         /\ its[i].text # <<>> => Offset(TextsOf(its), i) < EndOf(its)
  BY ItemEnds
<1>5. EndOf(its) = EndOf(d.blocks) + Len(d.parts)
  <2>1. Len(d.parts) = 0
    OBVIOUS
  <2> QED
    BY <1>2, <1>3, <1>4, <2>1
<1> HIDE DEF N, n
<1>6. ASSUME NEW b \in 1 .. N + 1, NEW i \in 1 .. n, OriginIn(d.blocks, its, b, i)
      PROVE  PathOK(its, d.blocks[b].path, i)
  <2>1. CASE b = N + 1
    <3>1. its[i].text # <<>> /\ Offset(TextsOf(its), i) >= EndOf(c.blocks)
      BY <1>2, <1>4, <1>6, <2>1 DEF OriginIn
    <3>2. Over(its, i) = Over(its, n)
      BY <1>3, <3>1
    <3>3. PathOK(its, c.headings, i)
      BY <1>3, <3>2 DEF PathOK
    <3> QED
      BY <1>2, <2>1, <3>3
  <2>2. CASE b # N + 1
    <3>1. b \in 1 .. N /\ b \in 1 .. N + 1 /\ b + 1 \in 1 .. N + 1
      BY <1>2, <2>2
    <3>2. OriginIn(c.blocks, its, b, i)
      BY <1>2, <1>6, <3>1 DEF OriginIn
    <3> QED
      BY <1>2, <1>3, <3>1, <3>2
  <2> QED
    BY <2>1, <2>2
<1>7. ASSUME NEW i \in 1 .. n, its[i].text # <<>>
      PROVE  ~(Offset(TextsOf(its), i) >= EndOf(d.blocks))
  BY <1>2, <1>3, <1>4, <1>7
<1> QED
  BY <1>2, <1>3, <1>5, <1>6, <1>7 DEF OutlineOK, n

\* A heading or list item becomes a block.
LEMMA BlockOutline ==
    ASSUME NEW its \in Seq(MarkdownLine), NEW c \in Collector, OutlineOK(its, c),
           c.parts = <<>>,
           NEW line \in MarkdownLine, line.text # <<>>,
           NEW x \in Block, x.text = line.text,
           NEW d, d.blocks = Append(c.blocks, x), d.headings = x.path, d.parts = <<>>,
           PathOK(Append(its, line), x.path, Len(its) + 1)
    PROVE  OutlineOK(Append(its, line), d)
<1> DEFINE N == Len(c.blocks)
           n == Len(its)
           jts == Append(its, line)
<1>1. c.blocks \in Document /\ line.text \in Seq(STRING)
  BY CollectorTypes, LineKinds
<1>2. /\ N \in Nat /\ Len(d.blocks) = N + 1
      /\ \A b \in 1 .. N : d.blocks[b] = c.blocks[b]
      /\ d.blocks[N + 1] = x
      /\ EndOf(c.blocks) \in Nat
      /\ \A b \in 1 .. N + 1 : /\ Offset(TextsOf(c.blocks), b) \in Nat
                               /\ Offset(TextsOf(c.blocks), b) <= EndOf(c.blocks)
                               /\ Offset(TextsOf(d.blocks), b) = Offset(TextsOf(c.blocks), b)
      /\ Offset(TextsOf(d.blocks), N + 1) = EndOf(c.blocks)
      /\ EndOf(d.blocks) = EndOf(c.blocks) + Len(line.text)
  BY <1>1, BlockAppend
<1>3. /\ EndOf(its) = EndOf(c.blocks)
      /\ \A b \in 1 .. N, i \in 1 .. n :
            OriginIn(c.blocks, its, b, i) => PathOK(its, c.blocks[b].path, i)
  <2>1. Len(c.parts) = 0
    OBVIOUS
  <2> QED
    BY <1>2, <2>1 DEF OutlineOK
<1>4. EndOf(its) \in Nat /\ \A i \in 1 .. n :
         /\ Offset(TextsOf(its), i) \in Nat
         /\ its[i].text # <<>> => Offset(TextsOf(its), i) < EndOf(its)
  BY ItemEnds
<1>5. /\ \A i \in 1 .. n + 1 : Offset(TextsOf(jts), i) = Offset(TextsOf(its), i)
      /\ Offset(TextsOf(jts), n + 1) = EndOf(its)
      /\ EndOf(jts) = EndOf(its) + Len(line.text)
  BY ItemAppend
<1>6. /\ \A k \in 1 .. n : jts[k] = its[k]
      /\ jts[n + 1] = line /\ Len(jts) = n + 1 /\ n \in Nat
  BY OverNext
<1>7. \A path : \A i \in 0 .. n : PathOK(its, path, i) => PathOK(jts, path, i)
  BY PathKept
<1>8. Len(line.text) \in Nat \ {0}
  BY <1>1, EmptySeq
<1> HIDE DEF N, n, jts
<1>9. PathOK(jts, d.headings, n + 1)
  BY DEF n, jts
<1>10. EndOf(jts) = EndOf(d.blocks) + Len(d.parts)
  <2>1. Len(d.parts) = 0
    OBVIOUS
  <2> QED
    BY <1>2, <1>3, <1>5, <1>8, <2>1
<1>11. ASSUME NEW b \in 1 .. N + 1, NEW i \in 1 .. n + 1, OriginIn(d.blocks, jts, b, i)
       PROVE  PathOK(jts, d.blocks[b].path, i)
  <2>1. CASE i = n + 1 /\ b = N + 1
    BY <1>2, <1>9, <2>1
  <2>2. CASE i = n + 1 /\ b # N + 1
    <3>1. b + 1 \in 1 .. N + 1
      BY <1>2, <2>2
    <3>2. Offset(TextsOf(jts), i) <= Offset(TextsOf(d.blocks), b + 1) - 1
      <4>1. Offset(TextsOf(d.blocks), b) \in Nat /\ Offset(TextsOf(d.blocks), b + 1) \in Nat
        BY <1>2, <3>1
      <4> QED
        BY <1>11, <4>1 DEF OriginIn
    <3>3. Offset(TextsOf(d.blocks), b + 1) <= EndOf(c.blocks)
      BY <1>2, <3>1
    <3>4. FALSE
      BY <1>2, <1>3, <1>5, <2>2, <3>1, <3>2, <3>3
    <3> QED
      BY <3>4
  <2>3. CASE i # n + 1 /\ b = N + 1
    <3>1. i \in 1 .. n /\ i \in 1 .. n + 1
      BY <1>6, <2>3
    <3>2. its[i].text # <<>> /\ Offset(TextsOf(its), i) >= EndOf(c.blocks)
      BY <1>2, <1>4, <1>5, <1>6, <1>8, <1>11, <2>3, <3>1 DEF OriginIn
    <3> QED
      BY <1>3, <1>4, <3>1, <3>2
  <2>4. CASE i # n + 1 /\ b # N + 1
    <3>1. /\ i \in 1 .. n /\ i \in 1 .. n + 1 /\ i \in 0 .. n
          /\ b \in 1 .. N /\ b \in 1 .. N + 1 /\ b + 1 \in 1 .. N + 1
      BY <1>2, <1>6, <2>4
    <3>2. OriginIn(c.blocks, its, b, i)
      BY <1>2, <1>5, <1>6, <1>11, <3>1 DEF OriginIn
    <3>3. PathOK(its, c.blocks[b].path, i)
      BY <1>3, <3>1, <3>2
    <3> QED
      BY <1>2, <1>7, <3>1, <3>3
  <2> QED
    BY <2>1, <2>2, <2>3, <2>4
<1>12. ASSUME NEW i \in 1 .. n + 1, jts[i].text # <<>>
       PROVE  ~(Offset(TextsOf(jts), i) >= EndOf(d.blocks))
  <2>1. CASE i = n + 1
    BY <1>2, <1>3, <1>5, <1>8, <2>1
  <2>2. CASE i # n + 1
    <3>1. i \in 1 .. n /\ i \in 1 .. n + 1
      BY <1>6, <2>2
    <3>2. its[i].text # <<>>
      BY <1>6, <1>12, <3>1
    <3>3. /\ Offset(TextsOf(jts), i) < EndOf(c.blocks) /\ Offset(TextsOf(jts), i) \in Nat
      BY <1>3, <1>4, <1>5, <3>1, <3>2
    <3>4. EndOf(d.blocks) = EndOf(c.blocks) + Len(line.text) /\ EndOf(c.blocks) \in Nat
      BY <1>2
    <3> QED
      BY <1>8, <3>3, <3>4
  <2> QED
    BY <2>1, <2>2
<1> QED
  BY <1>2, <1>6, <1>9, <1>10, <1>11, <1>12 DEF OutlineOK, jts

\* A line of the open paragraph, or a blank one.
LEMMA LineOutline ==
    ASSUME NEW its \in Seq(MarkdownLine), NEW c \in Collector, OutlineOK(its, c),
           NEW line \in MarkdownLine, line.kind # "heading",
           NEW d, d.blocks = c.blocks, d.headings = c.headings, d.parts = c.parts \o line.text
    PROVE  OutlineOK(Append(its, line), d)
<1> DEFINE N == Len(c.blocks)
           n == Len(its)
           jts == Append(its, line)
<1>1. c.blocks \in Document /\ line.text \in Seq(STRING) /\ c.parts \in Seq(STRING)
  BY CollectorTypes, LineKinds
<1>2. Len(d.parts) = Len(c.parts) + Len(line.text) /\ Len(c.parts) \in Nat
      /\ Len(line.text) \in Nat
  BY <1>1, ConcatProperties, LenProperties
<1>3. /\ EndOf(its) = EndOf(c.blocks) + Len(c.parts)
      /\ \A b \in 1 .. N, i \in 1 .. n :
            OriginIn(c.blocks, its, b, i) => PathOK(its, c.blocks[b].path, i)
      /\ PathOK(its, c.headings, n)
      /\ \A i \in 1 .. n :
            its[i].text # <<>> /\ Offset(TextsOf(its), i) >= EndOf(c.blocks) =>
                Over(its, i) = Over(its, n)
  BY DEF OutlineOK
<1>4. \A x : x = EndOf(c.blocks) => x \in Nat
             /\ \A b \in 1 .. N + 1 : /\ Offset(TextsOf(c.blocks), b) \in Nat
                                      /\ Offset(TextsOf(c.blocks), b) <= EndOf(c.blocks)
  <2>1. \A r \in Block : r.text \in Seq(STRING)
    BY DEF Block
  <2>2. c.blocks \in Seq(Block)
    BY <1>1 DEF Document
  <2>3. TextsOf(c.blocks) \in Seq(Seq(STRING)) /\ N \in Nat
    BY <2>1, <2>2, TextsTypes
  <2> HIDE DEF N
  <2>4. ASSUME NEW b \in 1 .. N + 1
        PROVE  /\ Offset(TextsOf(c.blocks), b) \in Nat /\ Offset(TextsOf(c.blocks), N + 1) \in Nat
               /\ Offset(TextsOf(c.blocks), b) <= Offset(TextsOf(c.blocks), N + 1)
    <3>1. b \in Nat /\ N + 1 \in Nat /\ b <= N + 1
      BY <2>3
    <3> QED
      BY <2>3, <3>1, OffsetGrows
  <2>5. N + 1 \in 1 .. N + 1
    BY <2>3
  <2> QED
    BY <2>4, <2>5 DEF EndOf, N
<1>5. /\ EndOf(its) \in Nat
      /\ \A i \in 1 .. n + 1 : Offset(TextsOf(jts), i) = Offset(TextsOf(its), i)
      /\ Offset(TextsOf(jts), n + 1) = EndOf(its)
      /\ EndOf(jts) = EndOf(its) + Len(line.text)
  BY ItemAppend
<1>6. /\ \A k \in 1 .. n : jts[k] = its[k]
      /\ jts[n + 1] = line /\ Len(jts) = n + 1 /\ n \in Nat
      /\ \A i \in 0 .. n : Over(jts, i) = Over(its, i)
      /\ Over(jts, n + 1) = Over(its, n)
  BY OverNext
<1>7. /\ \A path : \A i \in 0 .. n : PathOK(its, path, i) => PathOK(jts, path, i)
      /\ PathOK(jts, c.headings, n + 1)
  BY <1>3, PathKept
<1>8. N \in Nat
  BY <1>1, LenProperties DEF Document
<1> HIDE DEF N, n, jts
<1>9. EndOf(jts) = EndOf(d.blocks) + Len(d.parts)
  <2>1. EndOf(c.blocks) \in Nat /\ EndOf(d.blocks) = EndOf(c.blocks)
    BY <1>4
  <2>2. EndOf(jts) = (EndOf(c.blocks) + Len(c.parts)) + Len(line.text)
    BY <1>3, <1>5
  <2>3. \A e, p, l \in Nat : (e + p) + l = e + (p + l)
    OBVIOUS
  <2>4. (EndOf(c.blocks) + Len(c.parts)) + Len(line.text)
          = EndOf(c.blocks) + (Len(c.parts) + Len(line.text))
    BY <1>2, <2>1, <2>3
  <2>5. Len(d.parts) = Len(c.parts) + Len(line.text)
    BY <1>2
  <2> QED
    BY ONLY <2>1, <2>2, <2>4, <2>5
<1>10. ASSUME NEW b \in 1 .. N, NEW i \in 1 .. n + 1, OriginIn(c.blocks, jts, b, i)
       PROVE  PathOK(jts, c.blocks[b].path, i)
  <2>1. CASE i = n + 1
    <3>1. b \in 1 .. N + 1 /\ b + 1 \in 1 .. N + 1
      BY <1>8
    <3>2. /\ Offset(TextsOf(c.blocks), b) \in Nat /\ Offset(TextsOf(c.blocks), b + 1) \in Nat
          /\ Offset(TextsOf(c.blocks), b + 1) <= EndOf(c.blocks) /\ EndOf(c.blocks) \in Nat
      BY <1>4, <3>1
    <3>3. Offset(TextsOf(jts), i) <= Offset(TextsOf(c.blocks), b + 1) - 1
      BY <1>10, <3>2 DEF OriginIn
    <3>4. FALSE
      BY <1>2, <1>3, <1>5, <2>1, <3>2, <3>3
    <3> QED
      BY <3>4
  <2>2. CASE i # n + 1
    <3>1. i \in 1 .. n /\ i \in 1 .. n + 1 /\ i \in 0 .. n
      BY <1>6, <2>2
    <3>2. OriginIn(c.blocks, its, b, i)
      BY <1>5, <1>6, <1>10, <3>1 DEF OriginIn
    <3> QED
      BY <1>3, <1>7, <3>1, <3>2
  <2> QED
    BY <2>1, <2>2
<1>11. ASSUME NEW i \in 1 .. n + 1, jts[i].text # <<>>,
              Offset(TextsOf(jts), i) >= EndOf(c.blocks)
       PROVE  Over(jts, i) = Over(jts, n + 1)
  <2>1. CASE i # n + 1
    <3>1. i \in 1 .. n /\ i \in 0 .. n
      BY <1>6, <2>1
    <3>2. its[i].text # <<>> /\ Offset(TextsOf(its), i) >= EndOf(c.blocks)
      BY <1>5, <1>6, <1>11, <3>1
    <3> QED
      BY <1>3, <1>6, <3>1, <3>2
  <2> QED
    BY <2>1
<1> QED
  BY <1>6, <1>7, <1>9, <1>10, <1>11 DEF OutlineOK, jts, N

\* The outline is kept by a flush, and by every line.
LEMMA FlushOutline ==
    ASSUME NEW its \in Seq(MarkdownLine), NEW c \in Collector, OutlineOK(its, c)
    PROVE  OutlineOK(its, Flush(c))
<1> DEFINE d == Flush(c)
<1>1. /\ d \in Collector /\ d.parts = <<>>
      /\ d.blocks = Add(c, c.parts, 0, 0).blocks
      /\ d.headings = Add(c, c.parts, 0, 0).headings
  BY FlushText
<1> HIDE DEF d
<1>2. CASE c.parts = <<>>
  <2>1. d.blocks = c.blocks /\ d.headings = c.headings /\ d.parts = c.parts
    BY <1>1, <1>2, AddEmpty
  <2> QED
    BY <2>1 DEF OutlineOK, d
<1>3. CASE c.parts # <<>>
  <2> DEFINE x == [text |-> c.parts, path |-> AddedPath(c, c.parts, 0), page |-> 0]
             e == Add(c, c.parts, 0, 0)
  <2>1. c.parts \in Seq(STRING) \ {<<>>} /\ 0 \in Nat
    BY <1>3, CollectorTypes
  <2>2. /\ e.blocks = Append(c.blocks, x) /\ e.headings = AddedPath(c, c.parts, 0)
        /\ x \in Block
    BY <2>1, AddBlock
  <2>3. AddedPath(c, c.parts, 0) = c.headings
    BY DEF AddedPath
  <2>4. x.text = c.parts /\ x.path = c.headings
    BY <2>3
  <2>5. d.blocks = Append(c.blocks, x) /\ d.headings = c.headings
    BY <1>1, <2>2, <2>3
  <2> HIDE DEF x, e
  <2>6. OutlineOK(its, d)
    BY <1>1, <2>2, <2>4, <2>5, ParagraphOutline
  <2> QED
    BY <2>6 DEF d
<1> QED
  BY <1>2, <1>3

LEMMA OnLineOutline ==
    ASSUME NEW its \in Seq(MarkdownLine), NEW c \in Collector, OutlineOK(its, c),
           NEW line \in MarkdownLine
    PROVE  OutlineOK(Append(its, line), OnLine(c, line))
<1> DEFINE f == Flush(c)
<1>1. f \in Collector /\ OutlineOK(its, f) /\ f.parts = <<>>
  BY FlushOutline, FlushText
<1> HIDE DEF f
<1>2. /\ line.kind \in {"heading", "item", "text", "blank"}
      /\ line.text \in Seq(STRING)
      /\ line.level \in Nat
      /\ line.kind # "heading" => line.level = 0
      /\ line.text = <<>> <=> line.kind = "blank"
  BY LineKinds
<1>3. PathOK(its, f.headings, Len(its))
  BY <1>1 DEF OutlineOK
<1>4. CASE line.kind \in {"heading", "item"}
  <2> DEFINE path == AddedPath(f, line.text, line.level)
             x == [text |-> line.text, path |-> path, page |-> 0]
             d == Add(f, line.text, line.level, 0)
  <2>1. line.text \in Seq(STRING) \ {<<>>} /\ line.level \in Nat /\ 0 \in Nat
    BY <1>2, <1>4
  <2>2. /\ d.blocks = Append(f.blocks, x) /\ d.headings = path
        /\ x \in Block /\ d.parts = f.parts
    BY <1>1, <2>1, AddBlock
  <2>3. OnLine(c, line) = d
    <3>1. CASE line.kind = "heading"
      BY <3>1 DEF OnLine, f
    <3>2. CASE line.kind = "item"
      <4>1. line.level = 0
        BY <1>2, <3>2
      <4> QED
        BY <3>2, <4>1 DEF OnLine, f
    <3> QED
      BY <1>4, <3>1, <3>2
  <2>4. PathOK(Append(its, line), path, Len(its) + 1)
    <3>1. CASE line.kind = "heading"
      BY <1>1, <1>3, <3>1, HeadingPath
    <3>2. CASE line.kind = "item"
      <4>1. path = f.headings
        BY <1>2, <3>2 DEF AddedPath
      <4> QED
        BY <1>3, <3>2, <4>1, PathKept
    <3> QED
      BY <1>4, <3>1, <3>2
  <2>5. x.text = line.text /\ x.path = path
    OBVIOUS
  <2> HIDE DEF x, d, path
  <2>6. OutlineOK(Append(its, line), d)
    BY <1>1, <2>1, <2>2, <2>4, <2>5, BlockOutline
  <2> QED
    BY <2>3, <2>6
<1>5. CASE line.kind = "blank"
  <2>1. OnLine(c, line) = f
    BY <1>5 DEF OnLine, f
  <2>2. f.parts = f.parts \o line.text
    BY <1>1, <1>2, <1>5, EmptySeq, ConcatEmptySeq
  <2>3. OutlineOK(Append(its, line), f)
    BY <1>1, <1>5, <2>2, LineOutline
  <2> QED
    BY <2>1, <2>3
<1>6. CASE line.kind = "text"
  <2> DEFINE d == OnLine(c, line)
  <2>1. d = [c EXCEPT !.parts = c.parts \o line.text]
    BY <1>6 DEF OnLine
  <2>2. d.blocks = c.blocks /\ d.headings = c.headings /\ d.parts = c.parts \o line.text
    BY <2>1 DEF Collector
  <2> HIDE DEF d
  <2>3. OutlineOK(Append(its, line), d)
    BY <1>6, <2>2, LineOutline
  <2> QED
    BY <2>3 DEF d
<1> QED
  BY <1>2, <1>4, <1>5, <1>6

\* Nothing is collected of no items.
LEMMA OutlineEmpty ==
    ASSUME NEW c, c.blocks = <<>>, c.headings = <<>>, c.parts = <<>>
    PROVE  OutlineOK(<<>>, c)
<1>1. Len(<<>>) = 0 /\ 1 .. 0 = {} /\ DOMAIN <<>> = {}
  OBVIOUS
<1>2. EndOf(<<>>) \in Nat
  BY EmptySeq, ItemEnds
<1>3. Over(<<>>, 0) = {}
  BY <1>1 DEF Over
<1>4. PathOK(<<>>, <<>>, 0)
  BY <1>1, <1>3 DEF PathOK
<1> QED
  BY <1>1, <1>2, <1>4 DEF OutlineOK

\* In a Markdown source, what the parser has collected is what the property speaks of.
LEMMA OutlineOfDocument ==
    ASSUME items \in Seq(MarkdownLine), blocks \in Document, NEW c, OutlineOK(items, c),
           blocks = c.blocks
    PROVE  \A b \in DOMAIN blocks : \A i \in Items :
               Origin(b, i) =>
                   /\ {Item(k).text : k \in Ancestors(i)} \subseteq ToSet(blocks[b].path)
                   /\ NoLevelSkipped =>
                         {<<Item(k).level, Item(k).text>> : k \in Ancestors(i)}
                             = {<<n, blocks[b].path[n]>> : n \in DOMAIN blocks[b].path}
<1> SUFFICES ASSUME NEW b \in DOMAIN blocks, NEW i \in Items, Origin(b, i)
             PROVE  /\ {Item(k).text : k \in Ancestors(i)} \subseteq ToSet(blocks[b].path)
                    /\ NoLevelSkipped =>
                          {<<Item(k).level, Item(k).text>> : k \in Ancestors(i)}
                              = {<<n, blocks[b].path[n]>> : n \in DOMAIN blocks[b].path}
  OBVIOUS
<1> DEFINE path == blocks[b].path
<1>1. b \in 1 .. Len(blocks) /\ i \in 1 .. Len(items) /\ Items = 1 .. Len(items)
  BY LenProperties DEF Document, Items
<1>2. Ancestors(i) = Over(items, i)
  BY DEF Ancestors, Over, IsHeading, HeadingAt, Item
<1>3. NoLevelSkipped <=> Gapless(items)
  BY <1>1 DEF NoLevelSkipped, Gapless, IsHeading, HeadingAt, Item
<1>4. OriginIn(blocks, items, b, i)
  BY DEF Origin, OriginIn, TextsOf, Texts, Item, Items
<1>5. PathOK(items, path, i)
  BY <1>1, <1>4 DEF OutlineOK
<1> HIDE DEF path
<1>6. {Item(k).text : k \in Ancestors(i)} \subseteq ToSet(path)
  BY <1>2, <1>5 DEF PathOK, Item, ToSet
<1>7. ASSUME NoLevelSkipped
      PROVE  {<<Item(k).level, Item(k).text>> : k \in Ancestors(i)}
                 = {<<n, path[n]>> : n \in DOMAIN path}
  <2>1. /\ \A k \in Over(items, i) : /\ items[k].level \in DOMAIN path
                                     /\ path[items[k].level] = items[k].text
        /\ \A n \in DOMAIN path : \E k \in Over(items, i) : items[k].level = n
    BY <1>3, <1>5, <1>7 DEF PathOK
  <2>2. ASSUME NEW k \in Ancestors(i)
        PROVE  \E n \in DOMAIN path : <<Item(k).level, Item(k).text>> = <<n, path[n]>>
    BY <1>2, <2>1 DEF Item
  <2>3. ASSUME NEW n \in DOMAIN path
        PROVE  \E k \in Ancestors(i) : <<Item(k).level, Item(k).text>> = <<n, path[n]>>
    BY <1>2, <2>1 DEF Item
  <2> QED
    BY <2>2, <2>3
<1> QED
  BY <1>6, <1>7 DEF path

---------------------------------------------------------------------------
(* Texts of which some tokens are left out. *)

\* s is in t, with gaps: token i of s is token f[i] of t.
Embeds(s, t) ==
    \E f \in [1 .. Len(s) -> 1 .. Len(t)] :
        /\ \A i, j \in 1 .. Len(s) : i < j => f[i] < f[j]
        /\ \A i \in 1 .. Len(s) : t[f[i]] = s[i]

LEMMA EmbedsNothing == ASSUME NEW t \in Seq(STRING) PROVE Embeds(<<>>, t)
<1> DEFINE f == [i \in 1 .. 0 |-> 1]
<1>1. 1 .. 0 = {} /\ Len(<<>>) = 0
  OBVIOUS
<1>2. f \in [1 .. Len(<<>>) -> 1 .. Len(t)]
  BY <1>1
<1> QED
  BY <1>1, <1>2 DEF Embeds

\* t may go on alone, or both with the same tokens; and s may end before.
LEMMA EmbedsMore ==
    ASSUME NEW s \in Seq(STRING), NEW t \in Seq(STRING), NEW u \in Seq(STRING), Embeds(s, t)
    PROVE  Embeds(s, t \o u)
<1>1. PICK f \in [1 .. Len(s) -> 1 .. Len(t)] :
         /\ \A i, j \in 1 .. Len(s) : i < j => f[i] < f[j]
         /\ \A i \in 1 .. Len(s) : t[f[i]] = s[i]
  BY DEF Embeds
<1> DEFINE v == t \o u
<1>2. /\ Len(s) \in Nat /\ Len(t) \in Nat /\ Len(u) \in Nat
      /\ Len(v) = Len(t) + Len(u) /\ \A i \in 1 .. Len(t) : v[i] = t[i]
  BY LenProperties, ConcatProperties
<1> HIDE DEF v
<1>3. 1 .. Len(t) \subseteq 1 .. Len(v)
  BY <1>2
<1>4. f \in [1 .. Len(s) -> 1 .. Len(v)]
  BY <1>3
<1>5. \A i \in 1 .. Len(s) : v[f[i]] = s[i]
  BY <1>1, <1>2
<1>6. Embeds(s, v)
  BY <1>1, <1>4, <1>5 DEF Embeds
<1> QED
  BY <1>6 DEF v

LEMMA EmbedsBoth ==
    ASSUME NEW s \in Seq(STRING), NEW t \in Seq(STRING), NEW u \in Seq(STRING), Embeds(s, t)
    PROVE  Embeds(s \o u, t \o u)
<1>1. PICK f \in [1 .. Len(s) -> 1 .. Len(t)] :
         /\ \A i, j \in 1 .. Len(s) : i < j => f[i] < f[j]
         /\ \A i \in 1 .. Len(s) : t[f[i]] = s[i]
  BY DEF Embeds
<1> DEFINE v == t \o u
           w == s \o u
           m == Len(s)
           n == Len(t)
           k == Len(u)
           g == [i \in 1 .. m + k |-> IF i <= m THEN f[i] ELSE n + (i - m)]
<1>2. /\ m \in Nat /\ n \in Nat /\ k \in Nat
      /\ Len(v) = n + k /\ \A i \in 1 .. n + k : v[i] = IF i <= n THEN t[i] ELSE u[i - n]
      /\ Len(w) = m + k /\ \A i \in 1 .. m + k : w[i] = IF i <= m THEN s[i] ELSE u[i - m]
  BY LenProperties, ConcatProperties
<1> HIDE DEF v, w, m, n, k
<1>3. /\ f \in [1 .. m -> 1 .. n]
      /\ \A i, j \in 1 .. m : i < j => f[i] < f[j]
      /\ \A i \in 1 .. m : t[f[i]] = s[i]
  BY <1>1 DEF m, n
<1>4. ASSUME NEW i \in 1 .. m + k
      PROVE  /\ i <= m => i \in 1 .. m /\ g[i] = f[i] /\ f[i] \in 1 .. n
             /\ i > m => g[i] = n + (i - m)
             /\ g[i] \in 1 .. n + k
  BY <1>2, <1>3
<1>5. g \in [1 .. Len(w) -> 1 .. Len(v)]
  BY <1>2, <1>4
<1>6. ASSUME NEW i \in 1 .. m + k, NEW j \in 1 .. m + k, i < j PROVE g[i] < g[j]
  <2>1. CASE j <= m
    <3>1. i <= m /\ i \in Nat /\ j \in Nat
      BY <1>2, <1>6, <2>1
    <3> QED
      BY <1>3, <1>4, <1>6, <2>1, <3>1
  <2>2. CASE j > m
    <3>1. CASE i <= m
      <4>1. g[i] <= n /\ g[i] \in Nat /\ g[j] = n + (j - m) /\ j - m >= 1
        BY <1>2, <1>4, <2>2, <3>1
      <4> QED
        BY <1>2, <4>1
    <3>2. CASE i > m
      <4>1. g[i] = n + (i - m) /\ g[j] = n + (j - m)
        BY <1>4, <2>2, <3>2
      <4> QED
        BY <1>2, <1>6, <4>1
    <3> QED
      BY <1>2, <3>1, <3>2
  <2> QED
    BY <1>2, <2>1, <2>2
<1>7. ASSUME NEW i \in 1 .. m + k PROVE v[g[i]] = w[i]
  <2>1. CASE i <= m
    <3>1. i \in 1 .. m /\ g[i] = f[i] /\ f[i] \in 1 .. n /\ f[i] \in 1 .. n + k /\ f[i] <= n
      BY <1>2, <1>4, <2>1
    <3>2. v[g[i]] = t[f[i]] /\ w[i] = s[i]
      BY <1>2, <2>1, <3>1
    <3> QED
      BY <1>3, <3>1, <3>2
  <2>2. CASE i > m
    <3>1. g[i] = n + (i - m) /\ g[i] \in 1 .. n + k /\ ~(g[i] <= n) /\ g[i] - n = i - m
          /\ ~(i <= m)
      BY <1>2, <1>4, <2>2
    <3> QED
      BY <1>2, <3>1
  <2> QED
    BY <1>2, <2>1, <2>2
<1> HIDE DEF g
<1>8. /\ \A i, j \in 1 .. Len(w) : i < j => g[i] < g[j]
      /\ \A i \in 1 .. Len(w) : v[g[i]] = w[i]
  BY <1>2, <1>6, <1>7
<1>9. Embeds(w, v)
  BY <1>5, <1>8 DEF Embeds
<1> QED
  BY <1>9 DEF v, w

LEMMA EmbedsLess ==
    ASSUME NEW s \in Seq(STRING), NEW t \in Seq(STRING), NEW u \in Seq(STRING),
           Embeds(s \o u, t)
    PROVE  Embeds(s, t)
<1> DEFINE w == s \o u
<1>1. /\ Len(s) \in Nat /\ Len(u) \in Nat
      /\ Len(w) = Len(s) + Len(u) /\ \A i \in 1 .. Len(s) : w[i] = s[i]
  BY LenProperties, ConcatProperties
<1>2. PICK f \in [1 .. Len(w) -> 1 .. Len(t)] :
         /\ \A i, j \in 1 .. Len(w) : i < j => f[i] < f[j]
         /\ \A i \in 1 .. Len(w) : t[f[i]] = w[i]
  BY DEF Embeds
<1> HIDE DEF w
<1> DEFINE g == [i \in 1 .. Len(s) |-> f[i]]
<1>3. 1 .. Len(s) \subseteq 1 .. Len(w)
  BY <1>1
<1>4. g \in [1 .. Len(s) -> 1 .. Len(t)]
  BY <1>3
<1>5. \A i, j \in 1 .. Len(s) : i < j => g[i] < g[j]
  BY <1>2, <1>3
<1>6. \A i \in 1 .. Len(s) : t[g[i]] = s[i]
  BY <1>1, <1>2, <1>3
<1> QED
  BY <1>4, <1>5, <1>6 DEF Embeds

\* The kept tokens keep their ranks.
LEMMA EmbedsIsSubsequence ==
    ASSUME NEW s \in Seq(STRING), NEW t \in Seq(STRING), Embeds(s, t)
    PROVE  Subsequence(s, t)
<1>1. PICK f \in [1 .. Len(s) -> 1 .. Len(t)] :
         /\ \A i, j \in 1 .. Len(s) : i < j => f[i] < f[j]
         /\ \A i \in 1 .. Len(s) : t[f[i]] = s[i]
  BY DEF Embeds
<1> DEFINE m == Len(s)
           kept == {f[i] : i \in 1 .. m}
<1>2. m \in Nat /\ DOMAIN t = 1 .. Len(t) /\ Len(t) \in Nat
  BY LenProperties
<1> HIDE DEF m
<1>3. kept \in SUBSET DOMAIN t
  BY <1>1, <1>2 DEF m
<1>4. ASSUME NEW i \in 0 .. m
      PROVE  /\ IsFiniteSet({f[j] : j \in 1 .. i})
             /\ Cardinality({f[j] : j \in 1 .. i}) = i
  <2> DEFINE S == {f[j] : j \in 1 .. i}
             g == [j \in 1 .. i |-> f[j]]
  <2>1. 1 .. i \subseteq 1 .. m
    BY <1>2
  <2>2. \A j, k \in 1 .. i : f[j] = f[k] => j = k
    <3> SUFFICES ASSUME NEW j \in 1 .. i, NEW k \in 1 .. i, f[j] = f[k] PROVE j = k
      OBVIOUS
    <3>1. j \in 1 .. m /\ k \in 1 .. m /\ f[j] \in Nat /\ f[k] \in Nat
      BY <1>1, <1>2, <2>1 DEF m
    <3>2. ~(j < k) /\ ~(k < j)
      BY <1>1, <3>1 DEF m
    <3> QED
      BY <3>1, <3>2
  <2>3. g \in Bijection(1 .. i, S)
    <3>1. g \in [1 .. i -> S]
      OBVIOUS
    <3>2. \A j, k \in 1 .. i : g[j] = g[k] => j = k
      BY <2>2
    <3>3. \A y \in S : \E j \in 1 .. i : g[j] = y
      OBVIOUS
    <3> HIDE DEF g, S
    <3> QED
      BY <3>1, <3>2, <3>3 DEF Bijection, Injection, Surjection, IsInjective
  <2>4. ExistsBijection(1 .. i, S)
    BY <2>3 DEF ExistsBijection
  <2>5. i \in Int /\ 1 \in Int
    BY <1>2
  <2>6. IsFiniteSet(1 .. i) /\ Cardinality(1 .. i) = i
    <3>1. IsFiniteSet(1 .. i) /\ Cardinality(1 .. i) = IF 1 > i THEN 0 ELSE i - 1 + 1
      BY ONLY <2>5, FS_Interval
    <3>2. i \in Nat
      BY <1>2
    <3> QED
      BY <3>1, <3>2
  <2> HIDE DEF S
  <2>7. IsFiniteSet(S) /\ Cardinality(S) = i
    BY <2>4, <2>6, FS_Bijection
  <2> QED
    BY <2>7 DEF S
<1>5. Cardinality(kept) = Len(s)
  <2>1. m \in 0 .. m
    BY <1>2
  <2> QED
    BY <1>4, <2>1 DEF m
<1>6. ASSUME NEW p \in kept
      PROVE  t[p] = s[Cardinality({q \in kept : q <= p})]
  <2>1. PICK i \in 1 .. m : p = f[i]
    OBVIOUS
  <2>2. {q \in kept : q <= p} = {f[j] : j \in 1 .. i}
    <3>1. ASSUME NEW j \in 1 .. m PROVE f[j] <= f[i] <=> j <= i
      <4>1. f[j] \in Nat /\ f[i] \in Nat /\ j \in Nat /\ i \in Nat
        BY <1>1, <1>2 DEF m
      <4>2. (i < j => f[i] < f[j]) /\ (j < i => f[j] < f[i])
        BY <1>1 DEF m
      <4> QED
        BY <4>1, <4>2
    <3>2. \A j : j \in 1 .. i <=> (j \in 1 .. m /\ j <= i)
      BY <1>2
    <3> QED
      BY <2>1, <3>1, <3>2
  <2>3. Cardinality({q \in kept : q <= p}) = i
    <3>1. i \in 0 .. m
      BY <1>2
    <3> QED
      BY <1>4, <2>2, <3>1
  <2> QED
    BY <1>1, <2>1, <2>3 DEF m
<1> HIDE DEF kept
<1> QED
  BY <1>3, <1>5, <1>6 DEF Subsequence

---------------------------------------------------------------------------
(* Events: nesting. *)

\* Depth, StillOpen, Inside and WellNested of any sequence of events.
KindCount(its, kind, n) == Cardinality({k \in 1 .. n : its[k].kind = kind})
DepthOf(its, n) == KindCount(its, "open", n) - KindCount(its, "close", n)
Change(event) == IF event.kind = "open" THEN 1 ELSE IF event.kind = "close" THEN -1 ELSE 0

OpenIn(its, i, n) ==
    its[i].kind = "open" /\ \A k \in i .. n : DepthOf(its, k) >= DepthOf(its, i)
InsideOf(its, n) == \E i \in 1 .. n : OpenIn(its, i, n) /\ its[i].tag \in CaptureTags

\* An end tag closes the innermost open element; it need not be the last event.
NestedOf(its) ==
    \A n \in 1 .. Len(its) : its[n].kind = "close" =>
        \E i \in 1 .. n - 1 : /\ OpenIn(its, i, n - 1) /\ DepthOf(its, i) = DepthOf(its, n - 1)
                              /\ its[i].tag = its[n].tag

\* The text that counts in a well-nested source.
CountedAt(its, i) == IF InsideOf(its, i) THEN its[i].text ELSE <<>>
CountedOf(its) == FlattenSeq([i \in DOMAIN its |-> CountedAt(its, i)])

\* What one more event is to the counts and to the depth.
LEMMA CountNext ==
    ASSUME NEW its, NEW kind, NEW n \in Nat
    PROVE  /\ KindCount(its, kind, n) \in Nat
           /\ KindCount(its, kind, n + 1)
                 = KindCount(its, kind, n) + IF its[n + 1].kind = kind THEN 1 ELSE 0
<1> DEFINE A == {k \in 1 .. n : its[k].kind = kind}
           B == {k \in 1 .. n + 1 : its[k].kind = kind}
<1>1. IsFiniteSet(1 .. n)
  BY FS_Interval
<1>2. IsFiniteSet(A)
  BY <1>1, FS_Subset
<1>3. 1 .. n + 1 = (1 .. n) \cup {n + 1} /\ n + 1 \notin 1 .. n
  OBVIOUS
<1>4. B = IF its[n + 1].kind = kind THEN A \cup {n + 1} ELSE A
  BY <1>3
<1>5. n + 1 \notin A
  BY <1>3
<1> HIDE DEF A, B
<1>6. /\ Cardinality(A) \in Nat
      /\ Cardinality(A \cup {n + 1}) = Cardinality(A) + 1
  BY <1>2, <1>5, FS_AddElement, FS_CardinalityType
<1>7. KindCount(its, kind, n) = Cardinality(A) /\ KindCount(its, kind, n + 1) = Cardinality(B)
  BY DEF KindCount, A, B
<1> QED
  BY <1>4, <1>6, <1>7

LEMMA DepthNext ==
    ASSUME NEW its, NEW n \in Nat
    PROVE  /\ DepthOf(its, n) \in Int /\ DepthOf(its, n + 1) \in Int
           /\ DepthOf(its, n + 1) = DepthOf(its, n) + Change(its[n + 1])
<1> DEFINE o == KindCount(its, "open", n)
           c == KindCount(its, "close", n)
<1>1. /\ o \in Nat
      /\ KindCount(its, "open", n + 1) = o + IF its[n + 1].kind = "open" THEN 1 ELSE 0
  BY CountNext
<1>2. /\ c \in Nat
      /\ KindCount(its, "close", n + 1) = c + IF its[n + 1].kind = "close" THEN 1 ELSE 0
  BY CountNext
<1>3. DepthOf(its, n) = o - c
  BY DEF DepthOf
<1> HIDE DEF o, c
<1> QED
  BY <1>1, <1>2, <1>3 DEF DepthOf, Change

LEMMA DepthStart == ASSUME NEW its PROVE DepthOf(its, 0) = 0
<1>1. \A kind : {k \in 1 .. 0 : its[k].kind = kind} = {}
  OBVIOUS
<1>2. \A kind : KindCount(its, kind, 0) = 0
  BY <1>1, FS_EmptySet DEF KindCount
<1> QED
  BY <1>2 DEF DepthOf

LEMMA EventKinds ==
    ASSUME NEW event \in HtmlEvent
    PROVE  /\ event.kind \in {"open", "close", "data"}
           /\ event.text \in Seq(STRING)
           /\ event.kind # "data" => event.text = <<>>
  BY EmptySeq DEF HtmlEvent

LEMMA EventAppend ==
    ASSUME NEW its \in Seq(HtmlEvent), NEW x \in HtmlEvent
    PROVE  LET jts == Append(its, x)
               n == Len(its)
           IN  /\ \A k \in 1 .. n : jts[k] = its[k]
               /\ jts[n + 1] = x /\ Len(jts) = n + 1 /\ n \in Nat
               /\ \A k \in 0 .. n : DepthOf(jts, k) = DepthOf(its, k)
               /\ DepthOf(jts, n + 1) = DepthOf(its, n) + Change(x)
               /\ DepthOf(its, n) \in Int
<1> DEFINE jts == Append(its, x)
           n == Len(its)
<1>1. /\ \A k \in 1 .. n : jts[k] = its[k]
      /\ jts[n + 1] = x /\ Len(jts) = n + 1 /\ n \in Nat
  BY AppendProperties, LenProperties
<1> HIDE DEF jts, n
<1>2. ASSUME NEW k \in 0 .. n PROVE DepthOf(jts, k) = DepthOf(its, k)
  <2>1. \A i \in 1 .. k : jts[i] = its[i]
    BY <1>1
  <2>2. \A kind : {i \in 1 .. k : jts[i].kind = kind} = {i \in 1 .. k : its[i].kind = kind}
    BY <2>1
  <2> QED
    BY <2>2 DEF DepthOf, KindCount
<1>3. DepthOf(jts, n + 1) = DepthOf(jts, n) + Change(x) /\ DepthOf(jts, n) \in Int
  BY <1>1, DepthNext
<1>4. n \in 0 .. n
  BY <1>1
<1> QED
  BY <1>1, <1>2, <1>3, <1>4 DEF jts, n

\* What another event opens and closes.
LEMMA OpenNext ==
    ASSUME NEW its \in Seq(HtmlEvent), NEW x \in HtmlEvent
    PROVE  LET jts == Append(its, x)
               n == Len(its)
           IN  /\ \A m \in 0 .. n : \A i \in 1 .. m : OpenIn(jts, i, m) <=> OpenIn(its, i, m)
               /\ \A m \in 0 .. n : InsideOf(jts, m) <=> InsideOf(its, m)
               /\ \A i \in 1 .. n : OpenIn(jts, i, n + 1) <=>
                     OpenIn(its, i, n) /\ DepthOf(jts, n + 1) >= DepthOf(its, i)
               /\ OpenIn(jts, n + 1, n + 1) <=> x.kind = "open"
               /\ NestedOf(jts) => NestedOf(its)
               /\ NestedOf(jts) /\ x.kind = "close" =>
                     \E i \in 1 .. n : /\ OpenIn(its, i, n) /\ DepthOf(its, i) = DepthOf(its, n)
                                       /\ its[i].tag = x.tag
<1> DEFINE jts == Append(its, x)
           n == Len(its)
<1>1. /\ \A k \in 1 .. n : jts[k] = its[k]
      /\ jts[n + 1] = x /\ Len(jts) = n + 1 /\ n \in Nat
      /\ \A k \in 0 .. n : DepthOf(jts, k) = DepthOf(its, k)
      /\ DepthOf(jts, n + 1) = DepthOf(its, n) + Change(x)
      /\ DepthOf(its, n) \in Int
  BY EventAppend
<1> HIDE DEF jts, n
<1>2. ASSUME NEW m \in 0 .. n, NEW i \in 1 .. m PROVE OpenIn(jts, i, m) <=> OpenIn(its, i, m)
  <2>1. i \in 1 .. n /\ i \in 0 .. n /\ \A k \in i .. m : k \in 0 .. n
    BY <1>1
  <2> QED
    BY <1>1, <2>1 DEF OpenIn
<1>3. ASSUME NEW m \in 0 .. n PROVE InsideOf(jts, m) <=> InsideOf(its, m)
  <2>1. \A i \in 1 .. m : jts[i] = its[i]
    BY <1>1
  <2> QED
    BY <1>2, <2>1 DEF InsideOf
<1>4. ASSUME NEW i \in 1 .. n
      PROVE  OpenIn(jts, i, n + 1) <=>
                OpenIn(its, i, n) /\ DepthOf(jts, n + 1) >= DepthOf(its, i)
  <2>1. i .. n + 1 = (i .. n) \cup {n + 1} /\ i \in 0 .. n /\ \A k \in i .. n : k \in 0 .. n
    BY <1>1
  <2>2. (\A k \in i .. n + 1 : DepthOf(jts, k) >= DepthOf(jts, i))
        <=> /\ \A k \in i .. n : DepthOf(jts, k) >= DepthOf(jts, i)
            /\ DepthOf(jts, n + 1) >= DepthOf(jts, i)
    BY <2>1
  <2> QED
    BY <1>1, <2>1, <2>2 DEF OpenIn
<1>5. OpenIn(jts, n + 1, n + 1) <=> x.kind = "open"
  <2>1. n + 1 .. n + 1 = {n + 1} /\ DepthOf(jts, n + 1) \in Int
    BY <1>1 DEF Change
  <2> QED
    BY <1>1, <2>1 DEF OpenIn
<1>6. ASSUME NestedOf(jts), NEW m \in 1 .. n + 1, jts[m].kind = "close"
      PROVE  \E i \in 1 .. m - 1 : /\ OpenIn(its, i, m - 1)
                                   /\ DepthOf(its, i) = DepthOf(its, m - 1)
                                   /\ its[i].tag = jts[m].tag
  <2>1. PICK i \in 1 .. m - 1 : /\ OpenIn(jts, i, m - 1)
                                /\ DepthOf(jts, i) = DepthOf(jts, m - 1)
                                /\ jts[i].tag = jts[m].tag
    BY <1>1, <1>6 DEF NestedOf
  <2>2. m - 1 \in 0 .. n /\ i \in 0 .. n /\ i \in 1 .. n
    BY <1>1
  <2> QED
    BY <1>1, <1>2, <2>1, <2>2
<1>7. ASSUME NestedOf(jts) PROVE NestedOf(its)
  <2> SUFFICES ASSUME NEW m \in 1 .. n, its[m].kind = "close"
               PROVE  \E i \in 1 .. m - 1 : /\ OpenIn(its, i, m - 1)
                                            /\ DepthOf(its, i) = DepthOf(its, m - 1)
                                            /\ its[i].tag = its[m].tag
    BY DEF NestedOf, n
  <2>1. m \in 1 .. n + 1 /\ jts[m] = its[m]
    BY <1>1
  <2> QED
    BY <1>6, <1>7, <2>1
<1>8. ASSUME NestedOf(jts), x.kind = "close"
      PROVE  \E i \in 1 .. n : /\ OpenIn(its, i, n) /\ DepthOf(its, i) = DepthOf(its, n)
                               /\ its[i].tag = x.tag
  <2>1. n + 1 \in 1 .. n + 1 /\ (n + 1) - 1 = n /\ jts[n + 1].kind = "close"
    BY <1>1, <1>8
  <2> QED
    BY <1>1, <1>6, <1>8, <2>1
<1> QED
  BY <1>2, <1>3, <1>4, <1>5, <1>7, <1>8 DEF jts, n

\* Two elements that are open cannot have the same depth.
LEMMA OneOfDepth ==
    ASSUME NEW its, NEW n \in Nat, NEW i \in 1 .. n, NEW j \in 1 .. n,
           OpenIn(its, i, n), OpenIn(its, j, n), DepthOf(its, i) = DepthOf(its, j)
    PROVE  i = j
<1>1. ASSUME NEW a \in 1 .. n, NEW b \in 1 .. n, a < b, OpenIn(its, a, n), OpenIn(its, b, n)
      PROVE  DepthOf(its, a) < DepthOf(its, b)
  <2>1. b - 1 \in Nat /\ b - 1 \in a .. n /\ (b - 1) + 1 = b /\ a - 1 \in Nat
        /\ (a - 1) + 1 = a
    BY <1>1
  <2>2. /\ DepthOf(its, b - 1) \in Int /\ DepthOf(its, b) \in Int
        /\ DepthOf(its, b) = DepthOf(its, b - 1) + Change(its[b])
    BY <2>1, DepthNext
  <2>3. DepthOf(its, a) \in Int
    BY <2>1, DepthNext
  <2>4. Change(its[b]) = 1
    BY <1>1 DEF OpenIn, Change
  <2>5. DepthOf(its, b - 1) >= DepthOf(its, a)
    BY <1>1, <2>1 DEF OpenIn
  <2> QED
    BY <2>2, <2>3, <2>4, <2>5
<1>2. i - 1 \in Nat /\ (i - 1) + 1 = i
  OBVIOUS
<1>3. DepthOf(its, i) \in Int
  BY <1>2, DepthNext
<1>4. ~(i < j) /\ ~(j < i)
  BY <1>1, <1>3
<1> QED
  BY <1>4

\* More elements are never closed than were opened.
LEMMA NestedDepth ==
    ASSUME NEW its, Len(its) \in Nat, NestedOf(its), NEW n \in 0 .. Len(its),
           \A k \in 1 .. Len(its) : its[k].kind \in {"open", "close", "data"}
    PROVE  DepthOf(its, n) >= 0
<1> DEFINE N == {m \in Nat : m \in 0 .. Len(its) /\ ~(DepthOf(its, m) >= 0)}
<1>1. SUFFICES ASSUME N # {} PROVE FALSE
  BY DEF N
<1>2. PICK m \in N : \A k \in N : m <= k
  BY <1>1, LeastNat
<1>3. m # 0
  BY <1>2, DepthStart
<1> DEFINE p == m - 1
<1>4. p \in Nat /\ p + 1 = m /\ m \in 1 .. Len(its) /\ p \in 0 .. Len(its) /\ p < m /\ m \in Nat
  BY <1>2, <1>3
<1> HIDE DEF p
<1>5. DepthOf(its, m) = DepthOf(its, p) + Change(its[m])
      /\ DepthOf(its, p) \in Int /\ DepthOf(its, m) \in Int
  BY <1>4, DepthNext
<1>6. \A k \in 0 .. Len(its) : k < m => DepthOf(its, k) >= 0
  <2> SUFFICES ASSUME NEW k \in 0 .. Len(its), k < m, ~(DepthOf(its, k) >= 0) PROVE FALSE
    OBVIOUS
  <2>1. k \in N
    OBVIOUS
  <2>2. m <= k
    BY <1>2, <2>1
  <2> QED
    BY <1>4, <2>2
<1>7. its[m].kind = "close"
  BY <1>2, <1>4, <1>5, <1>6 DEF Change
<1>8. PICK i \in 1 .. p : OpenIn(its, i, p) /\ DepthOf(its, i) = DepthOf(its, p)
  BY <1>4, <1>7 DEF NestedOf, p
<1>9. i - 1 \in Nat /\ (i - 1) + 1 = i /\ i - 1 \in 0 .. Len(its) /\ i - 1 < m
  BY <1>4
<1>10. DepthOf(its, i) = DepthOf(its, i - 1) + Change(its[i]) /\ DepthOf(its, i - 1) \in Int
  BY <1>9, DepthNext
<1>11. Change(its[i]) = 1 /\ Change(its[m]) = -1
  BY <1>7, <1>8 DEF OpenIn, Change
<1>12. DepthOf(its, i - 1) >= 0
  BY <1>6, <1>9
<1>13. DepthOf(its, m) >= 0
  BY <1>5, <1>8, <1>10, <1>11, <1>12
<1> QED
  BY <1>2, <1>13

\* The text of another event counts when an element is open then.
LEMMA CountedNext ==
    ASSUME NEW its \in Seq(HtmlEvent), NEW x \in HtmlEvent
    PROVE  /\ CountedOf(its) \in Seq(STRING)
           /\ CountedOf(Append(its, x)) =
                 CountedOf(its) \o IF InsideOf(Append(its, x), Len(its) + 1) THEN x.text ELSE <<>>
<1> DEFINE jts == Append(its, x)
           n == Len(its)
           s == [i \in DOMAIN its |-> CountedAt(its, i)]
           t == [i \in DOMAIN jts |-> CountedAt(jts, i)]
<1>1. /\ \A k \in 1 .. n : jts[k] = its[k]
      /\ jts[n + 1] = x /\ Len(jts) = n + 1 /\ n \in Nat
      /\ \A m \in 0 .. n : InsideOf(jts, m) <=> InsideOf(its, m)
  BY EventAppend, OpenNext
<1>2. /\ DOMAIN its = 1 .. n /\ DOMAIN jts = 1 .. n + 1
      /\ \A k \in 1 .. n : its[k].text \in Seq(STRING)
      /\ x.text \in Seq(STRING) /\ <<>> \in Seq(STRING)
  <2>1. jts \in Seq(HtmlEvent)
    BY AppendProperties
  <2> QED
    BY <1>1, <2>1, ElementOfSeq, EventKinds, EmptySeq, LenProperties
<1> HIDE DEF jts, n
<1>3. \A k \in 1 .. n : CountedAt(its, k) \in Seq(STRING) /\ CountedAt(jts, k) = CountedAt(its, k)
  <2>1. \A k \in 1 .. n : k \in 0 .. n
    BY <1>1
  <2> QED
    BY <1>1, <1>2, <2>1 DEF CountedAt
<1>4. CountedAt(jts, n + 1) \in Seq(STRING)
  BY <1>1, <1>2 DEF CountedAt
<1>5. s \in Seq(Seq(STRING)) /\ Len(s) = n /\ \A k \in 1 .. n : s[k] = CountedAt(its, k)
  BY <1>1, <1>2, <1>3
<1>6. /\ t \in Seq(Seq(STRING)) /\ Len(t) = n + 1
      /\ \A k \in 1 .. n + 1 : t[k] = CountedAt(jts, k)
  <2>1. \A k \in 1 .. n + 1 : CountedAt(jts, k) \in Seq(STRING)
    <3> SUFFICES ASSUME NEW k \in 1 .. n + 1 PROVE CountedAt(jts, k) \in Seq(STRING)
      OBVIOUS
    <3>1. k \in 1 .. n \/ k = n + 1
      BY <1>1
    <3> QED
      BY <1>3, <1>4, <3>1
  <2> QED
    BY <1>1, <1>2, <2>1
<1>7. CountedOf(its) = FlattenSeq(s) /\ CountedOf(jts) = FlattenSeq(t)
  BY DEF CountedOf
<1> HIDE DEF s, t
<1>8. \A k \in 1 .. Len(s) : s[k] = t[k]
  <2>1. \A k \in 1 .. n : k \in 1 .. n + 1
    BY <1>1
  <2> QED
    BY <1>3, <1>5, <1>6, <2>1
<1>9. FlattenSeq(t) = FlattenSeq(s) \o t[n + 1]
  <2>1. Len(t) = Len(s) + 1
    BY <1>5, <1>6
  <2>2. FlattenSeq(t) = FlattenSeq(s) \o t[Len(s) + 1]
    BY <1>5, <1>6, <1>8, <2>1, FlattenLonger
  <2> QED
    BY <1>5, <2>2
<1>10. t[n + 1] = IF InsideOf(jts, n + 1) THEN x.text ELSE <<>>
  BY <1>1, <1>6 DEF CountedAt
<1>11. FlattenSeq(s) \in Seq(STRING)
  BY <1>5, FlattenTypes
<1> QED
  BY <1>7, <1>9, <1>10, <1>11 DEF jts, n

---------------------------------------------------------------------------
(* Events: what is captured. *)

\* The tokens an event adds to what was collected, and the element that is captured then.
Gain(c, event) == IF event.kind = "data" /\ c.tag # Nothing THEN event.text ELSE <<>>

\* An end tag that ends the captured element.
EndsCapture(c, event) ==
    /\ event.kind = "close" /\ c.tag # Nothing
    /\ c.depth <= 1 /\ event.tag = c.tag

\* An event adds its gain behind the other tokens, and opens or ends the capture.
LEMMA OnEventText ==
    ASSUME NEW c \in Collector, NEW event \in HtmlEvent, c.tag = Nothing => c.parts = <<>>
    PROVE  LET d == OnEvent(c, event)
           IN  /\ Text(d.blocks) \o d.parts = (Text(c.blocks) \o c.parts) \o Gain(c, event)
               /\ d.tag = Nothing => d.parts = <<>>
               /\ c.tag = Nothing /\ event.kind = "open" /\ event.tag \in CaptureTags =>
                     d.tag = event.tag /\ d.depth = 1
               /\ c.tag = Nothing /\ ~(event.kind = "open" /\ event.tag \in CaptureTags) =>
                     d.tag = Nothing
               /\ c.tag # Nothing =>
                     IF EndsCapture(c, event) THEN d.tag = Nothing
                     ELSE d.tag = c.tag /\ d.depth = c.depth + Change(event)
<1> DEFINE d == OnEvent(c, event)
           B == Text(c.blocks)
           P == c.parts
<1>1. /\ B \in Seq(STRING) /\ P \in Seq(STRING) /\ c.depth \in Int
      /\ event.kind \in {"open", "close", "data"} /\ event.text \in Seq(STRING)
      /\ c.tag \in CaptureTags \cup {Nothing}
      /\ B \o P \in Seq(STRING)
  <2>1. B \in Seq(STRING) /\ P \in Seq(STRING) /\ c.depth \in Int
    BY CollectorTypes
  <2>2. c.tag \in CaptureTags \cup {Nothing}
    BY DEF Collector, Tags
  <2> QED
    BY <2>1, <2>2, EventKinds, ConcatProperties
<1>2. B \o P = (B \o P) \o <<>> /\ B \o <<>> = B /\ <<>> \in Seq(STRING)
  <2> DEFINE q == B \o P
  <2>1. q \in Seq(STRING) /\ B \in Seq(STRING)
    BY <1>1
  <2> HIDE DEF q, B
  <2> QED
    BY <2>1, ConcatEmptySeq, EmptySeq DEF q
<1> HIDE DEF d
<1>3. CASE event.kind = "open" /\ c.tag # Nothing
  <2>1. d = [c EXCEPT !.depth = @ + 1]
    BY <1>3 DEF d, OnEvent, OnOpen
  <2>2. d.blocks = c.blocks /\ d.parts = c.parts /\ d.tag = c.tag /\ d.depth = c.depth + 1
    BY <2>1 DEF Collector
  <2> QED
    BY <1>2, <1>3, <2>2 DEF d, Gain, EndsCapture, Change
<1>4. CASE event.kind = "open" /\ c.tag = Nothing /\ event.tag \in CaptureTags
  <2>1. d = [c EXCEPT !.tag = event.tag, !.depth = 1, !.parts = <<>>]
    BY <1>4 DEF d, OnEvent, OnOpen
  <2>2. d.blocks = c.blocks /\ d.parts = <<>> /\ d.tag = event.tag /\ d.depth = 1
    BY <2>1 DEF Collector
  <2>3. P = <<>>
    BY <1>4
  <2> QED
    BY <1>2, <1>4, <2>2, <2>3 DEF d, Gain
<1>5. CASE event.kind = "open" /\ c.tag = Nothing /\ event.tag \notin CaptureTags
  <2>1. d = c
    BY <1>5 DEF d, OnEvent, OnOpen
  <2> QED
    BY <1>2, <1>5, <2>1 DEF d, Gain
<1>6. CASE event.kind = "close" /\ c.tag = Nothing
  <2>1. d = c
    BY <1>6 DEF d, OnEvent, OnClose
  <2> QED
    BY <1>2, <1>6, <2>1 DEF d, Gain
<1>7. CASE event.kind = "close" /\ c.tag # Nothing /\ ~EndsCapture(c, event)
  <2>1. d = [c EXCEPT !.depth = @ - 1]
    <3>1. c.depth > 1 \/ event.tag # c.tag
      BY <1>1, <1>7 DEF EndsCapture
    <3> QED
      BY <1>7, <3>1 DEF d, OnEvent, OnClose
  <2>2. d.blocks = c.blocks /\ d.parts = c.parts /\ d.tag = c.tag /\ d.depth = c.depth - 1
    BY <2>1 DEF Collector
  <2>3. Change(event) = -1 /\ c.depth - 1 = c.depth + (-1)
    BY <1>1, <1>7 DEF Change
  <2> QED
    BY <1>2, <1>7, <2>2, <2>3 DEF d, Gain
<1>8. CASE EndsCapture(c, event)
  <2>1. /\ event.kind = "close" /\ c.tag # Nothing /\ ~(c.depth > 1 \/ event.tag # c.tag)
        /\ event.tag \in CaptureTags
    BY <1>1, <1>8 DEF EndsCapture
  <2> DEFINE level == Level[event.tag]
             e == Add(c, P, level, 0)
  <2>2. level \in Nat
    BY <2>1 DEF CaptureTags, Level
  <2>3. d = [e EXCEPT !.tag = Nothing, !.depth = @ - 1, !.parts = <<>>]
    BY <2>1 DEF d, OnEvent, OnClose
  <2>4. e \in Collector /\ Text(e.blocks) = B \o P
    <3>1. P \in Seq(STRING) /\ level \in Nat /\ 0 \in Nat
      BY <1>1, <2>2
    <3> HIDE DEF level, P
    <3>2. e \in Collector
      BY <3>1, AddTypes
    <3>3. Text(e.blocks) = Text(c.blocks) \o P
      BY <3>1, AddText
    <3> QED
      BY <3>2, <3>3 DEF P
  <2> HIDE DEF e
  <2>5. d.blocks = e.blocks /\ d.parts = <<>> /\ d.tag = Nothing
    BY <2>3, <2>4 DEF Collector
  <2> QED
    BY <1>2, <1>8, <2>1, <2>4, <2>5 DEF d, Gain
<1>9. CASE event.kind = "data" /\ c.tag = Nothing
  <2>1. d = c
    BY <1>9 DEF d, OnEvent
  <2> QED
    BY <1>2, <1>9, <2>1 DEF d, Gain
<1>10. CASE event.kind = "data" /\ c.tag # Nothing
  <2>1. d = [c EXCEPT !.parts = @ \o event.text]
    BY <1>10 DEF d, OnEvent
  <2>2. d.blocks = c.blocks /\ d.parts = P \o event.text /\ d.tag = c.tag /\ d.depth = c.depth
    BY <2>1 DEF Collector
  <2>3. B \o (P \o event.text) = (B \o P) \o event.text
    <3> DEFINE more == event.text
    <3>1. B \in Seq(STRING) /\ P \in Seq(STRING) /\ more \in Seq(STRING)
      BY <1>1
    <3> HIDE DEF B, P, more
    <3>2. (B \o P) \o more = B \o (P \o more)
      BY <3>1, ConcatAssociative
    <3> QED
      BY <3>2 DEF more
  <2>4. c.depth + Change(event) = c.depth
    BY <1>1, <1>10 DEF Change
  <2>5. ~EndsCapture(c, event) /\ Gain(c, event) = event.text
    BY <1>10 DEF EndsCapture, Gain
  <2> QED
    BY <1>10, <2>2, <2>3, <2>4, <2>5 DEF d
<1> QED
  BY <1>1, <1>3, <1>4, <1>5, <1>6, <1>7, <1>8, <1>9, <1>10

\* Element i is captured: the outermost of those whose text counts.
Captures(its, i, c) ==
    /\ OpenIn(its, i, Len(its)) /\ its[i].tag = c.tag
    /\ c.depth = DepthOf(its, Len(its)) - DepthOf(its, i) + 1
    /\ \A k \in 1 .. Len(its) :
          OpenIn(its, k, Len(its)) /\ its[k].tag \in CaptureTags => k >= i

\* An element is captured exactly when one whose text counts is open.
CapturedOK(its, c) ==
    /\ c.tag = Nothing => ~InsideOf(its, Len(its))
    /\ c.tag # Nothing => \E i \in 1 .. Len(its) : Captures(its, i, c)

\* The collected text is in the source, and in a well-nested source it is what counts.
HtmlOK(its, c) ==
    /\ c.tag = Nothing => c.parts = <<>>
    /\ Embeds(Text(c.blocks) \o c.parts, Text(its))
    /\ NestedOf(its) => /\ Text(c.blocks) \o c.parts = CountedOf(its)
                        /\ CapturedOK(its, c)

\* In a well-nested source the end tag that ends the capture is that of the captured element.
LEMMA CapturedNext ==
    ASSUME NEW its \in Seq(HtmlEvent), NEW event \in HtmlEvent, NEW c \in Collector,
           c.tag = Nothing => c.parts = <<>>,
           NestedOf(Append(its, event)), CapturedOK(its, c)
    PROVE  /\ CapturedOK(Append(its, event), OnEvent(c, event))
           /\ event.kind = "data" =>
                 (InsideOf(Append(its, event), Len(its) + 1) <=> c.tag # Nothing)
<1> DEFINE jts == Append(its, event)
           n == Len(its)
           d == OnEvent(c, event)
<1>1. /\ \A k \in 1 .. n : jts[k] = its[k]
      /\ jts[n + 1] = event /\ Len(jts) = n + 1 /\ n \in Nat
      /\ \A k \in 0 .. n : DepthOf(jts, k) = DepthOf(its, k)
      /\ DepthOf(jts, n + 1) = DepthOf(its, n) + Change(event)
      /\ DepthOf(its, n) \in Int
  BY EventAppend
<1>2. /\ \A i \in 1 .. n : OpenIn(jts, i, n + 1) <=>
            OpenIn(its, i, n) /\ DepthOf(jts, n + 1) >= DepthOf(its, i)
      /\ OpenIn(jts, n + 1, n + 1) <=> event.kind = "open"
      /\ event.kind = "close" =>
            \E i \in 1 .. n : /\ OpenIn(its, i, n) /\ DepthOf(its, i) = DepthOf(its, n)
                              /\ its[i].tag = event.tag
  BY OpenNext
<1>3. /\ d.tag = Nothing => d.parts = <<>>
      /\ c.tag = Nothing /\ event.kind = "open" /\ event.tag \in CaptureTags =>
            d.tag = event.tag /\ d.depth = 1
      /\ c.tag = Nothing /\ ~(event.kind = "open" /\ event.tag \in CaptureTags) =>
            d.tag = Nothing
      /\ c.tag # Nothing =>
            IF EndsCapture(c, event) THEN d.tag = Nothing
            ELSE d.tag = c.tag /\ d.depth = c.depth + Change(event)
  BY OnEventText
<1>4. /\ event.kind \in {"open", "close", "data"}
      /\ Change(event) = IF event.kind = "open" THEN 1 ELSE IF event.kind = "close" THEN -1 ELSE 0
      /\ c.depth \in Int /\ c.tag \in CaptureTags \cup {Nothing}
      /\ Nothing \notin CaptureTags
  BY EventKinds, CollectorTypes, NothingAssumption DEF Change, Collector, Tags
<1>5. \A k \in 1 .. n : DepthOf(its, k) \in Int
  <2> SUFFICES ASSUME NEW k \in 1 .. n PROVE DepthOf(its, k) \in Int
    OBVIOUS
  <2>1. k \in Nat
    BY <1>1
  <2> QED
    BY <2>1, DepthNext
<1>6. /\ c.tag = Nothing => ~InsideOf(its, n)
      /\ c.tag # Nothing => \E i \in 1 .. n : Captures(its, i, c)
  BY DEF CapturedOK
<1>7. \A i : Captures(its, i, c) <=>
        /\ OpenIn(its, i, n) /\ its[i].tag = c.tag
        /\ c.depth = DepthOf(its, n) - DepthOf(its, i) + 1
        /\ \A k \in 1 .. n : OpenIn(its, k, n) /\ its[k].tag \in CaptureTags => k >= i
  BY DEF Captures
<1>8. \A i : Captures(jts, i, d) <=>
        /\ OpenIn(jts, i, n + 1) /\ jts[i].tag = d.tag
        /\ d.depth = DepthOf(jts, n + 1) - DepthOf(jts, i) + 1
        /\ \A k \in 1 .. n + 1 : OpenIn(jts, k, n + 1) /\ jts[k].tag \in CaptureTags => k >= i
  BY <1>1 DEF Captures
<1>9. CapturedOK(jts, d) <=>
        /\ d.tag = Nothing => ~InsideOf(jts, n + 1)
        /\ d.tag # Nothing => \E i \in 1 .. n + 1 : Captures(jts, i, d)
  BY <1>1 DEF CapturedOK
<1> HIDE DEF jts, n, d
<1>10. 1 .. n + 1 = (1 .. n) \cup {n + 1} /\ \A k \in 1 .. n : k # n + 1 /\ k \in 0 .. n
  BY <1>1
<1>11. ASSUME InsideOf(jts, n + 1)
       PROVE  InsideOf(its, n) \/ (event.kind = "open" /\ event.tag \in CaptureTags)
  <2>1. PICK k \in 1 .. n + 1 : OpenIn(jts, k, n + 1) /\ jts[k].tag \in CaptureTags
    BY <1>11 DEF InsideOf
  <2>2. CASE k = n + 1
    BY <1>1, <1>2, <2>1, <2>2
  <2>3. CASE k \in 1 .. n
    BY <1>1, <1>2, <2>1, <2>3 DEF InsideOf
  <2> QED
    BY <1>10, <2>2, <2>3
<1>12. CASE c.tag = Nothing /\ ~(event.kind = "open" /\ event.tag \in CaptureTags)
  BY <1>3, <1>6, <1>9, <1>11, <1>12 DEF d, jts, n
<1>13. CASE c.tag = Nothing /\ event.kind = "open" /\ event.tag \in CaptureTags
  <2>1. d.tag = event.tag /\ d.depth = 1 /\ d.tag # Nothing
    BY <1>3, <1>4, <1>13
  <2>2. \A k \in 1 .. n : OpenIn(jts, k, n + 1) => jts[k].tag \notin CaptureTags
    BY <1>1, <1>2, <1>6, <1>13 DEF InsideOf
  <2>3. \A k \in 1 .. n + 1 : OpenIn(jts, k, n + 1) /\ jts[k].tag \in CaptureTags => k >= n + 1
    BY <1>1, <1>10, <2>2
  <2>4. DepthOf(jts, n + 1) \in Int
    BY <1>1, <1>4
  <2>5. Captures(jts, n + 1, d)
    <3>1. \A x \in Int : 1 = x - x + 1
      OBVIOUS
    <3>2. d.depth = DepthOf(jts, n + 1) - DepthOf(jts, n + 1) + 1
      BY <2>1, <2>4, <3>1
    <3>3. OpenIn(jts, n + 1, n + 1) /\ jts[n + 1].tag = d.tag
      BY <1>1, <1>2, <1>13, <2>1
    <3> QED
      BY <1>8, <2>3, <3>2, <3>3
  <2>6. n + 1 \in 1 .. n + 1
    BY <1>1
  <2> QED
    BY <1>9, <1>13, <2>1, <2>5, <2>6 DEF d, jts, n
<1>14. CASE c.tag # Nothing /\ ~EndsCapture(c, event)
  <2>1. PICK i \in 1 .. n : Captures(its, i, c)
    BY <1>6, <1>14
  <2>2. /\ OpenIn(its, i, n) /\ its[i].tag = c.tag
        /\ c.depth = DepthOf(its, n) - DepthOf(its, i) + 1
        /\ \A k \in 1 .. n : OpenIn(its, k, n) /\ its[k].tag \in CaptureTags => k >= i
    BY <1>7, <2>1
  <2>3. DepthOf(its, n) >= DepthOf(its, i) /\ DepthOf(its, i) \in Int
    BY <1>1, <1>5, <2>2 DEF OpenIn
  <2>4. DepthOf(jts, n + 1) >= DepthOf(its, i)
    <3>1. CASE event.kind # "close"
      BY <1>1, <1>4, <2>3, <3>1
    <3>2. CASE event.kind = "close"
      <4>1. PICK j \in 1 .. n : /\ OpenIn(its, j, n) /\ DepthOf(its, j) = DepthOf(its, n)
                                /\ its[j].tag = event.tag
        BY <1>2, <3>2
      <4>2. DepthOf(its, n) # DepthOf(its, i)
        <5> SUFFICES ASSUME DepthOf(its, n) = DepthOf(its, i) PROVE FALSE
          OBVIOUS
        <5>1. n \in Nat /\ DepthOf(its, i) = DepthOf(its, j)
          BY <1>1, <4>1
        <5>2. i = j
          BY <2>2, <4>1, <5>1, OneOfDepth
        <5>3. event.tag = c.tag /\ c.depth = 1
          BY <2>2, <2>3, <4>1, <5>2
        <5> QED
          BY <1>14, <3>2, <5>3 DEF EndsCapture
      <4> QED
        BY <1>1, <1>4, <2>3, <3>2, <4>2
    <3> QED
      BY <3>1, <3>2
  <2>5. OpenIn(jts, i, n + 1) /\ jts[i] = its[i] /\ DepthOf(jts, i) = DepthOf(its, i)
    BY <1>1, <1>2, <1>10, <2>2, <2>4
  <2>6. d.tag = c.tag /\ d.depth = c.depth + Change(event)
    BY <1>3, <1>14
  <2>7. d.depth = DepthOf(jts, n + 1) - DepthOf(jts, i) + 1
    <3>1. Change(event) \in Int
      BY <1>4
    <3> QED
      BY <1>1, <2>2, <2>3, <2>5, <2>6, <3>1
  <2>8. \A k \in 1 .. n + 1 : OpenIn(jts, k, n + 1) /\ jts[k].tag \in CaptureTags => k >= i
    <3>1. n + 1 >= i
      BY <1>1
    <3> QED
      BY <1>1, <1>2, <1>10, <2>2, <3>1
  <2>9. Captures(jts, i, d) /\ i \in 1 .. n + 1
    BY <1>8, <1>10, <2>2, <2>5, <2>6, <2>7, <2>8
  <2>10. InsideOf(jts, n + 1)
    BY <1>4, <1>14, <2>2, <2>5, <2>9 DEF InsideOf
  <2> QED
    BY <1>9, <1>14, <2>6, <2>9, <2>10 DEF d, jts, n
<1>15. CASE EndsCapture(c, event)
  <2>1. c.tag # Nothing /\ event.kind = "close" /\ c.depth <= 1 /\ d.tag = Nothing
    BY <1>3, <1>15 DEF EndsCapture
  <2>2. PICK i \in 1 .. n : Captures(its, i, c)
    BY <1>6, <2>1
  <2>3. /\ OpenIn(its, i, n) /\ its[i].tag = c.tag
        /\ c.depth = DepthOf(its, n) - DepthOf(its, i) + 1
        /\ \A k \in 1 .. n : OpenIn(its, k, n) /\ its[k].tag \in CaptureTags => k >= i
    BY <1>7, <2>2
  <2>4. DepthOf(its, i) \in Int /\ DepthOf(jts, n + 1) < DepthOf(its, i)
    BY <1>1, <1>4, <1>5, <2>1, <2>3
  <2>5. ASSUME NEW k \in 1 .. n + 1, OpenIn(jts, k, n + 1), jts[k].tag \in CaptureTags
        PROVE  FALSE
    <3>1. k \in 1 .. n /\ OpenIn(its, k, n) /\ DepthOf(jts, n + 1) >= DepthOf(its, k)
          /\ its[k].tag \in CaptureTags
      BY <1>1, <1>2, <1>10, <2>1, <2>5
    <3>2. k >= i
      BY <2>3, <3>1
    <3>3. DepthOf(its, k) >= DepthOf(its, i)
      BY <1>1, <2>3, <3>1, <3>2 DEF OpenIn
    <3>4. DepthOf(its, k) \in Int /\ DepthOf(jts, n + 1) \in Int
      BY <1>1, <1>4, <1>5, <3>1
    <3> QED
      BY <2>4, <3>1, <3>3, <3>4
  <2>6. ~InsideOf(jts, n + 1)
    BY <2>5 DEF InsideOf
  <2> QED
    BY <1>9, <2>1, <2>6 DEF d, jts, n
<1> QED
  BY <1>12, <1>13, <1>14, <1>15

\* Every event keeps this.
LEMMA HtmlNext ==
    ASSUME NEW its \in Seq(HtmlEvent), NEW event \in HtmlEvent, NEW c \in Collector,
           HtmlOK(its, c)
    PROVE  HtmlOK(Append(its, event), OnEvent(c, event))
<1> DEFINE jts == Append(its, event)
           n == Len(its)
           d == OnEvent(c, event)
           before == Text(c.blocks) \o c.parts
           after == Text(d.blocks) \o d.parts
           gain == Gain(c, event)
<1>1. /\ c.tag = Nothing => c.parts = <<>>
      /\ Embeds(before, Text(its))
      /\ NestedOf(its) => before = CountedOf(its) /\ CapturedOK(its, c)
  BY DEF HtmlOK
<1>2. after = before \o gain /\ (d.tag = Nothing => d.parts = <<>>)
  BY <1>1, OnEventText
<1>3. /\ \A r \in HtmlEvent : r.text \in Seq(STRING)
      /\ event.text \in Seq(STRING) /\ <<>> \in Seq(STRING)
      /\ event.kind \in {"open", "close", "data"}
      /\ event.kind # "data" => event.text = <<>>
  BY EventKinds, EmptySeq
<1>4. Text(jts) = Text(its) \o event.text /\ Text(its) \in Seq(STRING)
  BY <1>3, TextAppend, TextsTypes
<1>5. before \in Seq(STRING)
  <2>1. Text(c.blocks) \in Seq(STRING) /\ c.parts \in Seq(STRING)
    BY CollectorTypes
  <2> QED
    BY <2>1, ConcatProperties
<1>6. gain = event.text \/ gain = <<>>
  BY DEF Gain
<1> HIDE DEF jts, n, d, before, after, gain
<1>7. Embeds(after, Text(jts))
  <2>1. CASE gain = event.text
    <3>1. Embeds(before \o event.text, Text(its) \o event.text)
      BY <1>1, <1>3, <1>4, <1>5, EmbedsBoth
    <3> QED
      BY <1>2, <1>4, <2>1, <3>1
  <2>2. CASE gain = <<>>
    <3>1. Embeds(before, Text(its) \o event.text)
      BY <1>1, <1>3, <1>4, <1>5, EmbedsMore
    <3>2. after = before
      BY <1>2, <1>5, <2>2, ConcatEmptySeq
    <3> QED
      BY <1>4, <3>1, <3>2
  <2> QED
    BY <1>6, <2>1, <2>2
<1>8. ASSUME NestedOf(jts) PROVE after = CountedOf(jts) /\ CapturedOK(jts, d)
  <2>1. NestedOf(its)
    BY <1>8, OpenNext DEF jts
  <2>2. /\ CapturedOK(jts, d)
        /\ event.kind = "data" => (InsideOf(jts, n + 1) <=> c.tag # Nothing)
    BY <1>1, <1>8, <2>1, CapturedNext DEF jts, n, d
  <2>3. CountedOf(jts) = before \o IF InsideOf(jts, n + 1) THEN event.text ELSE <<>>
    BY <1>1, <2>1, CountedNext DEF jts, n
  <2>4. gain = IF InsideOf(jts, n + 1) THEN event.text ELSE <<>>
    BY <1>3, <2>2 DEF gain, Gain
  <2> QED
    BY <1>2, <2>2, <2>3, <2>4
<1> QED
  BY <1>2, <1>7, <1>8 DEF HtmlOK, jts, d, after

LEMMA HtmlEmpty ==
    ASSUME NEW c, c.blocks = <<>>, c.parts = <<>>, c.tag = Nothing
    PROVE  HtmlOK(<<>>, c)
<1>1. Text(<<>>) = <<>> /\ <<>> \in Seq(STRING) /\ <<>> \o <<>> = <<>>
  <2>1. <<>> \in Seq(STRING)
    BY EmptySeq
  <2> QED
    BY <2>1, TextEmpty, ConcatEmptySeq
<1>2. Embeds(<<>>, <<>>)
  BY <1>1, EmbedsNothing
<1>3. CountedOf(<<>>) = <<>>
  <2>1. [i \in DOMAIN <<>> |-> CountedAt(<<>>, i)] = <<>>
    OBVIOUS
  <2> QED
    BY <2>1, FlattenEmpty DEF CountedOf
<1>4. ~InsideOf(<<>>, Len(<<>>))
  <2>1. Len(<<>>) = 0 /\ 1 .. 0 = {}
    OBVIOUS
  <2> QED
    BY <2>1 DEF InsideOf
<1> QED
  BY <1>1, <1>2, <1>3, <1>4 DEF HtmlOK, CapturedOK

\* In the end all elements of a well-nested source are closed, so nothing is captured.
LEMMA HtmlOfDocument ==
    ASSUME items \in Seq(HtmlEvent), media = "html", NEW c \in Collector, HtmlOK(items, c)
    PROVE  IF WellNested THEN Text(c.blocks) = Visible ELSE Subsequence(Text(c.blocks), Visible)
<1> DEFINE n == Len(items)
<1>1. n \in Nat /\ Items = 1 .. n /\ DOMAIN items = 1 .. n
  BY LenProperties DEF Items
<1>2. \A k : Depth(k) = DepthOf(items, k)
  BY DEF Depth, DepthOf, KindCount, Item
<1>3. \A i, k : StillOpen(i, k) <=> OpenIn(items, i, k)
  BY <1>2 DEF StillOpen, OpenIn, Item
<1>4. WellNested <=> DepthOf(items, n) = 0 /\ NestedOf(items)
  BY <1>1, <1>2, <1>3 DEF WellNested, NestedOf, Item
<1>5. \A k : Inside(k) <=> InsideOf(items, k)
  BY <1>3 DEF Inside, InsideOf, Item
<1>6. /\ c.parts \in Seq(STRING) /\ Text(c.blocks) \in Seq(STRING)
      /\ \A r \in HtmlEvent : r.text \in Seq(STRING)
  BY CollectorTypes, EventKinds
<1>7. CASE WellNested
  <2>1. /\ c.tag = Nothing => c.parts = <<>>
        /\ Text(c.blocks) \o c.parts = CountedOf(items)
        /\ c.tag # Nothing => \E i \in 1 .. n : Captures(items, i, c)
    BY <1>4, <1>7 DEF HtmlOK, CapturedOK
  <2>2. c.tag = Nothing
    <3> SUFFICES ASSUME c.tag # Nothing PROVE FALSE
      OBVIOUS
    <3>1. PICK i \in 1 .. n : OpenIn(items, i, n)
      BY <2>1 DEF Captures
    <3>2. DepthOf(items, i) <= 0 /\ n \in i .. n
      BY <1>1, <1>4, <1>7, <3>1 DEF OpenIn
    <3>3. i - 1 \in Nat /\ (i - 1) + 1 = i /\ i - 1 \in 0 .. n
      BY <1>1
    <3>4. /\ DepthOf(items, i) = DepthOf(items, i - 1) + Change(items[i])
          /\ DepthOf(items, i - 1) \in Int
      BY <3>3, DepthNext
    <3>5. Change(items[i]) = 1
      BY <3>1 DEF OpenIn, Change
    <3>6. \A k \in 1 .. n : items[k].kind \in {"open", "close", "data"}
      BY <1>1, ElementOfSeq, EventKinds
    <3>7. DepthOf(items, i - 1) >= 0
      BY <1>1, <1>4, <1>7, <3>3, <3>6, NestedDepth
    <3> QED
      BY <3>2, <3>4, <3>5, <3>7
  <2>3. Text(c.blocks) = CountedOf(items)
    BY <1>6, <2>1, <2>2, ConcatEmptySeq
  <2>4. Visible = CountedOf(items)
    BY <1>5, <1>7 DEF Visible, CountedOf, CountedAt, Items, Item
  <2> QED
    BY <1>7, <2>3, <2>4
<1>8. CASE ~WellNested
  <2>1. Visible = Text(items)
    BY <1>8 DEF Visible, Text, Items, Item
  <2>2. Text(items) \in Seq(STRING)
    BY <1>6, TextsTypes
  <2>3. Embeds(Text(c.blocks) \o c.parts, Text(items))
    BY DEF HtmlOK
  <2>4. Embeds(Text(c.blocks), Text(items))
    BY <1>6, <2>2, <2>3, EmbedsLess
  <2> QED
    BY <1>6, <1>8, <2>1, <2>2, <2>4, EmbedsIsSubsequence
<1> QED
  BY <1>7, <1>8

---------------------------------------------------------------------------
(* Pages: where the lines of a page are in the document. *)

\* The places of page i of a document, and the tokens of some lines.
Spots(D, i) == {p \in AllPlaces(TextsOf(D)) : D[p[1]].page = i}
Slots(R) == UNION {{l} \X DOMAIN l.text : l \in R}

\* Line a is above b in the same column.
Atop(a, b) == a.x0 = b.x0 /\ a.x1 = b.x1 /\ a.top < b.top

\* Page i of the document has each token of the lines R once.
PageOK(D, i, R) ==
    \E g \in Bijection(Slots(R), Spots(D, i)) :
        /\ \A s \in Slots(R) : D[g[s][1]].text[g[s][2]] = s[1].text[s[2]]
        /\ \A s, t \in Slots(R) : Atop(s[1], t[1]) => Before(g[s], g[t])

\* What a place and a token are.
LEMMA InSpots ==
    ASSUME NEW D \in Document, NEW i, NEW p
    PROVE  p \in Spots(D, i) <=>
              /\ p = <<p[1], p[2]>>
              /\ p[1] \in 1 .. Len(D) /\ p[2] \in 1 .. Len(D[p[1]].text)
              /\ D[p[1]].page = i
<1>1. /\ DOMAIN D = 1 .. Len(D)
      /\ \A b \in 1 .. Len(D) : D[b].text \in Seq(STRING)
  <2>1. \A b \in 1 .. Len(D) : D[b] \in Block
    BY ElementOfSeq DEF Document
  <2> QED
    BY <2>1, LenProperties DEF Document, Block
<1>2. /\ DOMAIN TextsOf(D) = 1 .. Len(D)
      /\ \A b \in 1 .. Len(D) : TextsOf(D)[b] = D[b].text
                                /\ DOMAIN TextsOf(D)[b] = 1 .. Len(D[b].text)
  BY <1>1, LenProperties DEF TextsOf
<1> QED
  BY <1>2, InAllPlaces DEF Spots

LEMMA InSlots ==
    ASSUME NEW R, R \subseteq PageLine, NEW s
    PROVE  s \in Slots(R) <=> s = <<s[1], s[2]>> /\ s[1] \in R /\ s[2] \in 1 .. Len(s[1].text)
<1>1. \A l \in R : l.text \in Seq(STRING) /\ DOMAIN l.text = 1 .. Len(l.text)
  BY LenProperties DEF PageLine, Words
<1> QED
  BY <1>1 DEF Slots

\* The places of block number b on page i.
Row(b, x, i) == IF x.page = i THEN {<<b, j>> : j \in 1 .. Len(x.text)} ELSE {}

\* A page has finitely many tokens.
LEMMA SlotsFinite ==
    ASSUME NEW R, R \subseteq PageLine, IsFiniteSet(R)
    PROVE  IsFiniteSet(Slots(R))
<1> DEFINE row(l) == {l} \X DOMAIN l.text
           rows == {row(l) : l \in R}
           f == [l \in R |-> row(l)]
<1>1. f \in Surjection(R, rows)
  BY DEF Surjection
<1>2. IsFiniteSet(rows)
  BY <1>1, FS_Surjection
<1>3. ASSUME NEW r \in rows PROVE IsFiniteSet(r)
  <2>1. PICK l \in R : r = {l} \X DOMAIN l.text
    BY <1>3
  <2>2. IsFiniteSet(DOMAIN l.text)
    BY LenProperties, FS_Interval DEF PageLine, Words
  <2> QED
    BY <2>1, <2>2, FS_Singleton, FS_Product
<1> QED
  BY <1>2, <1>3, FS_UNION DEF Slots

\* What another block x of document D is to the places of page i.
Adds(E, D, b, x, i) ==
    /\ Spots(E, i) = Spots(D, i) \cup Row(b, x, i)
    /\ \A p \in Spots(D, i) : E[p[1]].text[p[2]] = D[p[1]].text[p[2]]
    /\ E[b] = x /\ b \in Nat /\ E \in Document
    /\ \A p \in Spots(D, i) : p[1] \in Nat /\ p[1] < b

LEMMA SpotsAppend ==
    ASSUME NEW D \in Document, NEW x \in Block, NEW i
    PROVE  Adds(Append(D, x), D, Len(D) + 1, x, i)
<1> DEFINE E == Append(D, x)
           n == Len(D)
           b == n + 1
           new == Row(b, x, i)
<1>1. /\ E \in Document /\ n \in Nat /\ Len(E) = b /\ E[b] = x /\ b \in Nat
      /\ \A k \in 1 .. n : E[k] = D[k]
  BY AppendProperties, LenProperties DEF Document
<1>2. /\ 1 .. b = (1 .. n) \cup {b} /\ b \notin 1 .. n
      /\ \A k \in 1 .. n : k \in Nat /\ k < b
  BY <1>1
<1> HIDE DEF E, n, b
<1>3. \A p : p \in Spots(D, i) <=>
              /\ p = <<p[1], p[2]>>
              /\ p[1] \in 1 .. n /\ p[2] \in 1 .. Len(D[p[1]].text)
              /\ D[p[1]].page = i
  BY InSpots DEF n
<1>4. \A p : p \in Spots(E, i) <=>
              /\ p = <<p[1], p[2]>>
              /\ p[1] \in 1 .. b /\ p[2] \in 1 .. Len(E[p[1]].text)
              /\ E[p[1]].page = i
  BY ONLY <1>1, InSpots
<1>5. \A p : p \in new <=> /\ x.page = i /\ p = <<p[1], p[2]>>
                           /\ p[1] = b /\ p[2] \in 1 .. Len(x.text)
  BY DEF Row
<1> HIDE DEF new
<1>6. \A p : p \in Spots(E, i) <=> p \in Spots(D, i) \/ p \in new
  BY <1>1, <1>2, <1>3, <1>4, <1>5
<1>7. Spots(E, i) = Spots(D, i) \cup new
  BY <1>6
<1>8. \A p \in Spots(D, i) : /\ E[p[1]].text[p[2]] = D[p[1]].text[p[2]]
                             /\ p[1] \in Nat /\ p[1] < b
  BY <1>1, <1>2, <1>3
<1> QED
  BY <1>1, <1>7, <1>8 DEF Adds, new, E, n, b

\* Nothing changes on a page whose places and tokens stay.
LEMMA PageSame ==
    ASSUME NEW D, NEW E, NEW i, NEW R, PageOK(D, i, R), Spots(E, i) = Spots(D, i),
           \A p \in Spots(D, i) : E[p[1]].text[p[2]] = D[p[1]].text[p[2]]
    PROVE  PageOK(E, i, R)
<1>1. PICK g \in Bijection(Slots(R), Spots(D, i)) :
        /\ \A s \in Slots(R) : D[g[s][1]].text[g[s][2]] = s[1].text[s[2]]
        /\ \A s, t \in Slots(R) : Atop(s[1], t[1]) => Before(g[s], g[t])
  BY DEF PageOK
<1>2. \A s \in Slots(R) : g[s] \in Spots(D, i)
  BY DEF Bijection, Injection
<1>3. \A s \in Slots(R) : E[g[s][1]].text[g[s][2]] = s[1].text[s[2]]
  BY <1>1, <1>2
<1> QED
  BY <1>1, <1>3 DEF PageOK

\* A page of no lines.
LEMMA PageEmpty ==
    ASSUME NEW D, NEW i, Spots(D, i) = {}
    PROVE  PageOK(D, i, {})
<1>1. Slots({}) = {}
  BY DEF Slots
<1> DEFINE g == [s \in {} |-> s]
<1>2. g \in Bijection({}, {})
  BY DEF Bijection, Injection, Surjection, IsInjective
<1> QED
  BY <1>1, <1>2 DEF PageOK

\* A line whose tokens are put behind the others.
LEMMA PageGrows ==
    ASSUME NEW D, NEW E, NEW i, NEW R, R \subseteq PageLine, NEW line \in PageLine,
           line \notin R, NEW b \in Nat, NEW k \in Nat,
           Spots(E, i) = Spots(D, i) \cup {<<b, k + j>> : j \in 1 .. Len(line.text)},
           \A p \in Spots(D, i), j \in 1 .. Len(line.text) : Before(p, <<b, k + j>>),
           \A p \in Spots(D, i) : E[p[1]].text[p[2]] = D[p[1]].text[p[2]],
           \A j \in 1 .. Len(line.text) : E[b].text[k + j] = line.text[j],
           \A r \in R : ~Atop(line, r),
           PageOK(D, i, R)
    PROVE  PageOK(E, i, R \cup {line})
<1> DEFINE n == Len(line.text)
           S == Slots(R)
           T == Slots(R \cup {line})
           P == Spots(D, i)
           Q == Spots(E, i)
<1>1. PICK g \in Bijection(S, P) :
        /\ \A s \in S : D[g[s][1]].text[g[s][2]] = s[1].text[s[2]]
        /\ \A s, t \in S : Atop(s[1], t[1]) => Before(g[s], g[t])
  BY DEF PageOK
<1>2. /\ \A s \in S : g[s] \in P
      /\ \A s, t \in S : g[s] = g[t] => s = t
      /\ \A p \in P : \E s \in S : g[s] = p
  BY DEF Bijection, Injection, Surjection, IsInjective
<1>3. \A s : s \in S <=> s = <<s[1], s[2]>> /\ s[1] \in R /\ s[2] \in 1 .. Len(s[1].text)
  BY InSlots
<1>4. \A s : s \in T <=> /\ s = <<s[1], s[2]>> /\ s[1] \in R \cup {line}
                         /\ s[2] \in 1 .. Len(s[1].text)
  BY InSlots
<1>5. \A s : s \in T <=> s \in S \/ (s = <<line, s[2]>> /\ s[2] \in 1 .. n)
  BY <1>3, <1>4
<1>6. \A s \in S : s[1] # line /\ s[1] \in R
  BY <1>3
<1>7. n \in Nat
  BY LenProperties DEF PageLine, Words
<1> HIDE DEF n, S, T, P, Q
<1>8. \A p \in P, j \in 1 .. n : Before(p, <<b, k + j>>) /\ p # <<b, k + j>>
  <2> SUFFICES ASSUME NEW p \in P, NEW j \in 1 .. n
               PROVE  Before(p, <<b, k + j>>) /\ p # <<b, k + j>>
    OBVIOUS
  <2>1. Before(p, <<b, k + j>>)
    BY DEF P, n
  <2>2. ~Before(<<b, k + j>>, <<b, k + j>>)
    BY <1>7 DEF Before
  <2> QED
    BY <2>1, <2>2
<1>9. Q = P \cup {<<b, k + j>> : j \in 1 .. n}
  BY DEF P, Q, n
<1> DEFINE h == [s \in T |-> IF s[1] = line THEN <<b, k + s[2]>> ELSE g[s]]
<1>10. \A s \in S : s \in T /\ h[s] = g[s]
  BY <1>5, <1>6
<1>11. \A j \in 1 .. n : <<line, j>> \in T /\ h[<<line, j>>] = <<b, k + j>>
  BY <1>5
<1>12. \A s \in T : s \in S \/ \E j \in 1 .. n : s = <<line, j>>
  BY <1>5
<1>13. DOMAIN h = T /\ h = [s \in T |-> h[s]]
  OBVIOUS
<1> HIDE DEF h
<1>14. \A s \in T : h[s] \in Q
  BY <1>2, <1>9, <1>10, <1>11, <1>12
<1>15. \A s, t \in T : h[s] = h[t] => s = t
  <2> SUFFICES ASSUME NEW s \in T, NEW t \in T, h[s] = h[t] PROVE s = t
    OBVIOUS
  <2>1. CASE s \in S /\ t \in S
    BY <1>2, <1>10, <2>1
  <2>2. ASSUME NEW u \in S, NEW j \in 1 .. n PROVE h[u] # h[<<line, j>>]
    BY <1>2, <1>8, <1>10, <1>11
  <2>3. ASSUME NEW j \in 1 .. n, NEW m \in 1 .. n, h[<<line, j>>] = h[<<line, m>>]
        PROVE  j = m
    <3>1. k + j = k + m
      BY <1>11, <2>3
    <3> QED
      BY <1>7, <3>1
  <2> QED
    BY <1>12, <2>1, <2>2, <2>3
<1>16. \A q \in Q : \E s \in T : h[s] = q
  <2>1. \A p \in P : \E s \in T : h[s] = p
    BY <1>2, <1>10
  <2>2. \A j \in 1 .. n : \E s \in T : h[s] = <<b, k + j>>
    BY <1>11
  <2>3. \A q \in Q : q \in P \/ \E j \in 1 .. n : q = <<b, k + j>>
    BY <1>9
  <2>4. ASSUME NEW q \in Q PROVE \E s \in T : h[s] = q
    <3>1. CASE q \in P
      BY <2>1, <3>1
    <3>2. ASSUME NEW j \in 1 .. n, q = <<b, k + j>> PROVE \E s \in T : h[s] = q
      BY <2>2, <3>2
    <3> QED
      BY <2>3, <3>1, <3>2
  <2> QED
    BY <2>4
<1>17. h \in Bijection(T, Q)
  <2>1. h \in [T -> Q]
    BY <1>13, <1>14
  <2> QED
    BY <1>15, <1>16, <2>1 DEF Bijection, Injection, Surjection, IsInjective
<1>18. \A s \in T : E[h[s][1]].text[h[s][2]] = s[1].text[s[2]]
  <2> SUFFICES ASSUME NEW s \in T PROVE E[h[s][1]].text[h[s][2]] = s[1].text[s[2]]
    OBVIOUS
  <2>1. CASE s \in S
    <3>1. g[s] \in P /\ h[s] = g[s] /\ D[g[s][1]].text[g[s][2]] = s[1].text[s[2]]
      BY <1>1, <1>2, <1>10, <2>1
    <3> QED
      BY <3>1 DEF P
  <2>2. ASSUME NEW j \in 1 .. n, s = <<line, j>>
        PROVE  E[h[s][1]].text[h[s][2]] = s[1].text[s[2]]
    <3>1. h[s] = <<b, k + j>> /\ s[1] = line /\ s[2] = j
      BY <1>11, <2>2
    <3> QED
      BY <3>1 DEF n
  <2> QED
    BY <1>12, <2>1, <2>2
<1>19. \A s, t \in T : Atop(s[1], t[1]) => Before(h[s], h[t])
  <2> SUFFICES ASSUME NEW s \in T, NEW t \in T, Atop(s[1], t[1]) PROVE Before(h[s], h[t])
    OBVIOUS
  <2>1. CASE s \in S /\ t \in S
    BY <1>1, <1>10, <2>1
  <2>2. ASSUME s \in S, NEW j \in 1 .. n, t = <<line, j>> PROVE Before(h[s], h[t])
    BY <1>2, <1>8, <1>10, <1>11, <2>2
  <2>3. ASSUME t \in S, NEW j \in 1 .. n, s = <<line, j>> PROVE FALSE
    BY <1>6, <2>3
  <2>4. ~Atop(line, line)
    BY DEF Atop, PageLine
  <2>5. ASSUME NEW j \in 1 .. n, NEW m \in 1 .. n, s = <<line, j>>, t = <<line, m>> PROVE FALSE
    BY <2>4, <2>5
  <2> QED
    BY <1>12, <2>1, <2>2, <2>3, <2>5
<1> QED
  BY <1>17, <1>18, <1>19 DEF PageOK, T, Q

\* What the reading order says of the lines of a page.
LEMMA AboveOrder ==
    ASSUME NEW a \in PageLine, NEW b \in PageLine
    PROVE  /\ ~(Above(a, b) /\ Above(b, a))
           /\ Atop(a, b) => Above(a, b)
           /\ \A c \in PageLine : Above(a, b) /\ Above(b, c) => Above(a, c)
  BY DEF Above, Atop, PageLine

\* Of two lines one is read first; in a column the upper one.
LEMMA ReadOnce ==
    ASSUME NEW page \in PdfPage, NEW a \in page.lines, NEW b \in page.lines
    PROVE  /\ ~(ReadBefore(a, b, page) /\ ReadBefore(b, a, page))
           /\ Atop(a, b) => ReadBefore(a, b, page)
<1> DEFINE cuts(l) == {k \in page.lines : WideGap(k, page) /\ ~Above(l, k)}
           band(l) == {k \in page.lines : BandNumber(k, page) = BandNumber(l, page)}
<1>1. page.lines \subseteq PageLine /\ IsFiniteSet(page.lines)
  BY DEF PdfPage
<1>2. \A l \in page.lines : /\ IsFiniteSet(cuts(l)) /\ Cardinality(cuts(l)) \in Nat
                            /\ BandNumber(l, page) = Cardinality(cuts(l))
  <2> SUFFICES ASSUME NEW l \in page.lines
               PROVE  /\ IsFiniteSet(cuts(l)) /\ Cardinality(cuts(l)) \in Nat
                      /\ BandNumber(l, page) = Cardinality(cuts(l))
    OBVIOUS
  <2>1. IsFiniteSet(cuts(l))
    BY <1>1, FS_Subset
  <2> QED
    BY <2>1, FS_CardinalityType DEF BandNumber
<1>3. \A l : Column(l, page) \in {0, 1, 2}
  BY DEF Column
<1>4. ~(ReadBefore(a, b, page) /\ ReadBefore(b, a, page))
  <2>1. ~(Above(a, b) /\ Above(b, a))
    BY <1>1, AboveOrder
  <2>2. BandNumber(a, page) \in Nat /\ BandNumber(b, page) \in Nat
    BY <1>2
  <2>3. Column(a, page) \in Nat /\ Column(b, page) \in Nat
    BY <1>3
  <2> QED
    BY <2>1, <2>2, <2>3 DEF ReadBefore
<1>5. ASSUME Atop(a, b) PROVE ReadBefore(a, b, page)
  <2>1. Above(a, b)
    BY <1>1, <1>5, AboveOrder
  <2>2. cuts(a) \subseteq cuts(b)
    BY <1>1, <2>1, AboveOrder
  <2>3. Cardinality(cuts(a)) <= Cardinality(cuts(b))
    BY <1>2, <2>2, FS_Subset
  <2>4. ASSUME BandNumber(a, page) = BandNumber(b, page)
        PROVE  Column(a, page) = Column(b, page)
    <3>1. band(a) = band(b) /\ a \in band(a) /\ b \in band(b)
      BY <2>4
    <3>2. a.x0 = b.x0 /\ a.x1 = b.x1
      BY <1>5 DEF Atop
    <3> DEFINE left(l) == {k \in band(l) : k.x1 < MidPage - 5}
               right(l) == {k \in band(l) : k.x0 > MidPage + 5}
    <3>3. left(a) = left(b) /\ right(a) = right(b)
      BY <3>1
    <3>4. (a \in left(a) <=> b \in left(b)) /\ (a \in right(a) <=> b \in right(b))
      BY <3>1, <3>2
    <3>5. \A l : Column(l, page) =
            CASE Cardinality(left(l)) < 2 \/ Cardinality(right(l)) < 2 -> 0
              [] l \in left(l) -> 1
              [] l \in right(l) -> 2
              [] OTHER -> 0
      BY DEF Column
    <3> HIDE DEF left, right
    <3> QED
      BY <3>3, <3>4, <3>5
  <2>5. BandNumber(a, page) \in Nat /\ BandNumber(b, page) \in Nat
        /\ BandNumber(a, page) <= BandNumber(b, page)
    BY <1>2, <2>3
  <2> QED
    BY <2>1, <2>4, <2>5 DEF ReadBefore
<1> QED
  BY <1>4, <1>5

\* The document so far, with the open paragraph of page n as its last block.
Pending(c, n) ==
    IF c.parts = <<>> THEN c.blocks
    ELSE Append(c.blocks, [text |-> c.parts, path |-> <<>>, page |-> n])

\* The lines of page i that were read.
ReadLines(its, U, i) == IF i = Len(its) THEN its[i].lines \ U ELSE its[i].lines

\* Every line that was read is on its page once, in the order of its column.
PdfOK(its, U, c) ==
    /\ c.parts = <<>> <=> c.lines = <<>>
    /\ U = {} => c.parts = <<>>
    /\ U # {} => /\ its # <<>> /\ U \subseteq its[Len(its)].lines
                 /\ \A a \in its[Len(its)].lines \ U, b \in U :
                       ReadBefore(a, b, its[Len(its)])
    /\ \A b \in 1 .. Len(c.blocks) : c.blocks[b].page \in 1 .. Len(its)
    /\ \A i \in 1 .. Len(its) : PageOK(Pending(c, Len(its)), i, ReadLines(its, U, i))

\* With the open paragraph it is a document.
LEMMA PendingTypes ==
    ASSUME NEW c \in Collector, NEW n \in Nat
    PROVE  /\ Pending(c, n) \in Document
           /\ c.parts # <<>> => [text |-> c.parts, path |-> <<>>, page |-> n] \in Block
           /\ c.blocks \in Document /\ c.parts \in Seq(STRING) /\ c.lines \in Seq(PageLine)
<1>1. c.blocks \in Document /\ c.parts \in Seq(STRING) /\ c.lines \in Seq(PageLine)
  BY CollectorTypes
<1>2. <<>> \in Seq(Seq(STRING))
  BY EmptySeq
<1>3. ASSUME c.parts # <<>> PROVE [text |-> c.parts, path |-> <<>>, page |-> n] \in Block
  BY <1>1, <1>2, <1>3 DEF Block
<1>4. ASSUME c.parts # <<>> PROVE Pending(c, n) \in Document
  <2> DEFINE x == [text |-> c.parts, path |-> <<>>, page |-> n]
  <2>1. x \in Block
    BY <1>3, <1>4
  <2> HIDE DEF x
  <2>2. Append(c.blocks, x) \in Document
    BY <1>1, <2>1, AppendProperties DEF Document
  <2> QED
    BY <1>4, <2>2 DEF Pending, x
<1> QED
  BY <1>1, <1>3, <1>4 DEF Pending

\* The end of a paragraph.
LEMMA EndParagraphEnds ==
    ASSUME NEW c \in Collector, NEW page \in PdfPage, NEW n \in Nat
    PROVE  LET d == EndParagraph(c, page, n)
           IN  /\ d \in Collector /\ d.parts = <<>> /\ d.lines = <<>>
               /\ c.parts = <<>> => d.blocks = c.blocks
               /\ c.parts # <<>> => \E path \in Seq(Seq(STRING)) :
                     /\ [text |-> c.parts, path |-> path, page |-> n] \in Block
                     /\ d.blocks
                          = Append(c.blocks, [text |-> c.parts, path |-> path, page |-> n])
<1> DEFINE listed == {o.level : o \in {o \in page.outline : o.text = c.parts}}
           level == IF listed # {} THEN CHOOSE m \in listed : TRUE
                    ELSE VisualLevel(Head(c.lines))
           e == Add(c, c.parts, level, n)
           d == EndParagraph(c, page, n)
<1>1. level \in Nat
  <2>1. listed \subseteq Nat
    BY DEF PdfPage
  <2>2. listed # {} => (CHOOSE m \in listed : TRUE) \in listed
    OBVIOUS
  <2> HIDE DEF listed
  <2> QED
    BY <2>1, <2>2, VisualLevelTypes
<1>2. d = [e EXCEPT !.parts = <<>>, !.lines = <<>>]
  BY DEF EndParagraph
<1> HIDE DEF level
<1>3. c.parts \in Seq(STRING)
  BY CollectorTypes
<1>4. e \in Collector
  BY <1>1, <1>3, AddTypes
<1>5. c.parts = <<>> => e.blocks = c.blocks
  BY AddEmpty
<1>6. ASSUME c.parts # <<>>
      PROVE  \E path \in Seq(Seq(STRING)) :
                /\ [text |-> c.parts, path |-> path, page |-> n] \in Block
                /\ e.blocks = Append(c.blocks, [text |-> c.parts, path |-> path, page |-> n])
  <2> DEFINE path == AddedPath(c, c.parts, level)
  <2>1. c.parts \in Seq(STRING) \ {<<>>}
    BY <1>3, <1>6
  <2>2. /\ path \in Seq(Seq(STRING))
        /\ [text |-> c.parts, path |-> path, page |-> n] \in Block
        /\ e.blocks = Append(c.blocks, [text |-> c.parts, path |-> path, page |-> n])
    BY <1>1, <2>1, AddBlock
  <2> HIDE DEF path, e
  <2> QED
    BY <2>2
<1> HIDE DEF e, d
<1>7. d.parts = <<>> /\ d.lines = <<>> /\ d.blocks = e.blocks
  BY <1>2, <1>4 DEF Collector
<1>8. d \in Collector
  <2>1. <<>> \in Seq(STRING) /\ <<>> \in Seq(PageLine)
    BY EmptySeq
  <2>2. [e EXCEPT !.parts = <<>>] \in Collector
    BY <1>4, <2>1, CollectorUpdates
  <2>3. [e EXCEPT !.parts = <<>>, !.lines = <<>>] \in Collector
    BY <2>1, <2>2, CollectorUpdates
  <2> QED
    BY <1>2, <2>3
<1> QED
  BY <1>5, <1>6, <1>7, <1>8 DEF d

\* It keeps the texts and their pages.
LEMMA EndParagraphKeeps ==
    ASSUME NEW c \in Collector, NEW page \in PdfPage, NEW n \in Nat, NEW i, NEW R,
           PageOK(Pending(c, n), i, R)
    PROVE  PageOK(EndParagraph(c, page, n).blocks, i, R)
<1> DEFINE D == Pending(c, n)
           E == EndParagraph(c, page, n).blocks
<1>1. CASE c.parts = <<>>
  BY <1>1, EndParagraphEnds DEF Pending
<1>2. CASE c.parts # <<>>
  <2>1. PICK path \in Seq(Seq(STRING)) :
          /\ [text |-> c.parts, path |-> path, page |-> n] \in Block
          /\ E = Append(c.blocks, [text |-> c.parts, path |-> path, page |-> n])
    BY <1>2, EndParagraphEnds
  <2> DEFINE x == [text |-> c.parts, path |-> <<>>, page |-> n]
             y == [text |-> c.parts, path |-> path, page |-> n]
             B == c.blocks
             m == Len(B) + 1
  <2>2. x \in Block /\ y \in Block /\ B \in Document /\ D = Append(B, x) /\ E = Append(B, y)
        /\ x.text = y.text /\ x.page = y.page
        /\ Adds(D, B, m, x, i) /\ Adds(E, B, m, y, i)
    BY <1>2, <2>1, PendingTypes, SpotsAppend DEF Pending
  <2> HIDE DEF x, y, B, D, E, m
  <2>3. /\ Spots(D, i) = Spots(B, i) \cup Row(m, x, i)
        /\ \A p \in Spots(B, i) : D[p[1]].text[p[2]] = B[p[1]].text[p[2]]
        /\ D[m] = x
    BY <2>2 DEF Adds
  <2>4. /\ Spots(E, i) = Spots(B, i) \cup Row(m, y, i)
        /\ \A p \in Spots(B, i) : E[p[1]].text[p[2]] = B[p[1]].text[p[2]]
        /\ E[m] = y
    BY <2>2 DEF Adds
  <2>5. Spots(E, i) = Spots(D, i)
    BY <2>2, <2>3, <2>4 DEF Row
  <2>6. \A p \in Spots(D, i) : p \in Spots(B, i) \/ p[1] = m
    BY <2>3 DEF Row
  <2>7. \A p \in Spots(D, i) : E[p[1]].text[p[2]] = D[p[1]].text[p[2]]
    BY <2>2, <2>3, <2>4, <2>6
  <2>8. PageOK(E, i, R)
    BY <2>5, <2>7, PageSame DEF D
  <2> QED
    BY <2>8 DEF E
<1> QED
  BY <1>1, <1>2

\* A line that starts a block, and one that continues the last block.
LEMMA PageStarts ==
    ASSUME NEW B \in Document, NEW y \in Block, NEW i, NEW R, PageOK(B, i, R)
    PROVE  /\ y.page # i => PageOK(Append(B, y), i, R)
           /\ \A line \in PageLine \ R :
                 /\ y.page = i /\ y.text = line.text /\ R \subseteq PageLine
                 /\ \A r \in R : ~Atop(line, r)
                 => PageOK(Append(B, y), i, R \cup {line})
<1> DEFINE E == Append(B, y)
           m == Len(B) + 1
<1>0. Adds(E, B, m, y, i)
  BY SpotsAppend
<1> HIDE DEF E, m
<1>1. /\ Spots(E, i) = Spots(B, i) \cup Row(m, y, i)
      /\ \A p \in Spots(B, i) : E[p[1]].text[p[2]] = B[p[1]].text[p[2]]
      /\ E[m] = y /\ m \in Nat
      /\ \A p \in Spots(B, i) : p[1] \in Nat /\ p[1] < m
  BY <1>0 DEF Adds
<1>2. ASSUME y.page # i PROVE PageOK(E, i, R)
  <2>1. Spots(E, i) = Spots(B, i)
    BY <1>1, <1>2 DEF Row
  <2> QED
    BY <1>1, <2>1, PageSame
<1>3. ASSUME NEW line \in PageLine \ R, y.page = i, y.text = line.text, R \subseteq PageLine,
             \A r \in R : ~Atop(line, r)
      PROVE  PageOK(E, i, R \cup {line})
  <2>1. Len(line.text) \in Nat
    BY LenProperties DEF PageLine, Words
  <2>2. \A j \in 1 .. Len(line.text) : 0 + j = j
    BY <2>1
  <2>3. {<<m, 0 + j>> : j \in 1 .. Len(line.text)} = {<<m, j>> : j \in 1 .. Len(line.text)}
    BY <2>2
  <2>4. Spots(E, i) = Spots(B, i) \cup {<<m, 0 + j>> : j \in 1 .. Len(line.text)}
    BY <1>1, <1>3, <2>3 DEF Row
  <2>5. \A p \in Spots(B, i), j \in 1 .. Len(line.text) : Before(p, <<m, 0 + j>>)
    BY <1>1 DEF Before
  <2>6. \A j \in 1 .. Len(line.text) : E[m].text[0 + j] = line.text[j]
    BY <1>1, <1>3, <2>2
  <2>7. 0 \in Nat
    OBVIOUS
  <2> QED
    BY <1>1, <1>3, <2>4, <2>5, <2>6, <2>7, PageGrows
<1> QED
  BY <1>2, <1>3 DEF E

LEMMA PageContinues ==
    ASSUME NEW B \in Document, NEW x \in Block, NEW y \in Block, x.page = y.page,
           NEW line \in PageLine, y.text = x.text \o line.text,
           NEW i, NEW R, PageOK(Append(B, x), i, R)
    PROVE  /\ y.page # i => PageOK(Append(B, y), i, R)
           /\ /\ y.page = i /\ R \subseteq PageLine /\ line \notin R
              /\ \A r \in R : ~Atop(line, r)
              => PageOK(Append(B, y), i, R \cup {line})
<1> DEFINE D == Append(B, x)
           E == Append(B, y)
           m == Len(B) + 1
           k == Len(x.text)
           n == Len(line.text)
<1>0. Adds(D, B, m, x, i) /\ Adds(E, B, m, y, i) /\ k = Len(x.text)
  BY SpotsAppend
<1> HIDE DEF D, E, m, k
<1>1. /\ Spots(D, i) = Spots(B, i) \cup Row(m, x, i)
      /\ \A p \in Spots(B, i) : D[p[1]].text[p[2]] = B[p[1]].text[p[2]]
      /\ D[m] = x /\ m \in Nat
      /\ \A p \in Spots(B, i) : p[1] \in Nat /\ p[1] < m
  BY <1>0 DEF Adds
<1>2. /\ Spots(E, i) = Spots(B, i) \cup Row(m, y, i)
      /\ \A p \in Spots(B, i) : E[p[1]].text[p[2]] = B[p[1]].text[p[2]]
      /\ E[m] = y
  BY <1>0 DEF Adds
<1>3. /\ k \in Nat /\ n \in Nat /\ Len(y.text) = k + n
      /\ \A j \in 1 .. k : y.text[j] = x.text[j]
      /\ \A j \in 1 .. n : y.text[k + j] = line.text[j]
  <2>1. x.text \in Seq(STRING) /\ line.text \in Seq(STRING)
    BY DEF Block, PageLine, Words
  <2> DEFINE s == x.text
             t == line.text
             u == s \o t
  <2> HIDE DEF s, t
  <2>2. /\ Len(s) \in Nat /\ Len(t) \in Nat /\ Len(u) = Len(s) + Len(t)
        /\ \A j \in 1 .. Len(s) + Len(t) : u[j] = IF j <= Len(s) THEN s[j] ELSE t[j - Len(s)]
    BY <2>1, LenProperties, ConcatProperties DEF s, t
  <2> HIDE DEF u
  <2>3. \A j \in 1 .. Len(s) : u[j] = s[j]
    BY <2>2
  <2>4. \A j \in 1 .. Len(t) : u[Len(s) + j] = t[j]
    <3>1. \A j \in 1 .. Len(t) : /\ Len(s) + j \in 1 .. Len(s) + Len(t)
                                 /\ ~(Len(s) + j <= Len(s)) /\ (Len(s) + j) - Len(s) = j
      BY <2>2
    <3> QED
      BY <2>2, <3>1
  <2> QED
    BY <2>2, <2>3, <2>4 DEF s, t, u, k
<1> HIDE DEF n
<1>4. {<<m, j>> : j \in 1 .. Len(y.text)}
        = {<<m, j>> : j \in 1 .. k} \cup {<<m, k + j>> : j \in 1 .. n}
  <2>1. \A j : j \in 1 .. k + n <=> (j \in 1 .. k \/ \E l \in 1 .. n : j = k + l)
    <3>1. ASSUME NEW j \in 1 .. k + n, j \notin 1 .. k PROVE \E l \in 1 .. n : j = k + l
      <4>1. j - k \in 1 .. n /\ j = k + (j - k)
        BY <1>3, <3>1
      <4> QED
        BY <4>1
    <3>2. ASSUME NEW l \in 1 .. n PROVE k + l \in 1 .. k + n
      BY <1>3
    <3>3. \A j \in 1 .. k : j \in 1 .. k + n
      BY <1>3
    <3> QED
      BY <3>1, <3>2, <3>3
  <2>2. \A j : j \in 1 .. Len(y.text) <=> (j \in 1 .. k \/ \E l \in 1 .. n : j = k + l)
    BY <1>3, <2>1
  <2> QED
    BY <2>2
<1>5. \A p \in Spots(D, i) : p \in Spots(B, i) \/ (p[1] = m /\ p[2] \in 1 .. k)
  BY <1>0, <1>1 DEF Row
<1>6. \A p \in Spots(D, i) : E[p[1]].text[p[2]] = D[p[1]].text[p[2]]
  <2> SUFFICES ASSUME NEW p \in Spots(D, i)
               PROVE  E[p[1]].text[p[2]] = D[p[1]].text[p[2]]
    OBVIOUS
  <2>1. CASE p \in Spots(B, i)
    BY <1>1, <1>2, <2>1
  <2>2. CASE p[1] = m /\ p[2] \in 1 .. k
    BY <1>1, <1>2, <1>3, <2>2
  <2> QED
    BY <1>5, <2>1, <2>2
<1>7. PageOK(D, i, R)
  BY DEF D
<1>8. ASSUME y.page # i PROVE PageOK(E, i, R)
  <2>1. Spots(E, i) = Spots(D, i)
    BY <1>1, <1>2, <1>8 DEF Row
  <2> QED
    BY <1>6, <1>7, <2>1, PageSame
<1>9. ASSUME y.page = i, R \subseteq PageLine, line \notin R, \A r \in R : ~Atop(line, r)
      PROVE  PageOK(E, i, R \cup {line})
  <2>1. Spots(E, i) = Spots(D, i) \cup {<<m, k + j>> : j \in 1 .. n}
    BY <1>0, <1>1, <1>2, <1>4, <1>9 DEF Row
  <2>2. \A p \in Spots(D, i), j \in 1 .. n : Before(p, <<m, k + j>>)
    <3> SUFFICES ASSUME NEW p \in Spots(D, i), NEW j \in 1 .. n
                 PROVE  Before(p, <<m, k + j>>)
      OBVIOUS
    <3>1. CASE p \in Spots(B, i)
      BY <1>1, <3>1 DEF Before
    <3>2. CASE p[1] = m /\ p[2] \in 1 .. k
      BY <1>3, <3>2 DEF Before
    <3> QED
      BY <1>5, <3>1, <3>2
  <2>3. \A j \in 1 .. n : E[m].text[k + j] = line.text[j]
    BY <1>2, <1>3
  <2> QED
    BY <1>1, <1>3, <1>6, <1>7, <1>9, <2>1, <2>2, <2>3, PageGrows DEF n
<1> QED
  BY <1>8, <1>9 DEF E

\* Another page: none of its lines is read.
LEMMA PageOpens ==
    ASSUME NEW its \in Seq(PdfPage), NEW c \in Collector, PdfOK(its, {}, c),
           NEW page \in PdfPage
    PROVE  PdfOK(Append(its, page), page.lines, c)
<1> DEFINE jts == Append(its, page)
           n == Len(its)
           U == page.lines
<1>1. /\ n \in Nat /\ Len(jts) = n + 1 /\ jts[n + 1] = page /\ jts # <<>>
      /\ \A k \in 1 .. n : jts[k] = its[k]
  BY AppendProperties, LenProperties
<1>2. /\ c.parts = <<>> /\ c.lines = <<>>
      /\ \A b \in 1 .. Len(c.blocks) : c.blocks[b].page \in 1 .. n
      /\ \A i \in 1 .. n : PageOK(Pending(c, n), i, ReadLines(its, {}, i))
  BY DEF PdfOK
<1>3. c.blocks \in Document
  BY CollectorTypes
<1>4. Pending(c, n) = c.blocks /\ Pending(c, n + 1) = c.blocks
  BY <1>2 DEF Pending
<1> HIDE DEF jts, n
<1>5. \A b \in 1 .. Len(c.blocks) : c.blocks[b].page \in 1 .. n + 1
  BY <1>1, <1>2
<1>6. ASSUME NEW i \in 1 .. n + 1 PROVE PageOK(c.blocks, i, ReadLines(jts, U, i))
  <2>1. CASE i = n + 1
    <3>1. Spots(c.blocks, i) = {}
      <4> SUFFICES ASSUME NEW p \in Spots(c.blocks, i) PROVE FALSE
        OBVIOUS
      <4>1. p[1] \in 1 .. Len(c.blocks) /\ c.blocks[p[1]].page = i
        BY <1>3, InSpots
      <4>2. i \in 1 .. n
        BY <1>2, <4>1
      <4> QED
        BY <1>1, <2>1, <4>2
    <3>2. ReadLines(jts, U, i) = {}
      BY <1>1, <2>1 DEF ReadLines
    <3> QED
      BY <3>1, <3>2, PageEmpty
  <2>2. CASE i \in 1 .. n
    <3>1. ReadLines(jts, U, i) = its[i].lines
      BY <1>1, <2>2 DEF ReadLines
    <3>2. ReadLines(its, {}, i) = its[i].lines
      BY DEF ReadLines
    <3> QED
      BY <1>2, <1>4, <2>2, <3>1, <3>2
  <2> QED
    BY <1>1, <2>1, <2>2
<1>7. jts[n + 1].lines \ U = {}
  BY <1>1
<1> HIDE DEF U
<1>8. PdfOK(jts, U, c)
  BY <1>1, <1>2, <1>4, <1>5, <1>6, <1>7 DEF PdfOK, U
<1> QED
  BY <1>8 DEF jts, U

\* Another line of the page: it starts a paragraph or continues the one before it.
LEMMA LineIsRead ==
    ASSUME NEW c \in Collector, c.parts = <<>> <=> c.lines = <<>>,
           NEW page \in PdfPage, NEW n \in Nat \ {0}, NEW line \in PageLine,
           \A b \in 1 .. Len(c.blocks) : c.blocks[b].page \in 1 .. n
    PROVE  LET read == OnPageLine(c, line, page, n)
           IN  /\ read \in Collector /\ read.parts # <<>> /\ read.lines # <<>>
               /\ \A b \in 1 .. Len(read.blocks) : read.blocks[b].page \in 1 .. n
               /\ \A i, R : PageOK(Pending(c, n), i, R) =>
                     /\ i # n => PageOK(Pending(read, n), i, R)
                     /\ /\ i = n /\ R \subseteq PageLine /\ line \notin R
                        /\ \A r \in R : ~Atop(line, r)
                        => PageOK(Pending(read, n), i, R \cup {line})
<1> DEFINE read == OnPageLine(c, line, page, n)
           Grows(D, E) ==
               \A i, R : PageOK(D, i, R) =>
                   /\ i # n => PageOK(E, i, R)
                   /\ /\ i = n /\ R \subseteq PageLine /\ line \notin R
                      /\ \A r \in R : ~Atop(line, r)
                      => PageOK(E, i, R \cup {line})
           y == [text |-> line.text, path |-> <<>>, page |-> n]
<1>1. line.text \in Seq(STRING) /\ line.text # <<>>
  BY DEF PageLine, Words
<1>2. y \in Block /\ y.page = n /\ y.text = line.text
  <2>1. <<>> \in Seq(Seq(STRING))
    BY EmptySeq
  <2> QED
    BY <1>1, <2>1 DEF Block
<1>3. /\ c.blocks \in Document /\ c.parts \in Seq(STRING) /\ c.lines \in Seq(PageLine)
      /\ n \in 1 .. n
  BY CollectorTypes
<1>4. read \in Collector
  BY OnPageLineTypes
<1>5. \A B \in Document : Grows(B, Append(B, y))
  <2> SUFFICES ASSUME NEW B \in Document, NEW i, NEW R, PageOK(B, i, R)
               PROVE  /\ i # n => PageOK(Append(B, y), i, R)
                      /\ /\ i = n /\ R \subseteq PageLine /\ line \notin R
                         /\ \A r \in R : ~Atop(line, r)
                         => PageOK(Append(B, y), i, R \cup {line})
    OBVIOUS
  <2> HIDE DEF y
  <2> QED
    BY <1>2, PageStarts
<1> HIDE DEF Grows
<1>6. CASE c.lines = <<>>
  <2>1. c.parts = <<>> /\ Pending(c, n) = c.blocks
    BY <1>6 DEF Pending
  <2>2. read = [c EXCEPT !.parts = c.parts \o line.text, !.lines = Append(c.lines, line)]
    BY <1>6 DEF OnPageLine
  <2>3. c.parts \o line.text = line.text
    BY <1>1, <2>1, ConcatEmptySeq
  <2>4. Append(c.lines, line) # <<>>
    BY <1>3, AppendProperties
  <2>5. read.blocks = c.blocks /\ read.parts = line.text /\ read.lines # <<>>
    BY <2>2, <2>3, <2>4 DEF Collector
  <2>6. Pending(read, n) = Append(c.blocks, y)
    BY <1>1, <2>5 DEF Pending
  <2>7. Grows(Pending(c, n), Pending(read, n))
    BY <1>3, <1>5, <2>1, <2>6
  <2> QED
    BY <1>1, <1>4, <2>5, <2>7 DEF Grows
<1>7. CASE c.lines # <<>> /\ Continues(line, c.lines)
  <2> DEFINE x == [text |-> c.parts, path |-> <<>>, page |-> n]
             more == c.parts \o line.text
             z == [text |-> more, path |-> <<>>, page |-> n]
             B == c.blocks
  <2>1. c.parts # <<>> /\ Pending(c, n) = Append(B, x) /\ x \in Block /\ B \in Document
    BY <1>3, <1>7, PendingTypes DEF Pending
  <2>2. read = [c EXCEPT !.parts = more, !.lines = Append(c.lines, line)]
    BY <1>7 DEF OnPageLine
  <2>3. more \in Seq(STRING) /\ more # <<>>
    <3>1. /\ more \in Seq(STRING) /\ Len(more) = Len(c.parts) + Len(line.text)
          /\ Len(c.parts) \in Nat \ {0} /\ Len(line.text) \in Nat
      BY <1>1, <1>3, <2>1, ConcatProperties, LenProperties
    <3>2. Len(more) # 0
      <4>1. \A a \in Nat \ {0}, b \in Nat : a + b # 0
        OBVIOUS
      <4> QED
        BY <3>1, <4>1
    <3>3. Len(<<>>) = 0
      OBVIOUS
    <3> HIDE DEF more
    <3> QED
      BY <3>1, <3>2, <3>3
  <2>4. Append(c.lines, line) # <<>>
    BY <1>3, AppendProperties
  <2> HIDE DEF more
  <2>5. read.blocks = B /\ read.parts = more /\ read.lines # <<>>
    BY <2>2, <2>4 DEF Collector
  <2>6. Pending(read, n) = Append(B, z)
    BY <2>3, <2>5 DEF Pending
  <2>7. z \in Block /\ z.page = n /\ x.page = z.page /\ z.text = x.text \o line.text
    <3>1. <<>> \in Seq(Seq(STRING))
      BY EmptySeq
    <3> QED
      BY <2>3, <3>1 DEF Block, more
  <2> HIDE DEF x, z, B
  <2>8. Grows(Append(B, x), Append(B, z))
    <3> SUFFICES ASSUME NEW i, NEW R, PageOK(Append(B, x), i, R)
                 PROVE  /\ i # n => PageOK(Append(B, z), i, R)
                        /\ /\ i = n /\ R \subseteq PageLine /\ line \notin R
                           /\ \A r \in R : ~Atop(line, r)
                           => PageOK(Append(B, z), i, R \cup {line})
      BY DEF Grows
    <3> QED
      BY <2>1, <2>7, PageContinues
  <2>9. Grows(Pending(c, n), Pending(read, n))
    BY <2>1, <2>6, <2>8
  <2> QED
    BY <1>4, <2>3, <2>5, <2>9 DEF Grows, B
<1>8. CASE c.lines # <<>> /\ ~Continues(line, c.lines)
  <2> DEFINE e == EndParagraph(c, page, n)
  <2>1. e \in Collector /\ c.parts # <<>>
    BY <1>8, EndParagraphEnds
  <2>2. PICK path \in Seq(Seq(STRING)) :
          /\ [text |-> c.parts, path |-> path, page |-> n] \in Block
          /\ e.blocks = Append(c.blocks, [text |-> c.parts, path |-> path, page |-> n])
    BY <2>1, EndParagraphEnds
  <2>3. \A i, R : PageOK(Pending(c, n), i, R) => PageOK(e.blocks, i, R)
    BY EndParagraphKeeps
  <2>4. read = [e EXCEPT !.parts = line.text, !.lines = <<line>>]
    BY <1>8 DEF OnPageLine
  <2> HIDE DEF e
  <2>5. read.blocks = e.blocks /\ read.parts = line.text /\ read.lines # <<>>
    <3>1. <<line>> # <<>>
      OBVIOUS
    <3> QED
      BY <2>1, <2>4, <3>1 DEF Collector
  <2>6. Pending(read, n) = Append(e.blocks, y) /\ e.blocks \in Document
    BY <1>1, <2>1, <2>5, CollectorTypes DEF Pending
  <2>7. Grows(e.blocks, Append(e.blocks, y))
    BY <1>5, <2>6
  <2>8. Grows(Pending(c, n), Pending(read, n))
    BY <2>3, <2>6, <2>7 DEF Grows
  <2>9. \A b \in 1 .. Len(e.blocks) : e.blocks[b].page \in 1 .. n
    <3> DEFINE x == [text |-> c.parts, path |-> path, page |-> n]
    <3>1. x \in Block /\ x.page = n /\ e.blocks = Append(c.blocks, x)
      BY <2>2
    <3> HIDE DEF x
    <3>2. /\ Len(e.blocks) = Len(c.blocks) + 1 /\ Len(c.blocks) \in Nat
          /\ e.blocks[Len(c.blocks) + 1] = x
          /\ \A b \in 1 .. Len(c.blocks) : e.blocks[b] = c.blocks[b]
      BY <1>3, <3>1, AppendProperties, LenProperties DEF Document
    <3>3. \A b \in 1 .. Len(e.blocks) : b \in 1 .. Len(c.blocks) \/ b = Len(c.blocks) + 1
      BY <3>2
    <3> QED
      BY <1>3, <3>1, <3>2, <3>3
  <2> QED
    BY <1>1, <1>4, <2>5, <2>8, <2>9 DEF Grows
<1> QED
  BY <1>6, <1>7, <1>8

\* Every line of a page keeps this; the last one ends the last paragraph.
LEMMA LineOfPage ==
    ASSUME NEW its \in Seq(PdfPage), NEW U, U \subseteq PageLine, NEW c \in Collector,
           PdfOK(its, U, c), NEW line \in U,
           \A l \in U \ {line} : ReadBefore(line, l, its[Len(its)])
    PROVE  LET n == Len(its)
               read == OnPageLine(c, line, its[n], n)
           IN  PdfOK(its, U \ {line},
                     IF U \ {line} = {} THEN EndParagraph(read, its[n], n) ELSE read)
<1> DEFINE n == Len(its)
           page == its[n]
           V == U \ {line}
           R == page.lines \ U
           read == OnPageLine(c, line, page, n)
           e == EndParagraph(read, page, n)
           d == IF V = {} THEN e ELSE read
<1>1. /\ c.parts = <<>> <=> c.lines = <<>>
      /\ its # <<>> /\ U \subseteq page.lines
      /\ \A a \in R, b \in U : ReadBefore(a, b, page)
      /\ \A b \in 1 .. Len(c.blocks) : c.blocks[b].page \in 1 .. n
      /\ \A i \in 1 .. n : PageOK(Pending(c, n), i, ReadLines(its, U, i))
  BY DEF PdfOK
<1>2. n \in Nat \ {0} /\ page \in PdfPage /\ line \in PageLine
  <2>1. n \in Nat /\ n # 0
    BY <1>1, EmptySeq, LenProperties
  <2>2. n \in 1 .. n
    BY <2>1
  <2>3. page \in PdfPage
    BY <2>2, ElementOfSeq
  <2> QED
    BY <2>1, <2>3
<1> HIDE DEF n, page
<1>3. page.lines \subseteq PageLine
  BY <1>2 DEF PdfPage
<1>4. /\ page.lines \ V = R \cup {line} /\ R \subseteq PageLine /\ line \notin R
      /\ line \in page.lines /\ V \subseteq U /\ V \subseteq page.lines
  BY <1>1, <1>3
<1>5. \A r \in R : ~Atop(line, r)
  <2> SUFFICES ASSUME NEW r \in R, Atop(line, r) PROVE FALSE
    OBVIOUS
  <2>1. r \in page.lines /\ ReadBefore(r, line, page)
    BY <1>1
  <2>2. ReadBefore(line, r, page)
    BY <1>2, <1>4, <2>1, ReadOnce
  <2> QED
    BY <1>2, <1>4, <2>1, <2>2, ReadOnce
<1>6. \A a \in page.lines \ V, b \in V : ReadBefore(a, b, page)
  BY <1>1, <1>4 DEF page, n
<1> HIDE DEF R, V
<1>7. /\ read \in Collector /\ read.parts # <<>> /\ read.lines # <<>>
      /\ \A b \in 1 .. Len(read.blocks) : read.blocks[b].page \in 1 .. n
      /\ \A i, S : PageOK(Pending(c, n), i, S) =>
            /\ i # n => PageOK(Pending(read, n), i, S)
            /\ /\ i = n /\ S \subseteq PageLine /\ line \notin S
               /\ \A r \in S : ~Atop(line, r)
               => PageOK(Pending(read, n), i, S \cup {line})
  BY <1>1, <1>2, LineIsRead
<1> HIDE DEF read
<1>8. \A i \in 1 .. n : PageOK(Pending(read, n), i, ReadLines(its, V, i))
  <2> SUFFICES ASSUME NEW i \in 1 .. n
               PROVE  PageOK(Pending(read, n), i, ReadLines(its, V, i))
    OBVIOUS
  <2>1. CASE i = n
    <3>1. ReadLines(its, U, i) = R /\ ReadLines(its, V, i) = R \cup {line}
      BY <1>4, <2>1 DEF ReadLines, R, page, n
    <3> QED
      BY <1>1, <1>4, <1>5, <1>7, <2>1, <3>1
  <2>2. CASE i # n
    <3>1. ReadLines(its, U, i) = ReadLines(its, V, i)
      BY <2>2 DEF ReadLines, n
    <3> QED
      BY <1>1, <1>7, <2>2, <3>1
  <2> QED
    BY <2>1, <2>2
<1>9. CASE V = {}
  <2>1. e.parts = <<>> /\ e.lines = <<>>
    BY <1>2, <1>7, EndParagraphEnds
  <2>2. Pending(e, n) = e.blocks
    BY <2>1 DEF Pending
  <2>3. \A i \in 1 .. n : PageOK(e.blocks, i, ReadLines(its, V, i))
    BY <1>2, <1>7, <1>8, EndParagraphKeeps
  <2>4. \A b \in 1 .. Len(e.blocks) : e.blocks[b].page \in 1 .. n
    <3>1. PICK path \in Seq(Seq(STRING)) :
            /\ [text |-> read.parts, path |-> path, page |-> n] \in Block
            /\ e.blocks = Append(read.blocks, [text |-> read.parts, path |-> path, page |-> n])
      BY <1>2, <1>7, EndParagraphEnds
    <3> DEFINE x == [text |-> read.parts, path |-> path, page |-> n]
               B == read.blocks
               E == e.blocks
    <3>2. x \in Block /\ x.page = n /\ E = Append(B, x) /\ B \in Document /\ n \in 1 .. n
      BY <1>2, <1>7, <3>1, CollectorTypes
    <3> HIDE DEF x, E
    <3>3. /\ Len(E) = Len(B) + 1 /\ Len(B) \in Nat
          /\ E[Len(B) + 1] = x
          /\ \A b \in 1 .. Len(B) : E[b] = B[b]
      BY <3>2, AppendProperties, LenProperties DEF Document
    <3>4. \A b \in 1 .. Len(E) : b \in 1 .. Len(B) \/ b = Len(B) + 1
      BY <3>3
    <3>5. \A b \in 1 .. Len(E) : E[b].page \in 1 .. n
      BY <1>7, <3>2, <3>3, <3>4
    <3> QED
      BY <3>5 DEF E
  <2>5. d = e
    BY <1>9
  <2> HIDE DEF e, d
  <2>6. PdfOK(its, V, d)
    BY <1>9, <2>1, <2>2, <2>3, <2>4, <2>5 DEF PdfOK, n
  <2> QED
    BY <2>6 DEF V, d, e, read, page, n
<1>10. CASE V # {}
  <2>1. d = read
    BY <1>10
  <2> HIDE DEF d
  <2>2. PdfOK(its, V, d)
    BY <1>1, <1>4, <1>6, <1>7, <1>8, <1>10, <2>1 DEF PdfOK, n, page
  <2> QED
    BY <2>2 DEF V, d, read, page, n
<1> QED
  BY <1>9, <1>10

\* What the pages have to hold in the end.
PageCollected(i) ==
    LET lines == Item(i).lines
    IN  /\ \A l \in lines : ToSet(l.text) \subseteq {Token(p) : p \in PagePlaces(i)}
        /\ Cardinality(PagePlaces(i))
              = Cardinality(UNION {{l} \X DOMAIN l.text : l \in lines})
        /\ \A l, m \in lines :
              l.x0 = m.x0 /\ l.x1 = m.x1 /\ l.top < m.top =>
                  \A a \in ToSet(l.text), b \in ToSet(m.text) :
                      \E p, q \in PagePlaces(i) :
                          Before(p, q) /\ Token(p) = a /\ Token(q) = b

\* In the end every line was read, so every page has each of its tokens once.
LEMMA PdfOfDocument ==
    ASSUME items \in Seq(PdfPage), NEW c \in Collector, blocks = c.blocks,
           PdfOK(items, {}, c)
    PROVE  \A i \in Items : PageCollected(i)
<1> DEFINE its == items
           D == blocks
           n == Len(its)
<1>1. /\ c.parts = <<>> /\ Pending(c, n) = D
      /\ \A i \in 1 .. n : PageOK(D, i, ReadLines(its, {}, i))
  BY DEF PdfOK, Pending
<1>2. /\ D \in Document /\ DOMAIN its = 1 .. n /\ Items = 1 .. n
      /\ \A i \in 1 .. n : its[i] \in PdfPage
  BY CollectorTypes, LenProperties, ElementOfSeq DEF Items
<1> HIDE DEF n
<1>3. ASSUME NEW i \in Items PROVE PageCollected(i)
  <2> DEFINE lines == its[i].lines
             places == PagePlaces(i)
  <2>1. places = Spots(D, i)
    BY DEF Spots, TextsOf, PagePlaces, Places, Texts
  <2>2. lines \subseteq PageLine /\ ReadLines(its, {}, i) = lines /\ PageOK(D, i, lines)
    <3>1. ReadLines(its, {}, i) = lines
      BY DEF ReadLines
    <3>2. lines \subseteq PageLine
      BY <1>2 DEF PdfPage
    <3> QED
      BY <1>1, <1>2, <3>1, <3>2
  <2> HIDE DEF lines
  <2>3. PICK g \in Bijection(Slots(lines), Spots(D, i)) :
          /\ \A s \in Slots(lines) : D[g[s][1]].text[g[s][2]] = s[1].text[s[2]]
          /\ \A s, t \in Slots(lines) : Atop(s[1], t[1]) => Before(g[s], g[t])
    BY <2>2 DEF PageOK
  <2>4. \A s \in Slots(lines) : g[s] \in Spots(D, i)
    BY DEF Bijection, Injection
  <2>5. \A p \in Spots(D, i) : Token(p) = D[p[1]].text[p[2]]
    <3> SUFFICES ASSUME NEW p \in Spots(D, i) PROVE Token(p) = D[p[1]].text[p[2]]
      OBVIOUS
    <3>1. p[1] \in 1 .. Len(D)
      BY <1>2, InSpots
    <3>2. p[1] \in DOMAIN D
      BY <1>2, <3>1, LenProperties DEF Document
    <3> QED
      BY <3>2 DEF Token, Texts
  <2> HIDE DEF places
  <2>6. \A l \in lines : \A a \in ToSet(l.text) :
           \E s \in Slots(lines) : s[1] = l /\ s[1].text[s[2]] = a
    <3> SUFFICES ASSUME NEW l \in lines, NEW a \in ToSet(l.text)
                 PROVE  \E s \in Slots(lines) : s[1] = l /\ s[1].text[s[2]] = a
      OBVIOUS
    <3>1. PICK j \in DOMAIN l.text : l.text[j] = a
      BY DEF ToSet
    <3>2. <<l, j>> \in Slots(lines)
      BY DEF Slots
    <3> QED
      BY <3>1, <3>2
  <2>7. \A l \in lines : ToSet(l.text) \subseteq {Token(p) : p \in places}
    <3> SUFFICES ASSUME NEW l \in lines, NEW a \in ToSet(l.text)
                 PROVE  \E p \in places : a = Token(p)
      OBVIOUS
    <3>1. PICK s \in Slots(lines) : s[1].text[s[2]] = a
      BY <2>6
    <3>2. g[s] \in places /\ Token(g[s]) = a
      BY <2>1, <2>3, <2>4, <2>5, <3>1
    <3> QED
      BY <3>2
  <2>8. Cardinality(places) = Cardinality(Slots(lines))
    <3>1. IsFiniteSet(Slots(lines))
      <4>1. IsFiniteSet(lines)
        BY <1>2 DEF PdfPage, lines
      <4> QED
        BY <2>2, <4>1, SlotsFinite
    <3>2. ExistsBijection(Slots(lines), Spots(D, i))
      BY <2>3 DEF ExistsBijection
    <3> QED
      BY <2>1, <3>1, <3>2, FS_Bijection
  <2>9. ASSUME NEW l \in lines, NEW m \in lines, l.x0 = m.x0 /\ l.x1 = m.x1 /\ l.top < m.top,
               NEW a \in ToSet(l.text), NEW b \in ToSet(m.text)
        PROVE  \E p, q \in places : Before(p, q) /\ Token(p) = a /\ Token(q) = b
    <3>1. PICK s \in Slots(lines) : s[1] = l /\ s[1].text[s[2]] = a
      BY <2>6
    <3>2. PICK t \in Slots(lines) : t[1] = m /\ t[1].text[t[2]] = b
      BY <2>6
    <3>3. Before(g[s], g[t])
      BY <2>3, <2>9, <3>1, <3>2 DEF Atop
    <3>4. g[s] \in places /\ Token(g[s]) = a /\ g[t] \in places /\ Token(g[t]) = b
      BY <2>1, <2>3, <2>4, <2>5, <3>1, <3>2
    <3> QED
      BY <3>3, <3>4
  <2> QED
    BY <2>7, <2>8, <2>9 DEF lines, places, Slots, PageCollected, Item
<1> QED
  BY <1>3

---------------------------------------------------------------------------
(* The parser. *)

\* While it parses: what it has collected of the items so far, but for the lines U.
ParsingOK(m, its, U, c) ==
    /\ m \in {"markdown", "plain"} => Text(c.blocks) \o c.parts = Text(its)
    /\ m = "markdown" => OutlineOK(its, c)
    /\ m = "html" => HtmlOK(its, c)
    /\ m = "pdf" => PdfOK(its, U, c)

\* From then on: what it had collected in the end, with no open paragraph.
ParsedOK(m, its, D) ==
    \E c \in Collector : c.blocks = D /\ ParsingOK(m, its, {}, c) /\ (m # "html" => c.parts = <<>>)

\* It holds of nothing, and every step of the parser keeps it.
LEMMA ParsingStarts == ParserInit => ParsingOK(media, items, unread, collector)
<1> SUFFICES ASSUME ParserInit PROVE ParsingOK(media, items, unread, collector)
  OBVIOUS
<1>1. /\ items = <<>> /\ unread = {}
      /\ collector.blocks = <<>> /\ collector.headings = <<>> /\ collector.parts = <<>>
      /\ collector.lines = <<>> /\ collector.tag = Nothing
  BY DEF ParserInit, NewCollector
<1>2. Text(collector.blocks) \o collector.parts = Text(items)
  <2>1. <<>> \in Seq(STRING)
    BY EmptySeq
  <2> QED
    BY <1>1, <2>1, TextEmpty, ConcatEmptySeq
<1>3. OutlineOK(items, collector) /\ HtmlOK(items, collector)
  BY <1>1, OutlineEmpty, HtmlEmpty
<1>4. PdfOK(items, unread, collector)
  <2>1. Len(<<>>) = 0 /\ 1 .. 0 = {}
    OBVIOUS
  <2> QED
    BY <1>1, <2>1 DEF PdfOK
<1> QED
  BY <1>2, <1>3, <1>4 DEF ParsingOK

LEMMA ParsingStep ==
    ASSUME ParserInv, Parse, ParsingOK(media, items, unread, collector)
    PROVE  ParsingOK(media', items', unread', collector')
<1>1. /\ media \in DOMAIN Supply /\ items \in Seq(SourceItem[media])
      /\ unread \subseteq PageLine /\ collector \in Collector
      /\ unread # {} => media = "pdf"
  BY DEF ParserInv
<1>2. /\ media \in {"markdown", "plain", "html", "pdf"}
      /\ media \in {"markdown", "plain"} => items \in Seq(MarkdownLine)
      /\ media = "html" => items \in Seq(HtmlEvent)
      /\ media = "pdf" => items \in Seq(PdfPage)
  <2>1. media \in {"markdown", "plain", "html", "pdf"}
    BY <1>1, SupplyAssumption DEF SourceItem
  <2>2. PlainLine \subseteq MarkdownLine
    BY DEF PlainLine
  <2>3. media = "plain" => items \in Seq(MarkdownLine)
    <3>1. media = "plain" => items \in Seq(PlainLine)
      BY <1>1 DEF SourceItem
    <3> QED
      BY <2>2, <3>1
  <2> QED
    BY <1>1, <2>1, <2>3 DEF SourceItem
<1>3. ASSUME NEW item \in Supply[media][Len(items) + 1], ParseItem(item),
             Len(items) < Len(Supply[media])
      PROVE  ParsingOK(media', items', unread', collector')
  <2>1. Len(items) + 1 \in 1 .. Len(Supply[media])
    <3>1. Len(items) \in Nat
      BY <1>1, LenProperties
    <3>2. Supply[media] \in Seq(SUBSET SourceItem[media])
      BY <1>1, SupplyAssumption
    <3>3. Len(Supply[media]) \in Nat
      BY <3>2, LenProperties
    <3> QED
      BY <1>3, <3>1, <3>3
  <2>2. /\ media \in {"markdown", "plain"} => item \in MarkdownLine
        /\ media = "html" => item \in HtmlEvent
        /\ media = "pdf" => item \in PdfPage
    BY <1>1, <2>1, ItemIsOfSource
  <2>3. /\ media' = media /\ items' = Append(items, item) /\ unread = {}
        /\ unread' = IF media = "pdf" THEN item.lines ELSE {}
    BY <1>3 DEF ParseItem
  <2>4. CASE media \in {"markdown", "plain"}
    <3>1. collector' = OnLine(collector, item) /\ item \in MarkdownLine
          /\ items \in Seq(MarkdownLine)
      BY <1>2, <1>3, <2>2, <2>4 DEF ParseItem
    <3>2. Text(collector'.blocks) \o collector'.parts
            = (Text(collector.blocks) \o collector.parts) \o item.text
      BY <1>1, <3>1, OnLineText
    <3>3. Text(items') = Text(items) \o item.text
      <4>1. \A r \in MarkdownLine : r.text \in Seq(STRING)
        BY LineKinds
      <4> QED
        BY <2>3, <3>1, <4>1, TextAppend
    <3>4. media = "markdown" => OutlineOK(items', collector')
      BY <1>1, <2>3, <3>1, OnLineOutline DEF ParsingOK
    <3>5. Text(collector.blocks) \o collector.parts = Text(items)
      BY <2>4 DEF ParsingOK
    <3> QED
      BY <2>3, <2>4, <3>2, <3>3, <3>4, <3>5 DEF ParsingOK
  <2>5. CASE media = "html"
    <3>1. collector' = OnEvent(collector, item) /\ item \in HtmlEvent
          /\ items \in Seq(HtmlEvent) /\ HtmlOK(items, collector)
      BY <1>2, <1>3, <2>2, <2>5 DEF ParseItem, ParsingOK
    <3>2. HtmlOK(items', collector')
      BY <1>1, <2>3, <3>1, HtmlNext
    <3> QED
      BY <2>3, <2>5, <3>2 DEF ParsingOK
  <2>6. CASE media = "pdf"
    <3>1. collector' = collector /\ item \in PdfPage
          /\ items \in Seq(PdfPage) /\ PdfOK(items, {}, collector)
      BY <1>2, <1>3, <2>2, <2>3, <2>6 DEF ParseItem, ParsingOK
    <3>2. PdfOK(items', unread', collector')
      BY <1>1, <2>3, <2>6, <3>1, PageOpens
    <3> QED
      BY <2>3, <2>6, <3>2 DEF ParsingOK
  <2> QED
    BY <1>2, <2>4, <2>5, <2>6
<1>4. ASSUME NEW line \in unread, ParseLine(line)
      PROVE  ParsingOK(media', items', unread', collector')
  <2>1. media = "pdf" /\ items \in Seq(PdfPage) /\ PdfOK(items, unread, collector)
    BY <1>1, <1>2, <1>4 DEF ParsingOK
  <2> DEFINE n == Len(items)
             read == OnPageLine(collector, line, items[n], n)
  <2>2. /\ \A l \in unread \ {line} : ReadBefore(line, l, items[n])
        /\ unread' = unread \ {line} /\ media' = media /\ items' = items
        /\ collector' = IF unread' = {} THEN EndParagraph(read, items[n], n) ELSE read
    BY <1>4 DEF ParseLine, Last
  <2>3. PdfOK(items, unread \ {line},
              IF unread \ {line} = {} THEN EndParagraph(read, items[n], n) ELSE read)
    BY <1>1, <1>4, <2>1, <2>2, LineOfPage
  <2>4. PdfOK(items', unread', collector')
    BY <2>2, <2>3
  <2> QED
    BY <2>1, <2>2, <2>4 DEF ParsingOK
<1> QED
  BY <1>3, <1>4 DEF Parse

\* At the end the open paragraph of a source of lines is flushed.
LEMMA ParsingEnds ==
    ASSUME ParserInv, unread = {}, ParsingOK(media, items, {}, collector)
    PROVE  ParsedOK(media, items, Parsed)
<1>1. /\ media \in {"markdown", "plain", "html", "pdf"} /\ collector \in Collector
      /\ media = "markdown" => items \in Seq(MarkdownLine)
  <2>1. media \in {"markdown", "plain", "html", "pdf"}
    BY SupplyAssumption DEF SourceItem, ParserInv
  <2> QED
    BY <2>1 DEF SourceItem, ParserInv
<1>2. CASE media = "html"
  <2>1. Parsed = collector.blocks
    BY <1>2 DEF Parsed
  <2> QED
    BY <1>1, <1>2, <2>1 DEF ParsedOK
<1>3. CASE media \in {"markdown", "plain"}
  <2> DEFINE f == Flush(collector)
  <2>1. /\ f \in Collector /\ f.parts = <<>>
        /\ Text(f.blocks) = Text(collector.blocks) \o collector.parts
        /\ Text(f.blocks) \in Seq(STRING)
    BY <1>1, FlushText, CollectorTypes
  <2>2. Parsed = f.blocks
    BY <1>3 DEF Parsed
  <2>3. media = "markdown" => OutlineOK(items, f)
    BY <1>1, FlushOutline DEF ParsingOK
  <2> HIDE DEF f
  <2>4. Text(f.blocks) \o f.parts = Text(items)
    BY <1>3, <2>1, ConcatEmptySeq DEF ParsingOK
  <2>5. ParsingOK(media, items, {}, f)
    BY <1>3, <2>3, <2>4 DEF ParsingOK
  <2> QED
    BY <2>1, <2>2, <2>5 DEF ParsedOK
<1>4. CASE media = "pdf"
  <2>1. collector.parts = <<>>
    BY <1>4 DEF ParsingOK, PdfOK
  <2>2. Flush(collector).blocks = collector.blocks
    <3>1. Flush(collector).blocks = Add(collector, collector.parts, 0, 0).blocks
      BY <1>1, FlushText
    <3>2. Add(collector, collector.parts, 0, 0) = collector
      BY <2>1, AddEmpty
    <3> QED
      BY <3>1, <3>2
  <2>3. Parsed = collector.blocks
    BY <1>4, <2>2 DEF Parsed
  <2> QED
    BY <1>1, <1>4, <2>1, <2>3 DEF ParsedOK
<1> QED
  BY <1>1, <1>2, <1>3, <1>4
================================================================================
