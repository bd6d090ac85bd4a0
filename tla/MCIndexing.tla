----------------------------- MODULE MCIndexing -----------------------------
(* Indexing of small documents of every kind.  The words of a source differ, so that each
   can be found again. *)
EXTENDS Indexing

Word == <<"long", "b", "c", "d", "e", "f">>

\* Markdown: up to five lines.
Line(kind, text, level) == [kind |-> kind, text |-> text, level |-> level]
Lines(text) == {Line("heading", text, n) : n \in 1 .. 3}
               \cup {Line("item", text, 0), Line("text", text, 0), Line("blank", <<>>, 0)}

\* HTML: up to six events.  "x" is an element whose text does not count by itself; opened
\* only, it is a void element.
Event(kind, tag, text) == [kind |-> kind, tag |-> tag, text |-> text]
Events(text) == [kind : {"open", "close"}, tag : {"p", "h2", "x"}, text : {<<>>}]
                \cup {Event("data", Nothing, text)}

\* Plain text that has to be divided: a paragraph of up to six tokens and a short one.
SplitTexts == UNION {[1 .. n -> {"a", "long", "stop", "glued"}] : n \in 1 .. 6}
PlainLines == {Line("text", t, 0) : t \in {t \in SplitTexts : Last(t) # "glued"}}
ShortLines == {Line("text", t, 0) : t \in {<<"a", "a">>, <<"long">>, <<"stop", "a">>}}

\* PDF: pages with a heading, lines in two columns, below each other and apart, an indented
\* line, and a line across.
PdfLine(text, top, x0, x1, size, bold, bullet) ==
    [text |-> <<text>>, top |-> top, bottom |-> top + 10, x0 |-> x0, x1 |-> x1, size |-> size,
     bold |-> bold, bullet |-> bullet, short |-> TRUE]
PageLines ==
    {PdfLine("a", 50, 54, 150, 34, TRUE, FALSE), PdfLine("b", 80, 54, 200, 18, FALSE, FALSE),
     PdfLine("c", 92, 54, 200, 18, FALSE, TRUE), PdfLine("d", 104, 68, 200, 18, FALSE, FALSE),
     PdfLine("e", 80, 343, 500, 18, FALSE, FALSE), PdfLine("f", 92, 343, 500, 18, TRUE, FALSE),
     PdfLine("g", 98, 54, 500, 18, FALSE, FALSE), PdfLine("h", 170, 54, 200, 18, FALSE, FALSE)}
Page(lines) == [lines |-> lines, outline |-> {[text |-> <<"b">>, level |-> 1]}]
Pages == {Page(lines) : lines \in SUBSET PageLines}

MCSupply ==
    [markdown |-> [i \in 1 .. 5 |-> Lines(<<Word[i]>>)],
     html |-> [i \in 1 .. 6 |-> Events(<<Word[i]>>)],
     plain |-> <<PlainLines, {Line("blank", <<>>, 0)}, ShortLines>>,
     pdf |-> <<Pages, {Page({}), Page(PageLines)}, {Page({})}>>]
=============================================================================
