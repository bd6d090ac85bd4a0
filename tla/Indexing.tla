------------------------------- MODULE Indexing -------------------------------
(***************************************************************************)
(* RAGIndexer.prepare (packages/rag/service.py): a document is parsed and  *)
(* its blocks are divided into chunks, which are then embedded and stored  *)
(* (in DocumentPipeline the action Commit).  A document that cannot be     *)
(* indexed is refused as a whole.                                          *)
(***************************************************************************)
EXTENDS Parser, Chunker

VARIABLE stage

indexVars == <<parserVars, chunkerVars, stage>>

IndexInit ==
    /\ ParserInit
    /\ ChunkerInit
    /\ stage = "parsing"

Goto(next) == stage' = next

Parse ==
    /\ stage = "parsing"
    /\ \/ /\ Len(items) < Len(Supply[media])
          /\ \E item \in Supply[media][Len(items) + 1] : ParseItem(item)
       \/ \E line \in unread : ParseLine(line)
    /\ UNCHANGED <<chunkerVars, stage>>

EndParsing ==
    /\ stage = "parsing" /\ unread = {}
    /\ ~Unparsable
    /\ blocks' = Parsed
    /\ Goto("parsed")
    /\ UNCHANGED <<parserVars, pieces, current, chunks>>

Chunk ==
    /\ stage = "parsed"
    /\ Divide
    /\ Goto("chunking")
    /\ UNCHANGED parserVars

Pack ==
    /\ stage = "chunking"
    /\ \/ \E piece \in pieces :
             FirstPiece(piece) /\ (Slice(piece) \/ Fit(piece) \/ PackPiece(piece))
       \/ PackLast
    /\ UNCHANGED <<parserVars, stage>>

\* ValueError: a permanent failure of the job.
Refuse ==
    /\ \/ stage = "parsing" /\ unread = {} /\ Unparsable
       \/ stage = "chunking" /\ \E piece \in pieces : FirstPiece(piece) /\ Unfit(piece)
       \/ stage = "chunking" /\ pieces = {} /\ current = {} /\ chunks = <<>>
    /\ Goto("refused")
    /\ UNCHANGED <<parserVars, chunkerVars>>

Finish ==
    /\ stage = "chunking"
    /\ pieces = {} /\ current = {} /\ chunks # <<>>
    /\ Goto("indexed")
    /\ UNCHANGED <<parserVars, chunkerVars>>

IndexNext == Parse \/ EndParsing \/ Chunk \/ Pack \/ Refuse \/ Finish

IndexSpec == IndexInit /\ [][IndexNext]_indexVars

---------------------------------------------------------------------------
(* Correctness of the parser. *)

Items == DOMAIN items
Item(i) == items[i]

\* How many elements of an HTML source are open after n events.
Depth(n) ==
    LET times(kind) == Cardinality({k \in 1 .. n : Item(k).kind = kind})
    IN  times("open") - times("close")

\* Is the element that event i opens still open after n events?
StillOpen(i, n) == Item(i).kind = "open" /\ \A k \in i .. n : Depth(k) >= Depth(i)

\* Is an element open whose text counts?
Inside(n) == \E i \in 1 .. n : StillOpen(i, n) /\ Item(i).tag \in CaptureTags

\* The elements of the source are nested and all of them are closed: an end tag closes the
\* innermost open element.
WellNested ==
    /\ Depth(Len(items)) = 0
    /\ \A n \in Items : Item(n).kind = "close" =>
          \E i \in 1 .. n - 1 : /\ StillOpen(i, n - 1) /\ Depth(i) = Depth(n - 1)
                                /\ Item(i).tag = Item(n).tag

\* The text that counts; in a source that is not well-nested, whatever may count.
Visible ==
    FlattenSeq([i \in Items |->
        IF media = "html" /\ WellNested /\ ~Inside(i) THEN <<>> ELSE Item(i).text])

\* Is s what remains of t when some of its tokens are left out?
Subsequence(s, t) ==
    \E kept \in SUBSET DOMAIN t :
        /\ Cardinality(kept) = Len(s)
        /\ \A i \in kept : t[i] = s[Cardinality({j \in kept : j <= i})]

\* The text of page i.
PagePlaces(i) == {p \in Places : blocks[p[1]].page = i}
Token(p) == Texts[p[1]][p[2]]

\* A document that is accepted is collected whole and once: every text of a Markdown or
\* plain source and every text in the paragraphs, headings and list items of a well-nested
\* HTML source in the order of the source; every line of a PDF page on its page, the lines
\* of a column from top to bottom.  In an HTML source that is not well-nested (an element
\* like br has no end tag) text can be lost, but is neither repeated nor reordered.
TextCollected ==
    stage \in {"parsed", "chunking", "indexed"} =>
        CASE media = "pdf" ->
                 \A i \in Items :
                     LET lines == Item(i).lines
                     IN  /\ \A l \in lines :
                               ToSet(l.text) \subseteq {Token(p) : p \in PagePlaces(i)}
                         /\ Cardinality(PagePlaces(i))
                               = Cardinality(UNION {{l} \X DOMAIN l.text : l \in lines})
                         /\ \A l, m \in lines :
                               l.x0 = m.x0 /\ l.x1 = m.x1 /\ l.top < m.top =>
                                   \A a \in ToSet(l.text), b \in ToSet(m.text) :
                                       \E p, q \in PagePlaces(i) :
                                           Before(p, q) /\ Token(p) = a /\ Token(q) = b
          [] media = "html" /\ ~WellNested -> Subsequence(Text(blocks), Visible)
          [] OTHER -> Text(blocks) = Visible

\* The headings of a Markdown source that item i stands under, itself included.
IsHeading(k) == Item(k).kind = "heading"
Ancestors(i) ==
    {k \in 1 .. i : /\ IsHeading(k)
                    /\ \A n \in k + 1 .. i : IsHeading(n) => Item(n).level > Item(k).level}

\* No heading is more than one level below the one before it.
NoLevelSkipped ==
    \A k \in Items : IsHeading(k) /\ Item(k).level > 1 =>
        \E n \in 1 .. k - 1 : /\ IsHeading(n) /\ Item(n).level >= Item(k).level - 1
                              /\ \A m \in n + 1 .. k - 1 : ~IsHeading(m)

\* The text of item i went to block b: as many tokens precede it as in the document.
Offset(texts, k) == Cardinality({p \in AllPlaces(texts) : p[1] < k})
Origin(b, i) ==
    /\ Item(i).text # <<>>
    /\ Offset([k \in Items |-> Item(k).text], i)
          \in Offset(Texts, b) .. Offset(Texts, b + 1) - 1

\* The headings of a block are those that its text stands under in the outline of the
\* source, each at the place of its level.  After a skipped level a heading of the level
\* that follows stays as well.
PathIsOutline ==
    stage \in {"parsed", "chunking", "indexed"} /\ media = "markdown" =>
        \A b \in DOMAIN blocks : \A i \in Items :
            LET path == blocks[b].path
            IN  Origin(b, i) =>
                    /\ {Item(k).text : k \in Ancestors(i)} \subseteq ToSet(path)
                    /\ NoLevelSkipped =>
                          {<<Item(k).level, Item(k).text>> : k \in Ancestors(i)}
                              = {<<n, path[n]>> : n \in DOMAIN path}

---------------------------------------------------------------------------
(* Correctness of the chunker. *)

SkippedPlaces == UNION {{b} \X Skipped(b) : b \in DOMAIN blocks}

\* Of an indexed document only tokens in front of a terminator inside a word are missing,
\* and only in a block that had to be divided.  Chunks keep to their section, and each of
\* them goes further than the one before it.
ChunksCover ==
    /\ stage = "indexed" =>
          Places \ SkippedPlaces \subseteq UNION {Tokens(c) : c \in ToSet(chunks)}
    /\ \A k \in DOMAIN chunks :
          /\ \A s, t \in chunks[k] : s.block < t.block => SameSection(s.block, t.block)
          /\ \A n \in 1 .. k - 1 : \E p \in Tokens(chunks[k]) :
                \A q \in Tokens(chunks[n]) : Before(q, p)

\* Every chunk fits the embedding model with its headings.  Of the tokens it was packed
\* from there are at most MaxSize, and at most Overlap of these were in the chunk before
\* it.  The skipped tokens that merging its fragments brings back come on top:
\* ChunkWithinMaximum.
ChunksBounded ==
    \A k \in DOMAIN chunks :
        LET own(n) == Tokens(chunks[n]) \ SkippedPlaces
        IN  /\ InBudget(chunks[k])
            /\ Cardinality(own(k)) <= MaxSize
            /\ k > 1 => Cardinality(own(k) \cap own(k - 1)) <= Overlap

\* "a 350-token target, 500-token maximum" (docs/adr/0007): a chunk as it is stored has
\* no more than MaxSize tokens.
ChunkWithinMaximum == \A k \in DOMAIN chunks : Cardinality(Tokens(chunks[k])) <= MaxSize
=============================================================================
