-------------------------------- MODULE Chunker --------------------------------
(***************************************************************************)
(* StructureAwareChunker (packages/rag/chunking.py): the blocks of a       *)
(* document become chunks of limited size that overlap.                    *)
(*                                                                         *)
(* A fragment is a range of tokens of a block.  What the model keeps of a  *)
(* token is what the sentence pattern and the token budget of the          *)
(* embedding model tell apart: a terminator (one of . ! ?) is "stop" when  *)
(* white space or the end of the text follows and "glued" otherwise;       *)
(* "long" costs several tokens of the model.                               *)
(*                                                                         *)
(* The code's lists of fragments are in the order of the text and do not   *)
(* overlap; here they are sets.  Its loops over the sentences and over the *)
(* pieces are steps on the first piece: it is cut until it is small enough *)
(* and fits, and is then packed.                                           *)
(***************************************************************************)
EXTENDS Integers, SequencesExt

CONSTANTS
    Target,    \* chunk_target_tokens
    MaxSize,   \* chunk_max_tokens
    Overlap,   \* chunk_overlap_tokens
    Limit      \* embedding_input_limit, less what every input contains

ASSUME ChunkerAssumption ==
    /\ {Target, MaxSize, Overlap, Limit} \subseteq Nat \ {0}
    /\ Overlap < Target /\ Target <= MaxSize

VARIABLES
    blocks,    \* the parsed document
    pieces,    \* the fragments that are not packed yet
    current,   \* the fragments of the chunk under construction
    chunks     \* the finished chunks, each a set of spans (its locators)

chunkerVars == <<blocks, pieces, current, chunks>>

Fragment(b, i, j) == [block |-> b, from |-> i, to |-> j]
Count(f) == f.to - f.from + 1
Earlier(f, g) == f.block < g.block \/ (f.block = g.block /\ f.to < g.from)

\* A token is known by its place: the number of its text, and its number in the text.
AllPlaces(texts) == UNION {{k} \X DOMAIN texts[k] : k \in DOMAIN texts}
Before(p, q) == p[1] < q[1] \/ (p[1] = q[1] /\ p[2] < q[2])

Texts == [b \in DOMAIN blocks |-> blocks[b].text]
Places == AllPlaces(Texts)
Tokens(fragments) == UNION {{f.block} \X (f.from .. f.to) : f \in fragments}

\* What the tokens of some texts at these places cost the embedding model.
Weight(texts, places) ==
    Cardinality(places) + 2 * Cardinality({p \in places : texts[p[1]][p[2]] = "long"})

\* Blocks with the same page and headings that follow each other are one section.
SameSection(b, c) ==
    \A i \in b + 1 .. c : /\ blocks[i].page = blocks[i - 1].page
                          /\ blocks[i].path = blocks[i - 1].path

\* _merge_fragments: one span per block, from its first fragment to its last.
Spans(fragments) ==
    UNION {{Fragment(f.block, f.from, g.to) : g \in {g \in fragments : g.block = f.block}} :
           f \in fragments}
Merged(fragments) ==
    {s \in Spans(fragments) :
        \A f \in fragments : f.block = s.block => s.from <= f.from /\ f.to <= s.to}

\* The budget for the text and its headings (_budget_text, E1TokenBudget).
SpanWeight(spans) == Weight(Texts, Tokens(spans))
PathWeight(b) == Weight(blocks[b].path, AllPlaces(blocks[b].path))
InBudget(spans) == \A s \in spans : SpanWeight(spans) + PathWeight(s.block) <= Limit
Fits(fragments) == InBudget(Merged(fragments))

---------------------------------------------------------------------------
(* _split_block. *)

Terminators == {"stop", "glued"}

\* Places after which the next sentence begins, whether or not this one matches.
Breaks(text) ==
    {i \in DOMAIN text :
        \/ i = Len(text)
        \/ text[i] = "stop"
        \/ text[i] = "glued" /\ text[i + 1] \notin Terminators}

\* What _SENTENCE_PATTERN finds: a match starts with something else than a terminator and
\* ends with the text or with a terminator before white space.
Sentences(text) ==
    {s \in (DOMAIN text) \X Breaks(text) :
        /\ s[1] = 1 \/ s[1] - 1 \in Breaks(text)
        /\ s[1] <= s[2] /\ s[1] .. (s[2] - 1) \cap Breaks(text) = {}
        /\ s[1] = 1 => text[1] \notin Terminators
        /\ text[s[2]] # "glued"}

Divided(b) == Len(blocks[b].text) > MaxSize

Split(b) ==
    IF Divided(b) THEN {Fragment(b, s[1], s[2]) : s \in Sentences(blocks[b].text)}
    ELSE {Fragment(b, 1, Len(blocks[b].text))}

\* The tokens of a block that no sentence contains are skipped.
Skipped(b) ==
    IF Divided(b)
    THEN DOMAIN blocks[b].text \ UNION {s[1] .. s[2] : s \in Sentences(blocks[b].text)}
    ELSE {}

ChunkerInit ==
    /\ blocks = <<>>
    /\ pieces = {}
    /\ current = {}
    /\ chunks = <<>>

Divide ==
    /\ pieces' = UNION {Split(b) : b \in DOMAIN blocks}
    /\ UNCHANGED <<blocks, current, chunks>>

FirstPiece(f) == f \in pieces /\ \A g \in pieces \ {f} : Earlier(f, g)

\* The first n tokens of f, and what is left.
Part(f, n) == Fragment(f.block, f.from, f.from + n - 1)
Rest(f, n) == Fragment(f.block, f.from + n, f.to)
CutMutant(f, n) == (pieces \ {f}) \cup {Part(f, n)}   \* the rest is lost
Cut(f, n) == (pieces \ {f}) \cup {Part(f, n), Rest(f, n)}

\* A sentence is cut after every Target tokens.
TooLong(f) == Divided(f.block) /\ Count(f) > Target

Slice(f) ==
    /\ TooLong(f)
    /\ pieces' = Cut(f, Target)
    /\ UNCHANGED <<blocks, current, chunks>>

---------------------------------------------------------------------------
(* _fit_piece: the longest part of a piece that fits is cut off. *)

Fit(f) ==
    /\ ~TooLong(f)
    /\ \E n \in 1 .. Count(f) - 1 :
          /\ Fits({Part(f, n)})
          /\ \A m \in n + 1 .. Count(f) : ~Fits({Part(f, m)})
          /\ pieces' = Cut(f, n)
    /\ UNCHANGED <<blocks, current, chunks>>

\* A single token does not fit.
Unfit(f) == ~TooLong(f) /\ ~Fits({Part(f, 1)})

---------------------------------------------------------------------------
(* _pack_section. *)

\* _tail_overlap: from the last fragment backwards, each with the tokens for which there
\* is room after those behind it.
TailOverlap(fragments, limit) ==
    LET room(f) == limit - Cardinality(Tokens({g \in fragments : Earlier(f, g)}))
    IN  {IF Count(f) <= room(f) THEN f ELSE [f EXCEPT !.from = f.to - room(f) + 1] :
         f \in {f \in fragments : room(f) > 0}}

KeepLimitMutant(piece) == Overlap   \* whatever the piece needs
KeepLimit(piece) == Min({Overlap, Max({0, Target - Count(piece)})})

\* The longest end of the overlap that still fits together with the next piece.
Onwards(f, fragments) == {g \in fragments : ~Earlier(g, f)}
Kept(piece) ==
    LET tail == TailOverlap(current, KeepLimit(piece))
    IN  UNION {Onwards(f, tail) : f \in {f \in tail : Fits(Onwards(f, tail) \cup {piece})}}

InSection(piece) == \A f \in current : SameSection(f.block, piece.block)
Full(piece) ==
    \/ Cardinality(Tokens(current)) + Count(piece) > Target
    \/ ~Fits(current \cup {piece})

Emit == chunks' = Append(chunks, Merged(current))

\* The code checks every chunk against MaxSize and the budget once more: ChunksBounded.
PackPiece(piece) ==
    /\ ~TooLong(piece) /\ Fits({piece})
    /\ \/ /\ current = {}
          /\ current' = {piece}
          /\ UNCHANGED chunks
       \/ /\ current # {} /\ ~InSection(piece)
          /\ Emit
          /\ current' = {piece}
       \/ /\ current # {} /\ InSection(piece) /\ Full(piece)
          /\ Emit
          /\ current' = Kept(piece) \cup {piece}
       \/ /\ current # {} /\ InSection(piece) /\ ~Full(piece)
          /\ current' = current \cup {piece}
          /\ UNCHANGED chunks
    /\ pieces' = pieces \ {piece}
    /\ UNCHANGED blocks

PackLast ==
    /\ pieces = {} /\ current # {}
    /\ Emit
    /\ current' = {}
    /\ UNCHANGED <<blocks, pieces>>
=============================================================================
