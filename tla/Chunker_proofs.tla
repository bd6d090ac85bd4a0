---------------------------- MODULE Chunker_proofs ----------------------------
(***************************************************************************)
(* Facts about the operators of Chunker, for every document: what cutting, *)
(* merging and the overlap do with the tokens of fragments.  What a token  *)
(* costs is left open: no fact depends on it.                              *)
(***************************************************************************)
EXTENDS Chunker, FiniteSetTheorems, SequenceTheorems, TLAPS

\* A text is not empty (_BlockCollector.add).
Block == [text : Seq(STRING) \ {<<>>}, path : Seq(Seq(STRING)), page : Nat]
Document == Seq(Block)

Fragments ==
    {f \in [block : DOMAIN blocks, from : Nat \ {0}, to : Nat \ {0}] :
        f.from <= f.to /\ f.to <= Len(blocks[f.block].text)}

\* Fragments that do not overlap.
Ordered(fragments) ==
    \A f, g \in fragments : f = g \/ Earlier(f, g) \/ Earlier(g, f)

---------------------------------------------------------------------------
(* Places, and the tokens of fragments. *)

\* Blocks are numbered and have a text with tokens.
LEMMA DocumentShape ==
    ASSUME blocks \in Document
    PROVE  /\ Len(blocks) \in Nat
           /\ DOMAIN blocks = 1 .. Len(blocks)
           /\ \A b \in DOMAIN blocks :
                 /\ b \in Nat \ {0}
                 /\ blocks[b].text \in Seq(STRING)
                 /\ Len(blocks[b].text) \in Nat \ {0}
                 /\ DOMAIN blocks[b].text = 1 .. Len(blocks[b].text)
<1>1. Len(blocks) \in Nat /\ DOMAIN blocks = 1 .. Len(blocks)
  BY DEF Document
<1>2. ASSUME NEW b \in DOMAIN blocks
      PROVE  /\ blocks[b].text \in Seq(STRING)
             /\ Len(blocks[b].text) \in Nat \ {0}
             /\ DOMAIN blocks[b].text = 1 .. Len(blocks[b].text)
  <2>1. blocks[b] \in Block
    BY <1>1 DEF Document
  <2>2. blocks[b].text \in Seq(STRING) \ {<<>>}
    BY <2>1 DEF Block
  <2>3. Len(blocks[b].text) # 0
    BY <2>2, EmptySeq
  <2> QED
    BY <2>2, <2>3
<1> QED
  BY <1>1, <1>2

\* The place of a token is in a fragment when its number is in the range.
LEMMA InTokens ==
    ASSUME NEW F, NEW p
    PROVE  p \in Tokens(F) <=>
               \E f \in F : p = <<p[1], p[2]>> /\ p[1] = f.block /\ p[2] \in f.from .. f.to
  BY DEF Tokens

LEMMA InPlaces ==
    ASSUME NEW p
    PROVE  p \in Places <=> /\ p = <<p[1], p[2]>>
                            /\ p[1] \in DOMAIN blocks /\ p[2] \in DOMAIN blocks[p[1]].text
  BY DEF Places, AllPlaces, Texts

\* A document has finitely many tokens.
LEMMA PlacesFinite == ASSUME blocks \in Document PROVE IsFiniteSet(Places)
<1> DEFINE line(b) == {b} \X DOMAIN blocks[b].text
           lines == {line(b) : b \in DOMAIN blocks}
           f == [b \in DOMAIN blocks |-> line(b)]
<1>1. IsFiniteSet(DOMAIN blocks)
  BY DocumentShape, FS_Interval
<1>2. f \in Surjection(DOMAIN blocks, lines)
  BY DEF Surjection
<1>3. IsFiniteSet(lines)
  BY <1>1, <1>2, FS_Surjection
<1>4. \A l \in lines : IsFiniteSet(l)
  <2> TAKE l \in lines
  <2>1. PICK b \in DOMAIN blocks : l = line(b)
    BY Zenon
  <2>2. IsFiniteSet({b}) /\ IsFiniteSet(DOMAIN blocks[b].text)
    <3>1. Len(blocks[b].text) \in Int /\ DOMAIN blocks[b].text = 1 .. Len(blocks[b].text)
      BY DocumentShape
    <3>2. IsFiniteSet(1 .. Len(blocks[b].text))
      BY <3>1, FS_Interval
    <3> QED
      BY <3>1, <3>2, FS_Singleton
  <2> QED
    BY <2>1, <2>2, FS_Product
<1>5. Places = UNION lines
  BY DEF Places, AllPlaces, Texts
<1> QED
  BY <1>3, <1>4, <1>5, FS_UNION

\* What fragments hold are tokens of the document, with numbers that can be compared.
LEMMA TokensAreTokens ==
    ASSUME blocks \in Document, NEW F \in SUBSET Fragments
    PROVE  /\ Tokens(F) \subseteq Places
           /\ Tokens(F) \subseteq Nat \X Nat
           /\ IsFiniteSet(Tokens(F))
<1>1. Tokens(F) \subseteq Places
  <2> SUFFICES ASSUME NEW p \in Tokens(F) PROVE p \in Places
    OBVIOUS
  <2>1. PICK f \in F : p = <<p[1], p[2]>> /\ p[1] = f.block /\ p[2] \in f.from .. f.to
    BY InTokens
  <2> QED
    BY <2>1, InPlaces, DocumentShape DEF Fragments
<1>2. Places \subseteq Nat \X Nat
  <2> SUFFICES ASSUME NEW p \in Places PROVE p \in Nat \X Nat
    OBVIOUS
  <2>1. p = <<p[1], p[2]>> /\ p[1] \in DOMAIN blocks /\ p[2] \in DOMAIN blocks[p[1]].text
    BY InPlaces
  <2>2. p[1] \in Nat /\ p[2] \in Nat
    BY <2>1, DocumentShape
  <2> QED
    BY <2>1, <2>2
<1> QED
  BY <1>1, <1>2, PlacesFinite, FS_Subset

LEMMA TokensUnion ==
    ASSUME NEW F, NEW G
    PROVE  Tokens(F \cup G) = Tokens(F) \cup Tokens(G)
  BY DEF Tokens

LEMMA TokensGrow == ASSUME NEW F, NEW G, F \subseteq G PROVE Tokens(F) \subseteq Tokens(G)
  BY DEF Tokens

\* A fragment has Count tokens.
LEMMA TokensOfOne ==
    ASSUME blocks \in Document, NEW f \in Fragments
    PROVE  /\ Tokens({f}) = {f.block} \X (f.from .. f.to)
           /\ Count(f) \in Nat \ {0}
           /\ IsFiniteSet(Tokens({f}))
           /\ Cardinality(Tokens({f})) = Count(f)
<1>1. Tokens({f}) = {f.block} \X (f.from .. f.to)
  BY DEF Tokens
<1> DEFINE range == f.from .. f.to
<1>2. /\ IsFiniteSet({f.block}) /\ Cardinality({f.block}) = 1
      /\ IsFiniteSet(range) /\ Cardinality(range) = Count(f)
      /\ Count(f) \in Nat \ {0}
  <2>1. f.from \in Int /\ f.to \in Int /\ f.from <= f.to
    BY DEF Fragments
  <2>2. Count(f) \in Nat \ {0}
    BY <2>1 DEF Count, Fragments
  <2>3. IsFiniteSet(range) /\ Cardinality(range) = Count(f)
    BY <2>1, FS_Interval DEF Count
  <2> QED
    BY <2>2, <2>3, FS_Singleton
<1> HIDE DEF range
<1>3. IsFiniteSet({f.block} \X range) /\ Cardinality({f.block} \X range) = 1 * Count(f)
  BY <1>2, FS_Product
<1>4. 1 * Count(f) = Count(f)
  BY <1>2
<1>5. Tokens({f}) = {f.block} \X range
  BY <1>1 DEF range
<1>6. IsFiniteSet(Tokens({f})) /\ Cardinality(Tokens({f})) = Count(f)
  BY <1>3, <1>4, <1>5
<1> QED
  BY <1>1, <1>2, <1>6

\* Places are in the order of the text.
LEMMA BeforeIsOrder ==
    ASSUME NEW p \in Nat \X Nat, NEW q \in Nat \X Nat
    PROVE  /\ ~Before(p, p)
           /\ p = q \/ Before(p, q) \/ Before(q, p)
           /\ ~(Before(p, q) /\ Before(q, p))
           /\ \A r \in Nat \X Nat : Before(p, q) /\ Before(q, r) => Before(p, r)
  BY DEF Before

LEMMA EarlierTokens ==
    ASSUME blocks \in Document, NEW f \in Fragments, NEW g \in Fragments, Earlier(f, g),
           NEW p \in Tokens({f}), NEW q \in Tokens({g})
    PROVE  Before(p, q)
<1>1. p[1] = f.block /\ p[2] \in f.from .. f.to
  BY InTokens
<1>2. q[1] = g.block /\ q[2] \in g.from .. g.to
  BY InTokens
<1> QED
  BY <1>1, <1>2, DocumentShape DEF Earlier, Before, Fragments

---------------------------------------------------------------------------
(* Cutting a piece loses no token. *)

LEMMA PartAndRest ==
    ASSUME blocks \in Document, NEW f \in Fragments, NEW n \in 1 .. Count(f) - 1
    PROVE  /\ Part(f, n) \in Fragments /\ Rest(f, n) \in Fragments
           /\ Earlier(Part(f, n), Rest(f, n))
           /\ Tokens({Part(f, n), Rest(f, n)}) = Tokens({f})
           /\ \A g \in Fragments : /\ Earlier(f, g) => Earlier(Part(f, n), g)
                                                       /\ Earlier(Rest(f, n), g)
                                   /\ Earlier(g, f) => Earlier(g, Part(f, n))
                                                       /\ Earlier(g, Rest(f, n))
<1>1. /\ f.block \in DOMAIN blocks /\ f.from \in Nat \ {0} /\ f.to \in Nat \ {0}
      /\ f.from <= f.to /\ f.to <= Len(blocks[f.block].text)
      /\ n \in Nat /\ f.from <= f.from + n - 1 /\ f.from + n - 1 < f.from + n
      /\ f.from + n <= f.to /\ f.block \in Nat /\ Len(blocks[f.block].text) \in Nat
  BY DocumentShape DEF Fragments, Count
<1>2. Part(f, n) \in Fragments /\ Rest(f, n) \in Fragments
  BY <1>1 DEF Part, Rest, Fragment, Fragments
<1>3. Earlier(Part(f, n), Rest(f, n))
  BY <1>1 DEF Part, Rest, Fragment, Earlier
<1>4. Tokens({Part(f, n), Rest(f, n)}) = Tokens({f})
  <2>1. f.from .. f.to = (f.from .. f.from + n - 1) \cup (f.from + n .. f.to)
    BY <1>1
  <2>2. Tokens({f}) = {f.block} \X (f.from .. f.to)
    BY DEF Tokens
  <2>3. Tokens({Part(f, n), Rest(f, n)}) =
          ({f.block} \X (f.from .. f.from + n - 1)) \cup ({f.block} \X (f.from + n .. f.to))
    BY DEF Tokens, Part, Rest, Fragment
  <2> QED
    BY <2>1, <2>2, <2>3
<1>5. ASSUME NEW g \in Fragments
      PROVE  /\ Earlier(f, g) => Earlier(Part(f, n), g) /\ Earlier(Rest(f, n), g)
             /\ Earlier(g, f) => Earlier(g, Part(f, n)) /\ Earlier(g, Rest(f, n))
  BY <1>1, DocumentShape DEF Part, Rest, Fragment, Earlier, Fragments
<1> QED
  BY <1>2, <1>3, <1>4, <1>5

\* Only one of two fragments is the earlier one.
LEMMA EarlierIsOrder ==
    ASSUME blocks \in Document, NEW f \in Fragments, NEW g \in Fragments, Earlier(f, g)
    PROVE  f # g /\ ~Earlier(g, f)
           /\ \A h \in Fragments : Earlier(g, h) => Earlier(f, h)
  BY DocumentShape DEF Earlier, Fragments

\* After a cut there are the same tokens, still in fragments that do not overlap.
LEMMA CutKeepsTokens ==
    ASSUME blocks \in Document, pieces \subseteq Fragments, Ordered(pieces),
           NEW f \in pieces, NEW n \in 1 .. Count(f) - 1
    PROVE  /\ Cut(f, n) \subseteq Fragments
           /\ Ordered(Cut(f, n))
           /\ Tokens(Cut(f, n)) = Tokens(pieces)
<1>1. f \in Fragments
  OBVIOUS
<1>2. Cut(f, n) \subseteq Fragments
  BY <1>1, PartAndRest DEF Cut
<1>3. Ordered(Cut(f, n))
  <2>1. ASSUME NEW g \in pieces \ {f}
        PROVE  \/ Earlier(g, Part(f, n)) /\ Earlier(g, Rest(f, n))
               \/ Earlier(Part(f, n), g) /\ Earlier(Rest(f, n), g)
    <3>1. Earlier(f, g) \/ Earlier(g, f)
      BY DEF Ordered
    <3> QED
      BY <1>1, <3>1, PartAndRest
  <2>2. Earlier(Part(f, n), Rest(f, n))
    BY <1>1, PartAndRest
  <2> SUFFICES ASSUME NEW g \in Cut(f, n), NEW h \in Cut(f, n)
               PROVE  g = h \/ Earlier(g, h) \/ Earlier(h, g)
    BY DEF Ordered
  <2>3. CASE g \in pieces \ {f} /\ h \in pieces \ {f}
    BY <2>3 DEF Ordered
  <2>4. CASE g \in {Part(f, n), Rest(f, n)} /\ h \in pieces \ {f}
    BY <2>1, <2>4
  <2>5. CASE g \in pieces \ {f} /\ h \in {Part(f, n), Rest(f, n)}
    BY <2>1, <2>5
  <2>6. CASE g \in {Part(f, n), Rest(f, n)} /\ h \in {Part(f, n), Rest(f, n)}
    BY <2>2, <2>6
  <2> QED
    BY <2>3, <2>4, <2>5, <2>6 DEF Cut
<1>4. Tokens(Cut(f, n)) = Tokens(pieces)
  <2>1. Tokens(Cut(f, n)) = Tokens(pieces \ {f}) \cup Tokens({Part(f, n), Rest(f, n)})
    BY TokensUnion DEF Cut
  <2>2. Tokens({Part(f, n), Rest(f, n)}) = Tokens({f})
    BY <1>1, PartAndRest
  <2>3. Tokens(pieces) = Tokens(pieces \ {f}) \cup Tokens({f})
    <3>1. pieces = (pieces \ {f}) \cup {f}
      OBVIOUS
    <3> QED
      BY <3>1, TokensUnion
  <2> QED
    BY <2>1, <2>2, <2>3
<1> QED
  BY <1>2, <1>3, <1>4

\* The first piece and the others share no token.
LEMMA WithoutFirst ==
    ASSUME blocks \in Document, pieces \subseteq Fragments, NEW f, FirstPiece(f)
    PROVE  /\ Tokens(pieces) = Tokens(pieces \ {f}) \cup Tokens({f})
           /\ \A p \in Tokens({f}), q \in Tokens(pieces \ {f}) : Before(p, q)
<1>1. f \in Fragments /\ pieces = (pieces \ {f}) \cup {f}
  BY DEF FirstPiece
<1>2. Tokens(pieces) = Tokens(pieces \ {f}) \cup Tokens({f})
  BY <1>1, TokensUnion
<1>3. ASSUME NEW p \in Tokens({f}), NEW q \in Tokens(pieces \ {f})
      PROVE  Before(p, q)
  <2>1. PICK g \in pieces \ {f} : q = <<q[1], q[2]>> /\ q[1] = g.block /\ q[2] \in g.from .. g.to
    BY InTokens
  <2>2. q \in Tokens({g})
    BY <2>1, InTokens
  <2> QED
    BY <1>1, <2>1, <2>2, EarlierTokens DEF FirstPiece
<1> QED
  BY <1>2, <1>3

---------------------------------------------------------------------------
(* The sentences of a block do not overlap, and its pieces hold all but the skipped
   tokens. *)

LEMMA SentencesApart ==
    ASSUME NEW text \in Seq(STRING), NEW s \in Sentences(text), NEW t \in Sentences(text)
    PROVE  s = t \/ s[2] < t[1] \/ t[2] < s[1]
<1>1. ASSUME NEW u \in Sentences(text)
      PROVE  /\ u = <<u[1], u[2]>> /\ u[1] \in 1 .. Len(text) /\ u[2] \in 1 .. Len(text)
             /\ u[1] <= u[2] /\ u[2] \in Breaks(text)
             /\ u[1] = 1 \/ u[1] - 1 \in Breaks(text)
             /\ \A i \in Breaks(text) : ~(u[1] <= i /\ i < u[2])
  <2>1. /\ u \in (DOMAIN text) \X Breaks(text)
        /\ u[1] = 1 \/ u[1] - 1 \in Breaks(text)
        /\ u[1] <= u[2] /\ u[1] .. (u[2] - 1) \cap Breaks(text) = {}
    BY DEF Sentences
  <2>2. Breaks(text) \subseteq 1 .. Len(text) /\ Len(text) \in Nat
    BY DEF Breaks
  <2>3. /\ u = <<u[1], u[2]>> /\ u[1] \in 1 .. Len(text)
        /\ u[2] \in 1 .. Len(text) /\ u[2] \in Breaks(text)
    BY <2>1, <2>2
  <2>4. ASSUME NEW i \in Breaks(text), u[1] <= i, i < u[2] PROVE FALSE
    <3>1. i \in u[1] .. (u[2] - 1)
      BY <2>2, <2>3, <2>4
    <3> QED
      BY <2>1, <3>1
  <2> QED
    BY <2>1, <2>3, <2>4
<1>2. CASE s[1] = t[1]
  <2>1. s[2] = t[2]
    BY <1>1, <1>2
  <2> QED
    BY <1>1, <1>2, <2>1
<1>3. CASE s[1] < t[1]
  BY <1>1, <1>3
<1>4. CASE t[1] < s[1]
  BY <1>1, <1>4
<1> QED
  BY <1>1, <1>2, <1>3, <1>4

\* The places that Divide puts into pieces.
Collected == UNION {{b} \X (DOMAIN blocks[b].text \ Skipped(b)) : b \in DOMAIN blocks}

LEMMA SplitOfBlock ==
    ASSUME blocks \in Document, NEW b \in DOMAIN blocks
    PROVE  /\ Split(b) \subseteq Fragments
           /\ Ordered(Split(b))
           /\ \A f \in Split(b) : f.block = b
           /\ Tokens(Split(b)) = {b} \X (DOMAIN blocks[b].text \ Skipped(b))
<1> DEFINE text == blocks[b].text
<1>1. /\ text \in Seq(STRING) /\ Len(text) \in Nat \ {0} /\ DOMAIN text = 1 .. Len(text)
      /\ b \in Nat \ {0}
  BY DocumentShape
<1>2. CASE ~Divided(b)
  <2>1. Split(b) = {Fragment(b, 1, Len(text))} /\ Skipped(b) = {}
    BY <1>2 DEF Split, Skipped
  <2>2. Fragment(b, 1, Len(text)) \in Fragments
    BY <1>1 DEF Fragment, Fragments
  <2>3. Tokens(Split(b)) = {b} \X (1 .. Len(text))
    BY <2>1 DEF Tokens, Fragment
  <2>4. /\ Split(b) \subseteq Fragments
        /\ Ordered(Split(b))
        /\ \A f \in Split(b) : f.block = b
    BY <2>1, <2>2 DEF Ordered, Fragment
  <2> QED
    BY <1>1, <2>1, <2>3, <2>4
<1>3. CASE Divided(b)
  <2>1. /\ Split(b) = {Fragment(b, s[1], s[2]) : s \in Sentences(text)}
        /\ Skipped(b) = DOMAIN text \ UNION {s[1] .. s[2] : s \in Sentences(text)}
    BY <1>3 DEF Split, Skipped
  <2>2. ASSUME NEW s \in Sentences(text)
        PROVE  s[1] \in 1 .. Len(text) /\ s[2] \in 1 .. Len(text) /\ s[1] <= s[2]
    BY <1>1 DEF Sentences, Breaks
  <2>3. ASSUME NEW f \in Split(b)
        PROVE  f \in Fragments /\ f.block = b
    <3>1. PICK s \in Sentences(text) : f = Fragment(b, s[1], s[2])
      BY <2>1
    <3> QED
      BY <1>1, <2>2, <3>1 DEF Fragment, Fragments
  <2>4. Ordered(Split(b))
    <3> SUFFICES ASSUME NEW f \in Split(b), NEW g \in Split(b)
                 PROVE  f = g \/ Earlier(f, g) \/ Earlier(g, f)
      BY DEF Ordered
    <3>1. PICK s \in Sentences(text) : f = Fragment(b, s[1], s[2])
      BY <2>1
    <3>2. PICK t \in Sentences(text) : g = Fragment(b, t[1], t[2])
      BY <2>1
    <3>3. s = t \/ s[2] < t[1] \/ t[2] < s[1]
      BY <1>1, SentencesApart
    <3> QED
      BY <3>1, <3>2, <3>3 DEF Fragment, Earlier
  <2>5. DOMAIN text \ Skipped(b) = UNION {s[1] .. s[2] : s \in Sentences(text)}
    <3>1. \A s \in Sentences(text) : s[1] .. s[2] \subseteq DOMAIN text
      BY <1>1, <2>2
    <3> QED
      BY <2>1, <3>1
  <2>6. Tokens(Split(b)) = {b} \X UNION {s[1] .. s[2] : s \in Sentences(text)}
    <3>1. ASSUME NEW p \in Tokens(Split(b))
          PROVE  p \in {b} \X UNION {s[1] .. s[2] : s \in Sentences(text)}
      <4>1. PICK f \in Split(b) : p = <<p[1], p[2]>> /\ p[1] = f.block /\ p[2] \in f.from .. f.to
        BY InTokens
      <4>2. PICK s \in Sentences(text) : f = Fragment(b, s[1], s[2])
        BY <2>1
      <4> QED
        BY <4>1, <4>2 DEF Fragment
    <3>2. ASSUME NEW p \in {b} \X UNION {s[1] .. s[2] : s \in Sentences(text)}
          PROVE  p \in Tokens(Split(b))
      <4>1. PICK s \in Sentences(text) : p[2] \in s[1] .. s[2]
        OBVIOUS
      <4>2. Fragment(b, s[1], s[2]) \in Split(b)
        BY <2>1
      <4> QED
        BY <4>1, <4>2, InTokens DEF Fragment
    <3> QED
      BY <3>1, <3>2
  <2> QED
    BY <2>3, <2>4, <2>5, <2>6
<1> QED
  BY <1>2, <1>3

\* The pieces that a document is divided into do not overlap and hold what is collected.
LEMMA PiecesOfDocument ==
    ASSUME blocks \in Document
    PROVE  LET all == UNION {Split(b) : b \in DOMAIN blocks}
           IN  /\ all \subseteq Fragments
               /\ Ordered(all)
               /\ Tokens(all) = Collected
<1> DEFINE all == UNION {Split(b) : b \in DOMAIN blocks}
<1>1. ASSUME NEW f \in all
      PROVE  /\ f \in Fragments
             /\ f.block \in DOMAIN blocks
             /\ f \in Split(f.block)
  <2>1. PICK b \in DOMAIN blocks : f \in Split(b)
    OBVIOUS
  <2> QED
    BY <2>1, SplitOfBlock
<1>2. Ordered(all)
  <2> SUFFICES ASSUME NEW f \in all, NEW g \in all
               PROVE  f = g \/ Earlier(f, g) \/ Earlier(g, f)
    BY DEF Ordered
  <2>1. CASE f.block = g.block
    BY <1>1, <2>1, SplitOfBlock DEF Ordered
  <2>2. CASE f.block # g.block
    BY <1>1, <2>2, DocumentShape DEF Earlier
  <2> QED
    BY <2>1, <2>2
<1>3. Tokens(all) = Collected
  <2>1. ASSUME NEW p \in Tokens(all) PROVE p \in Collected
    <3>1. PICK f \in all : p = <<p[1], p[2]>> /\ p[1] = f.block /\ p[2] \in f.from .. f.to
      BY InTokens
    <3>2. p \in Tokens(Split(f.block))
      BY <1>1, <3>1, InTokens
    <3> QED
      BY <1>1, <3>2, SplitOfBlock DEF Collected
  <2>2. ASSUME NEW p \in Collected PROVE p \in Tokens(all)
    <3>1. PICK b \in DOMAIN blocks : p \in {b} \X (DOMAIN blocks[b].text \ Skipped(b))
      BY DEF Collected
    <3>2. p \in Tokens(Split(b))
      BY <3>1, SplitOfBlock
    <3>3. Split(b) \subseteq all
      OBVIOUS
    <3> QED
      BY <3>2, <3>3, TokensGrow
  <2> QED
    BY <2>1, <2>2
<1> QED
  BY <1>1, <1>2, <1>3

---------------------------------------------------------------------------
(* Merging: one span per block holds every token of its fragments. *)

LEMMA LeastNat ==
    ASSUME NEW S \in SUBSET Nat, S # {}
    PROVE  \E n \in S : \A m \in S : n <= m
<1>1. PICK n \in S : \A m \in S : ~(<<m, n>> \in OpToRel(<, Nat))
  BY WFMin, NatLessThanWellFounded
<1>2. ASSUME NEW m \in S, m < n PROVE FALSE
  <2>1. <<m, n>> \in OpToRel(<, Nat)
    BY <1>2 DEF OpToRel
  <2> QED
    BY <1>1, <2>1
<1> QED
  BY <1>2

\* Fragments of one block have a leftmost and a rightmost one.
LEMMA Ends ==
    ASSUME blocks \in Document, NEW F \in SUBSET Fragments, F # {},
           NEW b \in DOMAIN blocks, \A f \in F : f.block = b
    PROVE  \E f, g \in F : \A h \in F : f.from <= h.from /\ h.to <= g.to
<1> DEFINE starts == {f.from : f \in F}
           rooms == {Len(blocks[b].text) - f.to : f \in F}
<1>1. starts \in SUBSET Nat /\ starts # {}
  BY DEF Fragments
<1>2. PICK f \in F : \A h \in F : f.from <= h.from
  <2>1. PICK n \in starts : \A m \in starts : n <= m
    BY <1>1, LeastNat
  <2> QED
    BY <2>1
<1>3. Len(blocks[b].text) \in Nat
  BY DocumentShape
<1>4. rooms \in SUBSET Nat /\ rooms # {}
  BY <1>3 DEF Fragments
<1>5. PICK g \in F : \A h \in F : h.to <= g.to
  <2>1. PICK n \in rooms : \A m \in rooms : n <= m
    BY <1>4, LeastNat
  <2>2. PICK g \in F : n = Len(blocks[b].text) - g.to
    BY <2>1
  <2>3. \A h \in F : Len(blocks[b].text) - g.to <= Len(blocks[b].text) - h.to
    BY <2>1, <2>2
  <2>4. ASSUME NEW h \in F PROVE h.to <= g.to
    <3>1. h.to \in Nat /\ g.to \in Nat
      BY DEF Fragments
    <3> QED
      BY <1>3, <2>3, <3>1
  <2> QED
    BY <2>4
<1> QED
  BY <1>2, <1>5

LEMMA MergedHolds ==
    ASSUME blocks \in Document, NEW F \in SUBSET Fragments
    PROVE  /\ Tokens(F) \subseteq Tokens(Merged(F))
           /\ \A s \in Merged(F) : \E f \in F : s.block = f.block
           /\ \A p \in Tokens(Merged(F)) :
                 \E f, g \in F : /\ f.block = p[1] /\ g.block = p[1]
                                 /\ f.from <= p[2] /\ p[2] <= g.to
<1>1. ASSUME NEW p \in Tokens(F) PROVE p \in Tokens(Merged(F))
  <2>1. PICK e \in F : p = <<p[1], p[2]>> /\ p[1] = e.block /\ p[2] \in e.from .. e.to
    BY InTokens
  <2> DEFINE G == {f \in F : f.block = e.block}
  <2>2. G \in SUBSET Fragments /\ G # {} /\ e \in G /\ e.block \in DOMAIN blocks
    BY DEF Fragments
  <2>3. PICK f \in G, g \in G : \A h \in G : f.from <= h.from /\ h.to <= g.to
    BY <2>2, Ends
  <2> DEFINE s == Fragment(f.block, f.from, g.to)
  <2>4. s \in Merged(F)
    <3>1. s \in Spans(F)
      BY <2>3 DEF Spans
    <3>2. \A h \in F : h.block = s.block => s.from <= h.from /\ h.to <= s.to
      BY <2>3 DEF Fragment
    <3> QED
      BY <3>1, <3>2 DEF Merged
  <2>5. p[2] \in f.from .. g.to
    <3>1. f.from <= e.from /\ e.to <= g.to
      BY <2>2, <2>3
    <3>2. f.from \in Nat /\ g.to \in Nat /\ e.from \in Nat /\ e.to \in Nat
      BY DEF Fragments
    <3> QED
      BY <2>1, <3>1, <3>2
  <2>6. p[1] = s.block /\ p[2] \in s.from .. s.to
    BY <2>1, <2>3, <2>5 DEF Fragment
  <2> QED
    BY <2>1, <2>4, <2>6, InTokens
<1>2. ASSUME NEW s \in Merged(F)
      PROVE  \E f, g \in F : /\ s.block = f.block /\ s.block = g.block
                             /\ s.from = f.from /\ s.to = g.to
  BY DEF Merged, Spans, Fragment
<1>3. ASSUME NEW p \in Tokens(Merged(F))
      PROVE  \E f, g \in F : /\ f.block = p[1] /\ g.block = p[1]
                             /\ f.from <= p[2] /\ p[2] <= g.to
  <2>1. PICK s \in Merged(F) : p[1] = s.block /\ p[2] \in s.from .. s.to
    BY InTokens
  <2>2. PICK f \in F, g \in F : /\ s.block = f.block /\ s.block = g.block
                                /\ s.from = f.from /\ s.to = g.to
    BY <1>2
  <2>3. f.from \in Nat /\ g.to \in Nat
    BY DEF Fragments
  <2>4. f.from <= p[2] /\ p[2] <= g.to
    BY <2>1, <2>2, <2>3
  <2> QED
    BY <2>1, <2>2, <2>4
<1> QED
  BY <1>1, <1>2, <1>3

---------------------------------------------------------------------------
(* The overlap: at most limit tokens, up to the end of the chunk. *)

\* The fragments behind f, and the room that they leave.
Behind(f, F) == {g \in F : Earlier(f, g)}
Room(f, F, limit) == limit - Cardinality(Tokens(Behind(f, F)))
LastPart(f, room) == IF Count(f) <= room THEN f ELSE [f EXCEPT !.from = f.to - room + 1]

LEMMA TailIsLastParts ==
    ASSUME NEW F, NEW limit
    PROVE  TailOverlap(F, limit) =
               {LastPart(f, Room(f, F, limit)) : f \in {f \in F : Room(f, F, limit) > 0}}
  BY DEF TailOverlap, LastPart, Room, Behind

LEMMA LastPartIsEnd ==
    ASSUME blocks \in Document, NEW f \in Fragments, NEW room \in Nat \ {0}
    PROVE  /\ LastPart(f, room) \in Fragments
           /\ LastPart(f, room).block = f.block
           /\ LastPart(f, room).to = f.to
           /\ f.from <= LastPart(f, room).from
           /\ f.to - LastPart(f, room).from < room
           /\ Count(f) <= room => LastPart(f, room) = f
<1>1. /\ f.block \in DOMAIN blocks /\ f.from \in Nat \ {0} /\ f.to \in Nat \ {0}
      /\ f.from <= f.to /\ f.to <= Len(blocks[f.block].text)
      /\ f = [block |-> f.block, from |-> f.from, to |-> f.to]
  BY DEF Fragments
<1>2. CASE Count(f) <= room
  BY <1>1, <1>2 DEF LastPart, Count
<1>3. CASE ~(Count(f) <= room)
  <2>1. LastPart(f, room) = [block |-> f.block, from |-> f.to - room + 1, to |-> f.to]
    BY <1>1, <1>3 DEF LastPart
  <2>2. f.to - room + 1 \in Nat \ {0} /\ f.from <= f.to - room + 1 /\ f.to - room + 1 <= f.to
    BY <1>1, <1>3 DEF Count
  <2> QED
    BY <1>1, <1>3, <2>1, <2>2 DEF Fragments
<1> QED
  BY <1>2, <1>3

\* The room of a fragment is a number, and a fragment that another one with room is before
\* fits whole.
LEMMA RoomBehind ==
    ASSUME blocks \in Document, NEW F \in SUBSET Fragments, NEW limit \in Nat
    PROVE  /\ \A f \in F : Room(f, F, limit) \in Int
           /\ \A f, g \in F :
                 Earlier(f, g) /\ Room(f, F, limit) > 0 => Count(g) < Room(g, F, limit)
<1>1. ASSUME NEW f \in F
      PROVE  /\ Behind(f, F) \in SUBSET Fragments
             /\ IsFiniteSet(Tokens(Behind(f, F)))
             /\ Cardinality(Tokens(Behind(f, F))) \in Nat
             /\ Room(f, F, limit) \in Int
  <2>1. Behind(f, F) \in SUBSET Fragments
    BY DEF Behind
  <2>2. IsFiniteSet(Tokens(Behind(f, F)))
    BY <2>1, TokensAreTokens
  <2>3. Cardinality(Tokens(Behind(f, F))) \in Nat
    BY <2>2, FS_CardinalityType
  <2> QED
    BY <2>1, <2>2, <2>3 DEF Room
<1>2. ASSUME NEW f \in F, NEW g \in F, Earlier(f, g), Room(f, F, limit) > 0
      PROVE  Count(g) < Room(g, F, limit)
  <2> DEFINE after == Tokens(Behind(g, F))
             own == Tokens({g})
             all == Tokens(Behind(f, F))
  <2>1. /\ IsFiniteSet(own) /\ Cardinality(own) = Count(g) /\ Count(g) \in Nat
        /\ IsFiniteSet(after) /\ Cardinality(after) \in Nat
        /\ IsFiniteSet(all) /\ Cardinality(all) \in Nat
    BY <1>1, TokensOfOne
  <2>2. own \cup after \subseteq all
    <3>1. Behind(g, F) \subseteq Behind(f, F) /\ {g} \subseteq Behind(f, F)
      BY <1>2, EarlierIsOrder DEF Behind
    <3> QED
      BY <3>1, TokensGrow
  <2>3. own \cap after = {}
    <3> SUFFICES ASSUME NEW p \in own, p \in after PROVE FALSE
      OBVIOUS
    <3>1. PICK h \in Behind(g, F) :
            p = <<p[1], p[2]>> /\ p[1] = h.block /\ p[2] \in h.from .. h.to
      BY InTokens
    <3>2. h \in Fragments /\ Earlier(g, h) /\ p \in Tokens({h})
      BY <3>1, InTokens DEF Behind
    <3>3. Before(p, p)
      BY <3>2, EarlierTokens
    <3>4. p \in Nat \X Nat
      BY <3>2, TokensAreTokens
    <3> QED
      BY <3>3, <3>4, BeforeIsOrder
  <2> HIDE DEF after, own, all
  <2>4. /\ IsFiniteSet(own \cup after)
        /\ Cardinality(own \cup after) = Cardinality(own) + Cardinality(after)
    <3>1. Cardinality(own \cap after) = 0
      BY <2>3, FS_EmptySet
    <3>2. /\ IsFiniteSet(own \cup after)
          /\ Cardinality(own \cup after) =
               Cardinality(own) + Cardinality(after) - Cardinality(own \cap after)
      BY <2>1, FS_Union
    <3> QED
      BY <2>1, <3>1, <3>2
  <2>5. Cardinality(own \cup after) <= Cardinality(all)
    BY <2>1, <2>2, FS_Subset
  <2>6. Room(f, F, limit) = limit - Cardinality(all)
        /\ Room(g, F, limit) = limit - Cardinality(after)
    BY DEF Room, all, after
  <2> QED
    BY <1>2, <2>1, <2>4, <2>5, <2>6
<1> QED
  BY <1>1, <1>2

\* The overlap is an end of the chunk: with a token it has all that follow.
LEMMA TailIsEnd ==
    ASSUME blocks \in Document, NEW F \in SUBSET Fragments, Ordered(F), NEW limit \in Nat
    PROVE  LET tail == TailOverlap(F, limit)
           IN  /\ tail \in SUBSET Fragments
               /\ Ordered(tail)
               /\ \A g \in tail : \E f \in F : g.block = f.block
               /\ Tokens(tail) \subseteq Tokens(F)
               /\ \A p \in Tokens(tail), q \in Tokens(F) : Before(p, q) => q \in Tokens(tail)
<1> DEFINE room(f) == Room(f, F, limit)
           last(f) == LastPart(f, room(f))
           tail == TailOverlap(F, limit)
<1>1. tail = {last(f) : f \in {f \in F : room(f) > 0}}
  BY TailIsLastParts
<1>2. ASSUME NEW f \in F, room(f) > 0
      PROVE  /\ last(f) \in Fragments /\ last(f).block = f.block
             /\ last(f).to = f.to /\ f.from <= last(f).from
             /\ Count(f) <= room(f) => last(f) = f
  <2>1. room(f) \in Nat \ {0}
    BY <1>2, RoomBehind
  <2> QED
    BY <2>1, LastPartIsEnd
<1>3. ASSUME NEW g \in tail
      PROVE  \E f \in F : room(f) > 0 /\ g = last(f)
  BY <1>1
<1> HIDE DEF room, last, tail
<1>4. tail \in SUBSET Fragments /\ \A g \in tail : \E f \in F : g.block = f.block
  BY <1>2, <1>3
<1>5. Ordered(tail)
  <2> SUFFICES ASSUME NEW g \in tail, NEW h \in tail
               PROVE  g = h \/ Earlier(g, h) \/ Earlier(h, g)
    BY DEF Ordered
  <2>1. PICK f \in F : room(f) > 0 /\ g = last(f)
    BY <1>3
  <2>2. PICK e \in F : room(e) > 0 /\ h = last(e)
    BY <1>3
  <2>3. f = e \/ Earlier(f, e) \/ Earlier(e, f)
    BY DEF Ordered
  <2>4. /\ g \in Fragments /\ g.block = f.block /\ g.to = f.to /\ f.from <= g.from
        /\ h \in Fragments /\ h.block = e.block /\ h.to = e.to /\ e.from <= h.from
    BY <1>2, <2>1, <2>2
  <2>5. f.from \in Nat /\ e.from \in Nat /\ g.from \in Nat /\ h.from \in Nat
        /\ f.to \in Nat /\ e.to \in Nat
    BY <2>4 DEF Fragments
  <2> QED
    BY <2>1, <2>2, <2>3, <2>4, <2>5 DEF Earlier
<1>6. Tokens(tail) \subseteq Tokens(F)
  <2> SUFFICES ASSUME NEW p \in Tokens(tail) PROVE p \in Tokens(F)
    OBVIOUS
  <2>1. PICK g \in tail : p = <<p[1], p[2]>> /\ p[1] = g.block /\ p[2] \in g.from .. g.to
    BY InTokens
  <2>2. PICK f \in F : room(f) > 0 /\ g = last(f)
    BY <1>3
  <2>3. g \in Fragments /\ g.block = f.block /\ g.to = f.to /\ f.from <= g.from
    BY <1>2, <2>2
  <2>4. p[2] \in f.from .. f.to
    BY <2>1, <2>3 DEF Fragments
  <2> QED
    BY <2>1, <2>3, <2>4, InTokens
<1>7. ASSUME NEW p \in Tokens(tail), NEW q \in Tokens(F), Before(p, q)
      PROVE  q \in Tokens(tail)
  <2>1. PICK g \in tail : p = <<p[1], p[2]>> /\ p[1] = g.block /\ p[2] \in g.from .. g.to
    BY InTokens
  <2>2. PICK f \in F : room(f) > 0 /\ g = last(f)
    BY <1>3
  <2>3. PICK e \in F : q = <<q[1], q[2]>> /\ q[1] = e.block /\ q[2] \in e.from .. e.to
    BY InTokens
  <2>4. g \in Fragments /\ g.block = f.block /\ g.to = f.to /\ f.from <= g.from
    BY <1>2, <2>2
  <2>5. CASE e = f
    <3>1. q[2] \in g.from .. g.to
      BY <1>7, <2>1, <2>3, <2>4, <2>5, DocumentShape DEF Before, Fragments
    <3> QED
      BY <2>3, <2>4, <2>5, <3>1, InTokens
  <2>6. CASE Earlier(f, e)
    <3>1. room(e) \in Int /\ Count(e) < room(e) /\ Count(e) \in Nat
      BY <2>2, <2>6, RoomBehind, TokensOfOne DEF room
    <3>2. last(e) = e
      BY <1>2, <3>1
    <3>3. e \in tail
      BY <1>1, <3>1, <3>2 DEF tail, last, room
    <3> QED
      BY <2>3, <3>3, InTokens
  <2>7. CASE Earlier(e, f)
    <3>1. q \in Tokens({e}) /\ p \in Tokens({f})
      <4>1. p[2] \in f.from .. f.to
        BY <2>1, <2>4 DEF Fragments
      <4> QED
        BY <2>1, <2>3, <2>4, <4>1, InTokens
    <3>2. Before(q, p)
      BY <2>7, <3>1, EarlierTokens
    <3>3. p \in Nat \X Nat /\ q \in Nat \X Nat
      BY <1>4, TokensAreTokens
    <3> QED
      BY <1>7, <3>2, <3>3, BeforeIsOrder
  <2> QED
    BY <2>5, <2>6, <2>7 DEF Ordered
<1> QED
  BY <1>4, <1>5, <1>6, <1>7 DEF tail

\* The overlap has at most limit tokens: the number of tokens that follow tells its tokens
\* apart, and is less than the limit.
LEMMA TailSize ==
    ASSUME blocks \in Document, NEW F \in SUBSET Fragments, Ordered(F), NEW limit \in Nat
    PROVE  Cardinality(Tokens(TailOverlap(F, limit))) <= limit
<1> DEFINE T == Tokens(TailOverlap(F, limit))
           after(p) == {q \in T : Before(p, q)}
           rank == [p \in T |-> Cardinality(after(p))]
<1>1. /\ T \subseteq Nat \X Nat /\ IsFiniteSet(T) /\ T \subseteq Tokens(F)
      /\ IsFiniteSet(Tokens(F))
  BY TailIsEnd, TokensAreTokens
<1>2. ASSUME NEW p \in T
      PROVE  /\ IsFiniteSet(after(p)) /\ Cardinality(after(p)) \in Nat
             /\ Cardinality(after(p)) < limit
  <2>1. IsFiniteSet(after(p)) /\ Cardinality(after(p)) \in Nat
    BY <1>1, FS_Subset, FS_CardinalityType
  <2>2. PICK g \in TailOverlap(F, limit) :
          p = <<p[1], p[2]>> /\ p[1] = g.block /\ p[2] \in g.from .. g.to
    BY InTokens
  <2>3. PICK f \in F : /\ Room(f, F, limit) > 0
                       /\ g = LastPart(f, Room(f, F, limit))
    BY TailIsLastParts
  <2> DEFINE room == Room(f, F, limit)
             behind == Tokens(Behind(f, F))
             rest == p[2] + 1 .. f.to
  <2>4. room \in Nat \ {0} /\ room = limit - Cardinality(behind)
    BY <2>3, RoomBehind DEF Room
  <2>5. /\ g \in Fragments /\ g.block = f.block /\ g.to = f.to
        /\ f.from <= g.from /\ f.to - g.from < room
    BY <2>3, <2>4, LastPartIsEnd
  <2>6. /\ p[2] \in Nat /\ f.to \in Nat /\ f.from \in Nat /\ f.from <= p[2] /\ p[2] <= f.to
        /\ f.to - p[2] < room /\ p[1] = f.block
    <3>1. /\ g.from \in Nat /\ g.to \in Nat /\ f.to \in Nat /\ f.from \in Nat
          /\ room \in Nat
      BY <2>4, <2>5 DEF Fragments
    <3> HIDE DEF room
    <3> QED
      BY <2>2, <2>5, <3>1
  <2>7. IsFiniteSet(behind) /\ Cardinality(behind) \in Nat
    <3>1. Behind(f, F) \in SUBSET Fragments
      BY DEF Behind
    <3> QED
      BY <3>1, TokensAreTokens, FS_CardinalityType
  <2> HIDE DEF room, behind
  <2>8. IsFiniteSet({f.block} \X rest) /\ Cardinality({f.block} \X rest) = f.to - p[2]
    <3>1. IsFiniteSet(rest) /\ Cardinality(rest) = f.to - p[2]
      <4>1. p[2] + 1 \in Int /\ f.to \in Int
        BY <2>6
      <4>2. /\ IsFiniteSet(rest)
            /\ Cardinality(rest) = IF p[2] + 1 > f.to THEN 0 ELSE f.to - (p[2] + 1) + 1
        BY <4>1, FS_Interval
      <4> QED
        BY <2>6, <4>2
    <3> HIDE DEF rest
    <3>2. IsFiniteSet({f.block}) /\ Cardinality({f.block}) = 1
      BY FS_Singleton
    <3>3. /\ IsFiniteSet({f.block} \X rest)
          /\ Cardinality({f.block} \X rest) = 1 * Cardinality(rest)
      BY <3>1, <3>2, FS_Product
    <3> QED
      BY <2>6, <3>1, <3>3
  <2>9. after(p) \subseteq ({f.block} \X rest) \cup behind
    <3> SUFFICES ASSUME NEW q \in T, Before(p, q)
                 PROVE  q \in ({f.block} \X rest) \cup behind
      OBVIOUS
    <3>1. PICK e \in F : q = <<q[1], q[2]>> /\ q[1] = e.block /\ q[2] \in e.from .. e.to
      BY <1>1, InTokens
    <3>2. CASE e = f
      <4>1. q[1] = f.block /\ q[2] \in rest
        BY <2>6, <3>1, <3>2, DocumentShape DEF Before, Fragments
      <4> QED
        BY <3>1, <4>1
    <3>3. CASE Earlier(f, e)
      <4>1. e \in Behind(f, F)
        BY <3>3 DEF Behind
      <4> QED
        BY <3>1, <4>1, InTokens DEF behind
    <3>4. CASE Earlier(e, f)
      <4>1. q \in Tokens({e}) /\ p \in Tokens({f})
        BY <2>2, <2>6, <3>1, InTokens
      <4>2. Before(q, p)
        BY <3>4, <4>1, EarlierTokens
      <4> QED
        BY <1>1, <3>1, <4>2, BeforeIsOrder
    <3> QED
      BY <3>2, <3>3, <3>4 DEF Ordered
  <2>10. Cardinality(after(p)) <= (f.to - p[2]) + Cardinality(behind)
    <3> DEFINE both == ({f.block} \X rest) \cup behind
               common == ({f.block} \X rest) \cap behind
    <3>1. /\ IsFiniteSet(both)
          /\ Cardinality(both) = (f.to - p[2]) + Cardinality(behind) - Cardinality(common)
      BY <2>7, <2>8, FS_Union
    <3>2. Cardinality(common) \in Nat
      BY <2>7, FS_Intersection, FS_CardinalityType
    <3>3. Cardinality(after(p)) <= Cardinality(both)
      BY <2>9, <3>1, FS_Subset
    <3>4. Cardinality(both) \in Nat
      BY <3>1, FS_CardinalityType
    <3> HIDE DEF both, common
    <3> QED
      BY <2>1, <2>6, <2>7, <3>1, <3>2, <3>3, <3>4
  <2> QED
    BY <2>1, <2>4, <2>6, <2>7, <2>10
<1>3. ASSUME NEW p \in T, NEW q \in T, rank[p] = rank[q]
      PROVE  p = q
  <2>1. ASSUME NEW r \in T, NEW s \in T, Before(r, s)
        PROVE  Cardinality(after(r)) # Cardinality(after(s))
    <3>1. after(s) \subseteq after(r)
      BY <1>1, <2>1, BeforeIsOrder
    <3>2. s \in after(r) /\ s \notin after(s)
      BY <1>1, <2>1, BeforeIsOrder
    <3>3. after(s) # after(r)
      BY <3>2
    <3> QED
      BY <1>2, <3>1, <3>3, FS_Subset
  <2>2. Cardinality(after(p)) = Cardinality(after(q))
    BY <1>3
  <2> QED
    BY <1>1, <2>1, <2>2, BeforeIsOrder
<1>4. rank \in [T -> 0 .. limit - 1]
  BY <1>2
<1>5. rank \in Injection(T, 0 .. limit - 1)
  BY <1>3, <1>4 DEF Injection, IsInjective
<1>6. IsFiniteSet(0 .. limit - 1) /\ Cardinality(0 .. limit - 1) = limit
  BY FS_Interval
<1> HIDE DEF rank
<1> QED
  BY <1>5, <1>6, FS_Injection

---------------------------------------------------------------------------
(* What is kept of the overlap. *)

LEMMA MinOfTwo ==
    ASSUME NEW a \in Int, NEW b \in Int
    PROVE  Min({a, b}) \in {a, b} /\ Min({a, b}) <= a /\ Min({a, b}) <= b
<1>1. \E x \in {a, b} : \A y \in {a, b} : x <= y
  OBVIOUS
<1> QED
  BY <1>1 DEF Min

LEMMA MaxOfTwo ==
    ASSUME NEW a \in Int, NEW b \in Int
    PROVE  Max({a, b}) \in {a, b} /\ Max({a, b}) >= a /\ Max({a, b}) >= b
<1>1. \E x \in {a, b} : \A y \in {a, b} : x >= y
  OBVIOUS
<1> QED
  BY <1>1 DEF Max

\* The overlap leaves room for the next piece, up to the target.
LEMMA LimitLeavesRoom ==
    ASSUME NEW f, Count(f) \in Nat
    PROVE  /\ KeepLimit(f) \in Nat
           /\ KeepLimit(f) <= Overlap
           /\ KeepLimit(f) = 0 \/ KeepLimit(f) + Count(f) <= Target
<1> DEFINE room == Max({0, Target - Count(f)})
<1>1. Overlap \in Nat /\ Target \in Nat
  BY ChunkerAssumption
<1>2. room \in {0, Target - Count(f)} /\ room >= 0
  BY <1>1, MaxOfTwo
<1> HIDE DEF room
<1>3. room \in Nat
  BY <1>1, <1>2
<1>4. Min({Overlap, room}) \in {Overlap, room} /\ Min({Overlap, room}) <= Overlap
      /\ Min({Overlap, room}) <= room
  BY <1>1, <1>3, MinOfTwo
<1>5. KeepLimit(f) = Min({Overlap, room})
  BY DEF KeepLimit, room
<1> QED
  BY <1>1, <1>2, <1>3, <1>4, <1>5

\* A set of fragments that do not overlap has a first one.
LEMMA FirstExists ==
    ASSUME blocks \in Document, NEW F \in SUBSET Fragments, Ordered(F), F # {}
    PROVE  \E f \in F : \A g \in F \ {f} : Earlier(f, g)
<1> DEFINE ahead(f) == {p \in Places : \E q \in Tokens({f}) : Before(p, q)}
           ranks == {Cardinality(ahead(f)) : f \in F}
<1>1. Places \subseteq Nat \X Nat /\ IsFiniteSet(Places)
  <2>1. ASSUME NEW p \in Places PROVE p \in Nat \X Nat
    <3>1. p = <<p[1], p[2]>> /\ p[1] \in DOMAIN blocks /\ p[2] \in DOMAIN blocks[p[1]].text
      BY InPlaces
    <3>2. p[1] \in Nat /\ p[2] \in Nat
      BY <3>1, DocumentShape
    <3> QED
      BY <3>1, <3>2
  <2> QED
    BY <2>1, PlacesFinite
<1>2. \A f \in F : IsFiniteSet(ahead(f)) /\ Cardinality(ahead(f)) \in Nat
  <2> TAKE f \in F
  <2>1. ahead(f) \in SUBSET Places
    OBVIOUS
  <2> QED
    BY <1>1, <2>1, FS_Subset, FS_CardinalityType
<1>3. ASSUME NEW f \in F, NEW g \in F, Earlier(f, g)
      PROVE  Cardinality(ahead(f)) < Cardinality(ahead(g))
  <2> DEFINE p == <<f.block, f.to>>
  <2>1. p \in Tokens({f}) /\ p \in Places
    <3>1. p \in Tokens({f})
      BY TokensOfOne DEF Fragments
    <3> QED
      BY <3>1, TokensAreTokens
  <2>2. PICK t \in Tokens({g}) : TRUE
    <3>1. <<g.block, g.to>> \in Tokens({g})
      BY TokensOfOne DEF Fragments
    <3> QED
      BY <3>1
  <2>3. t \in Nat \X Nat /\ Tokens({f}) \subseteq Nat \X Nat
    BY <2>2, TokensAreTokens
  <2>4. ahead(f) \subseteq ahead(g)
    <3> SUFFICES ASSUME NEW r \in Places, NEW q \in Tokens({f}), Before(r, q)
                 PROVE  Before(r, t)
      BY <2>2
    <3>1. Before(q, t)
      BY <1>3, <2>2, EarlierTokens
    <3> QED
      BY <1>1, <2>3, <3>1, BeforeIsOrder
  <2>5. p \in ahead(g)
    <3>1. Before(p, t)
      BY <1>3, <2>1, <2>2, EarlierTokens
    <3> QED
      BY <2>1, <2>2, <3>1
  <2>6. p \notin ahead(f)
    <3> SUFFICES ASSUME NEW q \in Tokens({f}), Before(p, q) PROVE FALSE
      OBVIOUS
    <3>1. q[1] = f.block /\ q[2] \in f.from .. f.to
      BY InTokens
    <3> QED
      BY <3>1, DocumentShape DEF Before, Fragments
  <2> HIDE DEF ahead, p
  <2>7. Cardinality(ahead(f)) <= Cardinality(ahead(g))
    BY <1>2, <2>4, FS_Subset
  <2>8. Cardinality(ahead(f)) # Cardinality(ahead(g))
    BY <1>2, <2>4, <2>5, <2>6, FS_Subset
  <2> QED
    BY <1>2, <2>7, <2>8
<1> HIDE DEF ahead
<1>4. ranks \in SUBSET Nat /\ ranks # {}
  BY <1>2
<1>5. PICK f \in F : \A g \in F : Cardinality(ahead(f)) <= Cardinality(ahead(g))
  <2>1. PICK n \in ranks : \A m \in ranks : n <= m
    BY <1>4, LeastNat
  <2> QED
    BY <2>1
<1>6. \A g \in F \ {f} : Earlier(f, g)
  <2> TAKE g \in F \ {f}
  <2>1. CASE Earlier(g, f)
    BY <1>2, <1>3, <1>5, <2>1
  <2> QED
    BY <2>1 DEF Ordered
<1> QED
  BY <1>6

\* What is kept is an end of the overlap and, unless it is empty, fits with the piece.
LEMMA KeptFits ==
    ASSUME blocks \in Document, current \subseteq Fragments, Ordered(current),
           NEW piece \in Fragments
    PROVE  LET tail == TailOverlap(current, KeepLimit(piece))
           IN  /\ Kept(piece) \subseteq tail
               /\ Kept(piece) # {} => Fits(Kept(piece) \cup {piece})
               /\ \A f \in Kept(piece), g \in tail : Earlier(f, g) => g \in Kept(piece)
<1> DEFINE tail == TailOverlap(current, KeepLimit(piece))
           starts == {f \in tail : Fits(Onwards(f, tail) \cup {piece})}
<1>1. tail \in SUBSET Fragments /\ Ordered(tail)
  BY TokensOfOne, LimitLeavesRoom, TailIsEnd
<1>2. Kept(piece) = UNION {Onwards(f, tail) : f \in starts}
  BY DEF Kept
<1> HIDE DEF tail
<1>3. Kept(piece) \subseteq tail
  BY <1>2 DEF Onwards
<1>4. ASSUME Kept(piece) # {} PROVE Fits(Kept(piece) \cup {piece})
  <2>1. starts \in SUBSET Fragments /\ Ordered(starts) /\ starts # {}
    BY <1>1, <1>2, <1>4 DEF Ordered
  <2>2. PICK f \in starts : \A g \in starts \ {f} : Earlier(f, g)
    BY <2>1, FirstExists
  <2>3. ASSUME NEW g \in starts PROVE Onwards(g, tail) \subseteq Onwards(f, tail)
    <3> SUFFICES ASSUME NEW h \in tail, ~Earlier(h, g), g # f, Earlier(h, f)
                 PROVE  FALSE
      BY DEF Onwards
    <3>1. Earlier(h, g)
      BY <1>1, <2>1, <2>2, EarlierIsOrder
    <3> QED
      BY <3>1
  <2>4. Kept(piece) = Onwards(f, tail)
    BY <1>2, <2>2, <2>3
  <2> QED
    BY <2>2, <2>4
<1>5. ASSUME NEW f \in Kept(piece), NEW g \in tail, Earlier(f, g)
      PROVE  g \in Kept(piece)
  <2>1. PICK e \in starts : f \in Onwards(e, tail)
    BY <1>2
  <2>2. f \in tail /\ ~Earlier(f, e)
    BY <2>1 DEF Onwards
  <2>3. ~Earlier(g, e)
    BY <1>1, <1>5, <2>1, <2>2, EarlierIsOrder
  <2> QED
    BY <1>2, <2>1, <2>3 DEF Onwards
<1> QED
  BY <1>3, <1>4, <1>5 DEF tail
=============================================================================
