---------------------------- MODULE Indexing_proofs ----------------------------
(***************************************************************************)
(* For every document and every setting of the chunker: the parser         *)
(* collects the document whole and under its headings, and the chunks      *)
(* cover it, keep to their section, and are bounded.                       *)
(***************************************************************************)
EXTENDS Parser_proofs

---------------------------------------------------------------------------
(* The inductive invariant of packing, of fragments P that wait, the chunk C under
   construction and the finished chunks K. *)

Held(K) == UNION {Tokens(K[k]) : k \in DOMAIN K}

\* Tokens are packed in the order of the text.
InOrderOK(P) ==
    /\ P \subseteq Fragments /\ Ordered(P)
    /\ Tokens(P) \subseteq Collected
    /\ \A p \in Collected \ Tokens(P), q \in Tokens(P) : Before(p, q)

\* C holds the last of the packed tokens, of one section.
LastOK(P, C) ==
    /\ C \subseteq Fragments /\ Ordered(C)
    /\ Tokens(C) \subseteq Collected \ Tokens(P)
    /\ \A p \in Tokens(C), q \in Collected \ Tokens(P) : Before(p, q) => q \in Tokens(C)
    /\ \A f, g \in C : f.block < g.block => SameSection(f.block, g.block)

\* No packed token is lost, and the chunk under construction repeats little.
HeldOK(P, C, K) ==
    /\ Collected \ Tokens(P) \subseteq Tokens(C) \cup Held(K)
    /\ \A p \in Held(K), q \in Tokens(P) : Before(p, q)
    /\ K # <<>> => Cardinality(Tokens(C) \cap Tokens(K[Len(K)])) <= Overlap

Own(chunk) == Tokens(chunk) \ SkippedPlaces

ChunkOK(chunk) ==
    /\ chunk \subseteq Fragments
    /\ \A s, t \in chunk : s.block < t.block => SameSection(s.block, t.block)
    /\ InBudget(chunk)
    /\ Cardinality(Own(chunk)) <= MaxSize

\* Each chunk repeats little of the one before it, and goes further than those before it.
ChunksOK(K) ==
    /\ K \in Seq(SUBSET Fragments)
    /\ \A k \in DOMAIN K : ChunkOK(K[k])
    /\ \A k \in DOMAIN K : k > 1 => Cardinality(Own(K[k]) \cap Own(K[k - 1])) <= Overlap
    /\ \A k \in DOMAIN K : \A n \in 1 .. k - 1 :
          \E p \in Tokens(K[k]) : \A q \in Tokens(K[n]) : Before(q, p)

ReadyOK(P, C, K) == InOrderOK(P) /\ LastOK(P, C) /\ HeldOK(P, C, K) /\ ChunksOK(K)

\* The chunk under construction is small enough, and has a token that no chunk has.
FilledOK(C, K) ==
    C # {} => /\ Fits(C)
              /\ Cardinality(Tokens(C)) <= MaxSize
              /\ \E p \in Tokens(C) : \A q \in Held(K) : Before(q, p)

PackOK(P, C, K) == ReadyOK(P, C, K) /\ FilledOK(C, K)

\* The invariant of indexing.
NothingPacked == pieces = {} /\ current = {} /\ chunks = <<>>

PackingInv ==
    /\ stage \in {"chunking", "indexed"} => PackOK(pieces, current, chunks)
    /\ stage = "indexed" => pieces = {} /\ current = {}
    /\ stage \notin {"parsing", "parsed", "chunking", "indexed"} =>
           chunks = <<>> \/ PackOK(pieces, current, chunks)

IndexInv ==
    /\ stage \in {"parsing", "parsed"} => NothingPacked
    /\ blocks \in Document => PackingInv

---------------------------------------------------------------------------
(* Where the places of a document are. *)

LEMMA CollectedIsRest ==
    ASSUME blocks \in Document
    PROVE  /\ Collected = Places \ SkippedPlaces
           /\ Collected \subseteq Nat \X Nat
           /\ IsFiniteSet(Collected)
<1>1. ASSUME NEW b \in DOMAIN blocks PROVE Skipped(b) \subseteq DOMAIN blocks[b].text
  BY DEF Skipped
<1>2. ASSUME NEW p
      PROVE  /\ p \in Collected <=> /\ p = <<p[1], p[2]>> /\ p[1] \in DOMAIN blocks
                                    /\ p[2] \in DOMAIN blocks[p[1]].text \ Skipped(p[1])
             /\ p \in SkippedPlaces <=> /\ p = <<p[1], p[2]>> /\ p[1] \in DOMAIN blocks
                                        /\ p[2] \in Skipped(p[1])
  BY DEF Collected, SkippedPlaces
<1>3. Collected = Places \ SkippedPlaces
  <2>1. ASSUME NEW p PROVE p \in Collected <=> p \in Places /\ p \notin SkippedPlaces
    BY <1>2, InPlaces
  <2> QED
    BY <2>1
<1>4. ASSUME NEW p \in Collected PROVE p \in Nat \X Nat
  <2>1. p = <<p[1], p[2]>> /\ p[1] \in DOMAIN blocks /\ p[2] \in DOMAIN blocks[p[1]].text
    BY <1>2
  <2>2. p[1] \in Nat /\ p[2] \in Nat
    BY <2>1, DocumentShape
  <2> QED
    BY <2>1, <2>2
<1>5. IsFiniteSet(Collected)
  BY <1>3, PlacesFinite, FS_Subset
<1> QED
  BY <1>3, <1>4, <1>5

\* A piece that is cut leaves everything as it was.
LEMMA CutKeepsPacked ==
    ASSUME blocks \in Document, PackOK(pieces, current, chunks),
           NEW f \in pieces, NEW n \in 1 .. Count(f) - 1
    PROVE  PackOK(Cut(f, n), current, chunks)
<1>1. /\ Cut(f, n) \subseteq Fragments /\ Ordered(Cut(f, n))
      /\ Tokens(Cut(f, n)) = Tokens(pieces)
  BY CutKeepsTokens DEF PackOK, ReadyOK, InOrderOK
<1>2. InOrderOK(Cut(f, n))
  BY <1>1 DEF PackOK, ReadyOK, InOrderOK
<1>3. LastOK(Cut(f, n), current)
  BY <1>1 DEF PackOK, ReadyOK, LastOK
<1>4. HeldOK(Cut(f, n), current, chunks)
  BY <1>1 DEF PackOK, ReadyOK, HeldOK
<1> QED
  BY <1>2, <1>3, <1>4 DEF PackOK, ReadyOK

\* The first piece joins fragments that are ready for it.
LEMMA PieceJoins ==
    ASSUME blocks \in Document, NEW C, NEW K, NEW f, FirstPiece(f),
           ReadyOK(pieces, C, K),
           Fits(C \cup {f}),
           Cardinality(Tokens(C \cup {f})) <= MaxSize,
           \A g \in C : SameSection(g.block, f.block)
    PROVE  PackOK(pieces \ {f}, C \cup {f}, K)
<1> DEFINE P == pieces \ {f}
           D == C \cup {f}
<1>1. /\ f \in Fragments /\ f \in pieces
      /\ pieces \subseteq Fragments /\ Ordered(pieces) /\ Tokens(pieces) \subseteq Collected
      /\ C \subseteq Fragments /\ Ordered(C)
  BY DEF FirstPiece, ReadyOK, InOrderOK, LastOK
<1>2. /\ Tokens(pieces) = Tokens(P) \cup Tokens({f})
      /\ \A p \in Tokens({f}), q \in Tokens(P) : Before(p, q)
  BY <1>1, WithoutFirst
<1>3. Tokens(D) = Tokens(C) \cup Tokens({f})
  BY TokensUnion
<1>4. Collected \subseteq Nat \X Nat
  BY CollectedIsRest
<1>5. Tokens({f}) \cap Tokens(P) = {}
  BY <1>1, <1>2, <1>4, BeforeIsOrder
<1>6. Collected \ Tokens(P) = (Collected \ Tokens(pieces)) \cup Tokens({f})
  BY <1>1, <1>2, <1>5
<1>7. PICK first \in Tokens({f}) : TRUE
  <2>1. <<f.block, f.from>> \in Tokens({f})
    BY <1>1, InTokens DEF Fragments
  <2> QED
    BY <2>1
<1>8. InOrderOK(P)
  <2>1. Ordered(P)
    BY <1>1 DEF Ordered
  <2>2. \A p \in Collected \ Tokens(P), q \in Tokens(P) : Before(p, q)
    BY <1>2, <1>6 DEF ReadyOK, InOrderOK
  <2> QED
    BY <1>1, <1>2, <2>1, <2>2 DEF InOrderOK
<1>9. \A p \in Collected \ Tokens(pieces), q \in Tokens({f}) : Before(p, q)
  BY <1>2 DEF ReadyOK, InOrderOK
<1>10. LastOK(P, D)
  <2>1. \A g \in C : Earlier(g, f)
    <3> TAKE g \in C
    <3>1. <<g.block, g.to>> \in Tokens(C) /\ <<f.block, f.from>> \in Tokens({f})
      BY <1>1, InTokens DEF Fragments
    <3>2. \A i \in g.from .. g.to : <<g.block, i>> \in Tokens(C)
      BY InTokens
    <3>3. Before(<<g.block, g.to>>, <<f.block, f.from>>)
      BY <1>9, <3>1 DEF ReadyOK, LastOK
    <3> QED
      BY <3>3 DEF Before, Earlier
  <2>2. D \subseteq Fragments /\ Ordered(D)
    BY <1>1, <2>1 DEF Ordered
  <2>3. Tokens(D) \subseteq Collected \ Tokens(P)
    BY <1>2, <1>3, <1>6 DEF ReadyOK, LastOK
  <2>4. ASSUME NEW p \in Tokens(D), NEW q \in Collected \ Tokens(P), Before(p, q)
        PROVE  q \in Tokens(D)
    <3>1. CASE q \in Tokens({f})
      BY <1>3, <3>1
    <3>2. CASE q \in Collected \ Tokens(pieces) /\ p \in Tokens(C)
      BY <1>3, <2>4, <3>2 DEF ReadyOK, LastOK
    <3>3. CASE q \in Collected \ Tokens(pieces) /\ p \in Tokens({f})
      <4>1. Before(q, p)
        BY <1>9, <3>3
      <4> QED
        BY <1>1, <1>2, <1>4, <2>4, <3>3, <4>1, BeforeIsOrder
    <3> QED
      BY <1>3, <1>6, <3>1, <3>2, <3>3
  <2>5. ASSUME NEW g \in D, NEW h \in D, g.block < h.block
        PROVE  SameSection(g.block, h.block)
    <3>1. CASE g \in C /\ h \in C
      BY <2>5, <3>1 DEF ReadyOK, LastOK
    <3>2. CASE g \in C /\ h = f
      BY <3>2
    <3>3. CASE g = f /\ h \in C
      <4>1. h.block <= g.block
        BY <2>1, <3>3, <1>1, DocumentShape DEF Earlier, Fragments
      <4> QED
        BY <1>1, <2>5, <3>3, <4>1, DocumentShape DEF Fragments
    <3>4. CASE g = f /\ h = f
      BY <1>1, <2>5, <3>4, DocumentShape DEF Fragments
    <3> QED
      BY <3>1, <3>2, <3>3, <3>4
  <2> QED
    BY <2>2, <2>3, <2>4, <2>5 DEF LastOK
<1>11. HeldOK(P, D, K)
  <2>1. Collected \ Tokens(P) \subseteq Tokens(D) \cup Held(K)
    BY <1>3, <1>6 DEF ReadyOK, HeldOK
  <2>2. \A p \in Held(K), q \in Tokens(P) : Before(p, q)
    BY <1>2 DEF ReadyOK, HeldOK
  <2>3. ASSUME K # <<>>
        PROVE  Cardinality(Tokens(D) \cap Tokens(K[Len(K)])) <= Overlap
    <3> DEFINE last == Tokens(K[Len(K)])
    <3>1. last \subseteq Held(K)
      BY <2>3 DEF Held, ReadyOK, ChunksOK
    <3>2. Tokens({f}) \cap last = {}
      BY <1>1, <1>2, <1>4, <3>1, BeforeIsOrder DEF ReadyOK, HeldOK
    <3>3. Tokens(D) \cap last = Tokens(C) \cap last
      BY <1>3, <3>2
    <3> QED
      BY <2>3, <3>3 DEF ReadyOK, HeldOK
  <2> QED
    BY <2>1, <2>2, <2>3 DEF HeldOK
<1>12. FilledOK(D, K)
  <2>1. first \in Tokens(D) /\ \A q \in Held(K) : Before(q, first)
    BY <1>2, <1>3, <1>7 DEF ReadyOK, HeldOK
  <2> QED
    BY <2>1 DEF FilledOK
<1> QED
  BY <1>8, <1>10, <1>11, <1>12 DEF PackOK, ReadyOK

---------------------------------------------------------------------------
(* A chunk is finished. *)

LEMMA MergedChunk ==
    ASSUME blocks \in Document, PackOK(pieces, current, chunks), current # {}
    PROVE  LET chunk == Merged(current)
           IN  /\ ChunkOK(chunk)
               /\ Own(chunk) = Tokens(current)
               /\ Tokens(current) \subseteq Tokens(chunk)
               /\ \A p \in Tokens(chunk), q \in Tokens(pieces) : Before(p, q)
<1> DEFINE chunk == Merged(current)
<1>1. /\ current \subseteq Fragments /\ Ordered(current)
      /\ Tokens(current) \subseteq Collected \ Tokens(pieces)
      /\ pieces \subseteq Fragments
  BY DEF PackOK, ReadyOK, LastOK, InOrderOK
<1>2. /\ Tokens(current) \subseteq Tokens(chunk)
      /\ \A s \in chunk : \E f \in current : s.block = f.block
      /\ \A p \in Tokens(chunk) :
            \E f, g \in current : /\ f.block = p[1] /\ g.block = p[1]
                                  /\ f.from <= p[2] /\ p[2] <= g.to
  BY <1>1, MergedHolds
<1>3. chunk \subseteq Fragments
  <2> SUFFICES ASSUME NEW s \in chunk PROVE s \in Fragments
    OBVIOUS
  <2>1. /\ s \in Spans(current)
        /\ \A f \in current : f.block = s.block => s.from <= f.from /\ f.to <= s.to
    BY DEF Merged
  <2>2. PICK f \in current, g \in current :
          g.block = f.block /\ s = Fragment(f.block, f.from, g.to)
    BY <2>1 DEF Spans
  <2>3. f.to <= g.to
    BY <2>1, <2>2 DEF Fragment
  <2>4. f \in Fragments /\ g \in Fragments
    BY <1>1
  <2>5. f.from <= g.to
    BY <2>3, <2>4 DEF Fragments
  <2> QED
    BY <2>2, <2>4, <2>5 DEF Fragment, Fragments
<1>4. ASSUME NEW p \in Tokens(chunk)
      PROVE  \E r \in Tokens(current) : p[1] = r[1] /\ p[2] <= r[2]
  <2>1. PICK g \in current : g.block = p[1] /\ p[2] <= g.to
    BY <1>2
  <2>2. <<g.block, g.to>> \in Tokens(current)
    BY <1>1, InTokens DEF Fragments
  <2> QED
    BY <2>1, <2>2
<1>5. Collected \subseteq Nat \X Nat /\ Tokens(chunk) \subseteq Nat \X Nat
      /\ Tokens(chunk) \subseteq Places /\ Tokens(pieces) \subseteq Nat \X Nat
  BY <1>1, <1>3, CollectedIsRest, TokensAreTokens
<1>6. ASSUME NEW p \in Tokens(chunk), NEW q \in Tokens(pieces)
      PROVE  Before(p, q)
  <2>1. PICK r \in Tokens(current) : p[1] = r[1] /\ p[2] <= r[2]
    BY <1>4
  <2>2. Before(r, q)
    BY <1>1 DEF PackOK, ReadyOK, InOrderOK
  <2>3. r \in Nat \X Nat
    BY <1>1, <1>5
  <2> QED
    BY <1>5, <2>1, <2>2, <2>3 DEF Before
<1>7. Own(chunk) = Tokens(current)
  <2>1. Tokens(current) \subseteq Own(chunk)
    BY <1>1, <1>2, CollectedIsRest DEF Own
  <2>2. ASSUME NEW p \in Own(chunk) PROVE p \in Tokens(current)
    <3>1. p \in Tokens(chunk) /\ p \in Collected
      BY <1>5, CollectedIsRest DEF Own
    <3>2. p \notin Tokens(pieces)
      BY <1>5, <1>6, <3>1, BeforeIsOrder
    <3>3. PICK f \in current : f.block = p[1] /\ f.from <= p[2]
      BY <1>2, <3>1
    <3> DEFINE start == <<f.block, f.from>>
    <3>4. start \in Tokens(current) /\ start[1] = p[1] /\ start[2] <= p[2]
      BY <1>1, <3>3, InTokens DEF Fragments
    <3>5. start = p \/ Before(start, p)
      <4>1. p = <<p[1], p[2]>> /\ p[1] \in Nat /\ p[2] \in Nat
        BY <1>5, <3>1
      <4>2. f.from \in Nat
        BY <1>1 DEF Fragments
      <4> QED
        BY <3>3, <4>1, <4>2 DEF Before
    <3> QED
      BY <3>1, <3>2, <3>4, <3>5 DEF PackOK, ReadyOK, LastOK
  <2> QED
    BY <2>1, <2>2
<1>8. ChunkOK(chunk)
  <2>1. InBudget(chunk) /\ Cardinality(Own(chunk)) <= MaxSize
    BY <1>7 DEF PackOK, FilledOK, Fits
  <2>2. \A s, t \in chunk : s.block < t.block => SameSection(s.block, t.block)
    BY <1>2 DEF PackOK, ReadyOK, LastOK
  <2> QED
    BY <1>3, <2>1, <2>2 DEF ChunkOK
<1> QED
  BY <1>2, <1>6, <1>7, <1>8

\* After a chunk is finished, an end of it that is small enough is ready for the next piece.
LEMMA EndIsReady ==
    ASSUME blocks \in Document, PackOK(pieces, current, chunks), current # {},
           NEW D, D \subseteq Fragments, Ordered(D),
           \A g \in D : \E f \in current : g.block = f.block,
           Tokens(D) \subseteq Tokens(current),
           \A p \in Tokens(D), q \in Tokens(current) : Before(p, q) => q \in Tokens(D),
           Cardinality(Tokens(D)) <= Overlap
    PROVE  ReadyOK(pieces, D, Append(chunks, Merged(current)))
<1> DEFINE chunk == Merged(current)
           K == Append(chunks, chunk)
           n == Len(chunks)
<1>1. /\ ChunkOK(chunk)
      /\ Own(chunk) = Tokens(current)
      /\ Tokens(current) \subseteq Tokens(chunk)
      /\ \A p \in Tokens(chunk), q \in Tokens(pieces) : Before(p, q)
  BY MergedChunk
<1>2. /\ chunks \in Seq(SUBSET Fragments) /\ ChunksOK(chunks)
      /\ InOrderOK(pieces) /\ LastOK(pieces, current) /\ HeldOK(pieces, current, chunks)
  BY DEF PackOK, ReadyOK, ChunksOK
<1> HIDE DEF chunk
<1>3. /\ n \in Nat /\ DOMAIN chunks = 1 .. n
      /\ K \in Seq(SUBSET Fragments) /\ Len(K) = n + 1 /\ DOMAIN K = 1 .. n + 1
      /\ K[n + 1] = chunk /\ \A k \in 1 .. n : K[k] = chunks[k]
      /\ K # <<>>
  <2>1. chunk \in SUBSET Fragments
    BY <1>1 DEF ChunkOK
  <2>2. /\ n \in Nat /\ DOMAIN chunks = 1 .. n
        /\ K \in Seq(SUBSET Fragments) /\ Len(K) = n + 1 /\ DOMAIN K = 1 .. n + 1
        /\ K[n + 1] = chunk /\ \A k \in 1 .. n : K[k] = chunks[k]
    BY <1>2, <2>1
  <2> QED
    BY <2>2, EmptySeq
<1> HIDE DEF K, n
<1>4. Held(K) = Held(chunks) \cup Tokens(chunk)
  <2>1. ASSUME NEW p \in Held(K) PROVE p \in Held(chunks) \cup Tokens(chunk)
    <3>1. PICK k \in 1 .. n + 1 : p \in Tokens(K[k])
      BY <1>3 DEF Held
    <3>2. k = n + 1 \/ k \in 1 .. n
      BY <1>3
    <3> QED
      BY <1>3, <3>1, <3>2 DEF Held
  <2>2. Tokens(chunk) \subseteq Held(K)
    <3>1. n + 1 \in DOMAIN K
      BY <1>3
    <3> QED
      BY <1>3, <3>1 DEF Held
  <2>3. ASSUME NEW p \in Held(chunks) PROVE p \in Held(K)
    <3>1. PICK k \in 1 .. n : p \in Tokens(chunks[k])
      BY <1>3 DEF Held
    <3>2. k \in DOMAIN K
      BY <1>3
    <3> QED
      BY <1>3, <3>1, <3>2 DEF Held
  <2> QED
    BY <2>1, <2>2, <2>3
<1>5. LastOK(pieces, D)
  <2>1. \A p \in Tokens(D), q \in Collected \ Tokens(pieces) : Before(p, q) => q \in Tokens(D)
    BY <1>2 DEF LastOK
  <2>2. \A f, g \in D : f.block < g.block => SameSection(f.block, g.block)
    BY <1>2 DEF LastOK
  <2> QED
    BY <1>2, <2>1, <2>2 DEF LastOK
<1>6. HeldOK(pieces, D, K)
  <2>1. Collected \ Tokens(pieces) \subseteq Tokens(D) \cup Held(K)
    BY <1>1, <1>2, <1>4 DEF HeldOK
  <2>2. \A p \in Held(K), q \in Tokens(pieces) : Before(p, q)
    BY <1>1, <1>2, <1>4 DEF HeldOK
  <2>3. Tokens(D) \cap Tokens(K[Len(K)]) = Tokens(D)
    BY <1>1, <1>3
  <2> QED
    BY <2>1, <2>2, <2>3 DEF HeldOK
<1>7. ChunksOK(K)
  <2>1. \A k \in DOMAIN K : ChunkOK(K[k])
    <3> TAKE k \in DOMAIN K
    <3>1. k = n + 1 \/ k \in 1 .. n
      BY <1>3
    <3> QED
      BY <1>1, <1>2, <1>3, <3>1 DEF ChunksOK
  <2>2. ASSUME NEW k \in DOMAIN K, k > 1
        PROVE  Cardinality(Own(K[k]) \cap Own(K[k - 1])) <= Overlap
    <3>1. CASE k \in 1 .. n
      BY <1>2, <1>3, <2>2, <3>1 DEF ChunksOK
    <3>2. CASE k = n + 1
      <4> DEFINE common == Tokens(current) \cap Tokens(chunks[n])
      <4>1. n > 0 /\ chunks # <<>> /\ K[k] = chunk /\ K[k - 1] = chunks[n]
        BY <1>3, <2>2, <3>2, EmptySeq
      <4>2. Cardinality(common) <= Overlap
        BY <1>2, <4>1 DEF HeldOK, n
      <4>3. IsFiniteSet(common) /\ Cardinality(common) \in Nat
        <5>1. IsFiniteSet(Tokens(current))
          BY <1>2, TokensAreTokens DEF LastOK
        <5> QED
          BY <5>1, FS_Intersection, FS_CardinalityType
      <4>4. Own(K[k]) \cap Own(K[k - 1]) \subseteq common
        BY <1>1, <4>1 DEF Own
      <4> HIDE DEF common
      <4>5. /\ IsFiniteSet(Own(K[k]) \cap Own(K[k - 1]))
            /\ Cardinality(Own(K[k]) \cap Own(K[k - 1])) <= Cardinality(common)
        BY <4>3, <4>4, FS_Subset
      <4>6. Cardinality(Own(K[k]) \cap Own(K[k - 1])) \in Nat
        BY <4>5, FS_CardinalityType
      <4> QED
        BY <4>2, <4>3, <4>5, <4>6, ChunkerAssumption
    <3> QED
      BY <1>3, <3>1, <3>2
  <2>3. ASSUME NEW k \in DOMAIN K, NEW m \in 1 .. k - 1
        PROVE  \E p \in Tokens(K[k]) : \A q \in Tokens(K[m]) : Before(q, p)
    <3>1. CASE k \in 1 .. n
      <4>1. m \in 1 .. n /\ k \in DOMAIN chunks
        BY <1>3, <3>1
      <4> QED
        BY <1>2, <1>3, <3>1, <4>1 DEF ChunksOK
    <3>2. CASE k = n + 1
      <4>1. m \in 1 .. n /\ K[k] = chunk /\ K[m] = chunks[m] /\ m \in DOMAIN chunks
        BY <1>3, <3>2
      <4>2. PICK p \in Tokens(current) : \A q \in Held(chunks) : Before(q, p)
        BY DEF PackOK, FilledOK
      <4>3. Tokens(chunks[m]) \subseteq Held(chunks)
        BY <4>1 DEF Held
      <4> QED
        BY <1>1, <4>1, <4>2, <4>3
    <3> QED
      BY <1>3, <3>1, <3>2
  <2> QED
    BY <1>3, <2>1, <2>2, <2>3 DEF ChunksOK
<1> QED
  BY <1>2, <1>5, <1>6, <1>7 DEF ReadyOK, K, chunk

\* The overlap that is kept is such an end, and so is nothing at all.
LEMMA KeptIsReady ==
    ASSUME blocks \in Document, PackOK(pieces, current, chunks), current # {},
           NEW f \in Fragments
    PROVE  /\ ReadyOK(pieces, Kept(f), Append(chunks, Merged(current)))
           /\ Kept(f) \subseteq Fragments /\ Ordered(Kept(f))
           /\ \A g \in Kept(f) : \E e \in current : g.block = e.block
           /\ Cardinality(Tokens(Kept(f))) <= KeepLimit(f)
<1> DEFINE tail == TailOverlap(current, KeepLimit(f))
           D == Kept(f)
<1>1. current \subseteq Fragments /\ Ordered(current)
  BY DEF PackOK, ReadyOK, LastOK
<1>2. KeepLimit(f) \in Nat /\ KeepLimit(f) <= Overlap /\ Overlap \in Nat
  BY TokensOfOne, LimitLeavesRoom, ChunkerAssumption
<1>3. /\ tail \in SUBSET Fragments /\ Ordered(tail)
      /\ \A g \in tail : \E e \in current : g.block = e.block
      /\ Tokens(tail) \subseteq Tokens(current)
      /\ \A p \in Tokens(tail), q \in Tokens(current) : Before(p, q) => q \in Tokens(tail)
  BY <1>1, <1>2, TailIsEnd
<1>4. IsFiniteSet(Tokens(tail)) /\ Cardinality(Tokens(tail)) <= KeepLimit(f)
  BY <1>1, <1>2, <1>3, TailSize, TokensAreTokens
<1>5. /\ D \subseteq tail
      /\ \A e \in D, g \in tail : Earlier(e, g) => g \in D
  BY <1>1, KeptFits
<1> HIDE DEF tail, D
<1>6. Tokens(D) \subseteq Tokens(tail)
  BY <1>5, TokensGrow
<1>7. Cardinality(Tokens(D)) <= KeepLimit(f) /\ Cardinality(Tokens(D)) <= Overlap
  <2>1. /\ IsFiniteSet(Tokens(D)) /\ Cardinality(Tokens(D)) <= Cardinality(Tokens(tail))
    BY <1>4, <1>6, FS_Subset
  <2>2. Cardinality(Tokens(D)) \in Nat /\ Cardinality(Tokens(tail)) \in Nat
    BY <1>4, <2>1, FS_CardinalityType
  <2> QED
    BY <1>2, <1>4, <2>1, <2>2
<1>8. D \subseteq Fragments /\ Ordered(D) /\ \A g \in D : \E e \in current : g.block = e.block
  BY <1>3, <1>5 DEF Ordered
<1>9. ASSUME NEW p \in Tokens(D), NEW q \in Tokens(current), Before(p, q)
      PROVE  q \in Tokens(D)
  <2>1. q \in Tokens(tail)
    BY <1>3, <1>6, <1>9
  <2>2. PICK e \in D : p = <<p[1], p[2]>> /\ p[1] = e.block /\ p[2] \in e.from .. e.to
    BY InTokens
  <2>3. PICK g \in tail : q = <<q[1], q[2]>> /\ q[1] = g.block /\ q[2] \in g.from .. g.to
    BY <2>1, InTokens
  <2>4. p \in Tokens({e}) /\ q \in Tokens({g}) /\ e \in tail
    BY <1>5, <2>2, <2>3, InTokens
  <2>5. ~Earlier(g, e)
    <3>1. p \in Nat \X Nat /\ q \in Nat \X Nat
      BY <1>1, <1>3, <1>6, TokensAreTokens
    <3> QED
      BY <1>3, <1>9, <2>4, <3>1, EarlierTokens, BeforeIsOrder
  <2>6. g \in D
    BY <1>3, <1>5, <2>4, <2>5 DEF Ordered
  <2> QED
    BY <2>3, <2>6, InTokens
<1>10. ReadyOK(pieces, D, Append(chunks, Merged(current)))
  BY <1>3, <1>6, <1>7, <1>8, <1>9, EndIsReady
<1> QED
  BY <1>7, <1>8, <1>10 DEF D

LEMMA NothingIsReady ==
    ASSUME blocks \in Document, PackOK(pieces, current, chunks), current # {}
    PROVE  ReadyOK(pieces, {}, Append(chunks, Merged(current)))
<1>1. Tokens({}) = {} /\ Ordered({})
  BY DEF Tokens, Ordered
<1>2. Cardinality(Tokens({})) <= Overlap
  BY <1>1, FS_EmptySet, ChunkerAssumption
<1> QED
  BY <1>1, <1>2, EndIsReady

---------------------------------------------------------------------------
(* The steps of packing. *)

\* A piece that is cut no further fits a chunk of its own.
LEMMA PieceIsSmall ==
    ASSUME blocks \in Document, NEW f \in Fragments, ~TooLong(f)
    PROVE  Count(f) <= MaxSize
<1>1. /\ f.block \in DOMAIN blocks /\ f.from \in Nat \ {0} /\ f.to \in Nat \ {0}
      /\ f.to <= Len(blocks[f.block].text) /\ Len(blocks[f.block].text) \in Nat
  BY DocumentShape DEF Fragments
<1>2. MaxSize \in Nat /\ Target \in Nat /\ Target <= MaxSize
  BY ChunkerAssumption
<1>3. CASE ~Divided(f.block)
  BY <1>1, <1>2, <1>3 DEF Divided, Count
<1>4. CASE Count(f) <= Target
  BY <1>1, <1>2, <1>4 DEF Count
<1> QED
  BY <1>1, <1>2, <1>3, <1>4 DEF TooLong, Count

\* Fragments and a piece that is not among them have their tokens together.
LEMMA SizeTogether ==
    ASSUME blocks \in Document, NEW C, C \subseteq Fragments, NEW f \in Fragments,
           NEW n \in Int, Cardinality(Tokens(C)) + Count(f) <= n
    PROVE  Cardinality(Tokens(C \cup {f})) <= n
<1>1. IsFiniteSet(Tokens(C)) /\ Cardinality(Tokens(C)) \in Nat
  BY TokensAreTokens, FS_CardinalityType
<1>2. /\ IsFiniteSet(Tokens({f})) /\ Cardinality(Tokens({f})) = Count(f)
      /\ Count(f) \in Nat
  BY TokensOfOne
<1> DEFINE common == Tokens(C) \cap Tokens({f})
           both == Tokens(C) \cup Tokens({f})
<1>3. Cardinality(common) \in Nat
  BY <1>1, FS_Intersection, FS_CardinalityType
<1>4. Cardinality(both) = Cardinality(Tokens(C)) + Cardinality(Tokens({f})) - Cardinality(common)
  BY <1>1, <1>2, FS_Union
<1>5. Tokens(C \cup {f}) = both
  BY TokensUnion
<1> HIDE DEF common, both
<1> QED
  BY <1>1, <1>2, <1>3, <1>4, <1>5

LEMMA PackPieceKeeps ==
    ASSUME blocks \in Document, PackOK(pieces, current, chunks),
           NEW f, FirstPiece(f), PackPiece(f)
    PROVE  PackOK(pieces', current', chunks')
<1>1. /\ f \in pieces /\ f \in Fragments /\ pieces' = pieces \ {f}
      /\ ~TooLong(f) /\ Fits({f})
      /\ current \subseteq Fragments
      /\ ReadyOK(pieces, current, chunks)
  BY DEF FirstPiece, PackPiece, PackOK, ReadyOK, InOrderOK, LastOK
<1>2. /\ Count(f) \in Nat /\ Count(f) <= MaxSize
      /\ Cardinality(Tokens({f})) = Count(f)
      /\ MaxSize \in Int /\ Target \in Int /\ Target <= MaxSize
  BY <1>1, PieceIsSmall, TokensOfOne, ChunkerAssumption
<1>3. {} \cup {f} = {f}
  OBVIOUS
<1>4. CASE current = {} /\ current' = {f} /\ UNCHANGED chunks
  BY <1>1, <1>2, <1>3, <1>4, PieceJoins
<1>5. CASE current # {} /\ ~InSection(f) /\ Emit /\ current' = {f}
  <2>1. ReadyOK(pieces, {}, chunks')
    BY <1>5, NothingIsReady DEF Emit
  <2> QED
    BY <1>1, <1>2, <1>3, <1>5, <2>1, PieceJoins
<1>6. CASE /\ current # {} /\ InSection(f) /\ Full(f)
           /\ Emit
           /\ current' = Kept(f) \cup {f}
  <2> DEFINE D == Kept(f)
  <2>1. /\ ReadyOK(pieces, D, chunks')
        /\ D \subseteq Fragments /\ Ordered(D)
        /\ \A g \in D : \E e \in current : g.block = e.block
        /\ Cardinality(Tokens(D)) <= KeepLimit(f)
    BY <1>1, <1>6, KeptIsReady DEF Emit
  <2>2. Fits(D \cup {f})
    <3>1. D # {} => Fits(D \cup {f})
      BY <1>1, KeptFits DEF ReadyOK, LastOK
    <3> QED
      BY <1>1, <1>3, <3>1
  <2>3. KeepLimit(f) \in Nat /\ (KeepLimit(f) = 0 \/ KeepLimit(f) + Count(f) <= Target)
    BY <1>2, LimitLeavesRoom
  <2> HIDE DEF D
  <2>4. IsFiniteSet(Tokens(D)) /\ Cardinality(Tokens(D)) \in Nat
    BY <2>1, TokensAreTokens, FS_CardinalityType
  <2>5. Cardinality(Tokens(D)) + Count(f) <= MaxSize
    BY <1>2, <2>1, <2>3, <2>4
  <2>6. Cardinality(Tokens(D \cup {f})) <= MaxSize
    BY <1>1, <1>2, <2>1, <2>5, SizeTogether
  <2>7. \A g \in D : SameSection(g.block, f.block)
    BY <1>6, <2>1 DEF InSection
  <2>8. PackOK(pieces \ {f}, D \cup {f}, chunks')
    BY <2>1, <2>2, <2>6, <2>7, PieceJoins
  <2> QED
    BY <1>1, <1>6, <2>8 DEF D
<1>7. CASE /\ current # {} /\ InSection(f) /\ ~Full(f)
           /\ current' = current \cup {f}
           /\ UNCHANGED chunks
  <2>1. Fits(current \cup {f}) /\ ~(Cardinality(Tokens(current)) + Count(f) > Target)
    BY <1>7 DEF Full
  <2>2. IsFiniteSet(Tokens(current)) /\ Cardinality(Tokens(current)) \in Nat
    BY <1>1, TokensAreTokens, FS_CardinalityType
  <2>3. Cardinality(Tokens(current)) + Count(f) <= MaxSize
    BY <1>2, <2>1, <2>2
  <2>4. Cardinality(Tokens(current \cup {f})) <= MaxSize
    BY <1>1, <1>2, <2>3, SizeTogether
  <2>5. \A g \in current : SameSection(g.block, f.block)
    BY <1>7 DEF InSection
  <2> QED
    BY <1>1, <1>7, <2>1, <2>4, <2>5, PieceJoins
<1> QED
  BY <1>4, <1>5, <1>6, <1>7 DEF PackPiece

LEMMA PackLastKeeps ==
    ASSUME blocks \in Document, PackOK(pieces, current, chunks), PackLast
    PROVE  PackOK(pieces', current', chunks')
<1>1. ReadyOK(pieces, {}, Append(chunks, Merged(current)))
  BY NothingIsReady DEF PackLast
<1> QED
  BY <1>1 DEF PackLast, Emit, PackOK, FilledOK

LEMMA DivideStarts ==
    ASSUME blocks \in Document, current = {}, chunks = <<>>, Divide
    PROVE  PackOK(pieces', current', chunks')
<1>1. /\ pieces' \subseteq Fragments /\ Ordered(pieces') /\ Tokens(pieces') = Collected
      /\ current' = {} /\ chunks' = <<>>
  BY PiecesOfDocument DEF Divide
<1>2. Tokens({}) = {} /\ Ordered({}) /\ Held(<<>>) = {}
  BY DEF Tokens, Ordered, Held
<1>3. InOrderOK(pieces') /\ LastOK(pieces', {}) /\ HeldOK(pieces', {}, <<>>)
  BY <1>1, <1>2 DEF InOrderOK, LastOK, HeldOK
<1>4. ChunksOK(<<>>)
  BY EmptySeq DEF ChunksOK
<1> QED
  BY <1>1, <1>3, <1>4 DEF PackOK, ReadyOK, FilledOK

\* Packing leaves the document alone, so that the invariant speaks of the same places.
LEMMA SameDocument ==
    ASSUME blocks' = blocks, PackOK(pieces', current', chunks')
    PROVE  PackOK(pieces, current, chunks)'
<1>1. /\ Fragments' = Fragments /\ Collected' = Collected /\ SkippedPlaces' = SkippedPlaces
      /\ \A b, c : SameSection(b, c)' <=> SameSection(b, c)
      /\ \A F : Fits(F)' <=> Fits(F)
  BY DEF Fragments, Collected, SkippedPlaces, SameSection, Fits, InBudget, SpanWeight,
         PathWeight, Texts, Skipped, Divided
<1>2. InOrderOK(pieces)' /\ LastOK(pieces, current)' /\ HeldOK(pieces, current, chunks)'
  BY <1>1 DEF PackOK, ReadyOK, InOrderOK, LastOK, HeldOK
<1>3. ChunksOK(chunks)'
  <2>1. ASSUME NEW k \in DOMAIN chunks' PROVE ChunkOK(chunks[k])'
    <3>1. ChunkOK(chunks'[k])
      BY <2>1 DEF PackOK, ReadyOK, ChunksOK
    <3> QED
      BY <1>1, <3>1 DEF ChunkOK, InBudget, SpanWeight, PathWeight, Texts, Own
  <2> QED
    BY <1>1, <2>1 DEF PackOK, ReadyOK, ChunksOK, Own
<1>4. FilledOK(current, chunks)'
  BY <1>1 DEF PackOK, FilledOK, Fits, InBudget, SpanWeight, PathWeight, Texts
<1> QED
  BY <1>2, <1>3, <1>4 DEF PackOK, ReadyOK

---------------------------------------------------------------------------
(* The theorems. *)

LEMMA IndexInvInit == IndexInit => IndexInv
  BY DEF IndexInit, ChunkerInit, IndexInv, NothingPacked, PackingInv

LEMMA IndexInvStep == IndexInv /\ [IndexNext]_indexVars => IndexInv'
<1> SUFFICES ASSUME IndexInv, [IndexNext]_indexVars
             PROVE  IndexInv'
  OBVIOUS
<1>0. (stage \in {"parsing", "parsed"} => NothingPacked)'
  BY DEF IndexInv, NothingPacked, IndexNext, Parse, EndParsing, Chunk, Pack, Refuse, Finish,
         Goto, chunkerVars, indexVars
<1> SUFFICES ASSUME blocks' \in Document PROVE PackingInv'
  BY <1>0 DEF IndexInv
<1>1. CASE Parse
  BY <1>1 DEF Parse, chunkerVars, PackingInv
<1>2. CASE EndParsing
  BY <1>2 DEF EndParsing, Goto, PackingInv
<1>3. CASE Chunk
  <2>1. blocks' = blocks /\ current = {} /\ chunks = <<>> /\ Divide /\ stage' = "chunking"
    BY <1>3 DEF Chunk, Divide, Goto, IndexInv, NothingPacked
  <2>2. PackOK(pieces, current, chunks)'
    BY <2>1, DivideStarts, SameDocument
  <2> QED
    BY <2>1, <2>2 DEF IndexInv, PackingInv
<1>4. CASE Pack
  <2>1. /\ stage = "chunking" /\ stage' = stage
        /\ PackOK(pieces, current, chunks)
        /\ pieces \subseteq Fragments /\ blocks \in Document /\ blocks' = blocks
    BY <1>4 DEF Pack, Slice, Fit, PackPiece, PackLast, IndexInv, PackingInv, PackOK,
                ReadyOK, InOrderOK
  <2>2. ASSUME NEW f \in pieces, FirstPiece(f), Slice(f)
        PROVE  PackOK(pieces', current', chunks')
    <3>1. Target \in 1 .. Count(f) - 1
      <4>1. Target \in Nat \ {0} /\ Count(f) \in Nat /\ Count(f) > Target
        BY <2>1, <2>2, TokensOfOne, ChunkerAssumption DEF Slice, TooLong
      <4> QED
        BY <4>1
    <3> QED
      BY <2>1, <2>2, <3>1, CutKeepsPacked DEF Slice
  <2>3. ASSUME NEW f \in pieces, FirstPiece(f), Fit(f)
        PROVE  PackOK(pieces', current', chunks')
    BY <2>1, <2>3, CutKeepsPacked DEF Fit
  <2>4. ASSUME NEW f \in pieces, FirstPiece(f), PackPiece(f)
        PROVE  PackOK(pieces', current', chunks')
    BY <2>1, <2>4, PackPieceKeeps
  <2>5. ASSUME PackLast PROVE PackOK(pieces', current', chunks')
    BY <2>1, <2>5, PackLastKeeps
  <2>6. PackOK(pieces, current, chunks)'
    BY <1>4, <2>1, <2>2, <2>3, <2>4, <2>5, SameDocument DEF Pack
  <2> QED
    BY <2>1, <2>6 DEF PackingInv
<1>5. CASE Refuse
  <2>1. UNCHANGED <<blocks, pieces, current, chunks>> /\ stage' = "refused"
    BY <1>5 DEF Refuse, Goto, chunkerVars
  <2>2. PackOK(pieces, current, chunks) => PackOK(pieces, current, chunks)'
    BY <2>1, SameDocument
  <2>3. stage \in {"parsing", "parsed", "chunking"}
    BY <1>5 DEF Refuse
  <2> QED
    BY <2>1, <2>2, <2>3 DEF IndexInv, PackingInv, NothingPacked
<1>6. CASE Finish
  <2>1. /\ UNCHANGED <<blocks, pieces, current, chunks>> /\ stage' = "indexed"
        /\ stage = "chunking" /\ pieces = {} /\ current = {}
    BY <1>6 DEF Finish, Goto, chunkerVars
  <2>2. PackOK(pieces, current, chunks)'
    BY <2>1, SameDocument DEF IndexInv, PackingInv
  <2> QED
    BY <2>1, <2>2 DEF IndexInv, PackingInv
<1>7. CASE UNCHANGED indexVars
  <2>1. UNCHANGED <<blocks, pieces, current, chunks>> /\ stage' = stage
    BY <1>7 DEF indexVars, chunkerVars
  <2>2. PackOK(pieces, current, chunks) => PackOK(pieces, current, chunks)'
    BY <2>1, SameDocument
  <2> QED
    BY <2>1, <2>2 DEF IndexInv, PackingInv
<1> QED
  BY <1>1, <1>2, <1>3, <1>4, <1>5, <1>6, <1>7 DEF IndexNext

\* The invariant of indexing: tokens are packed in their order, none is lost, and every
\* chunk is bounded.
THEOREM IndexInvCorrect == IndexSpec => []IndexInv
<1> QED
  BY IndexInvInit, IndexInvStep, PTL DEF IndexSpec

LEMMA PackedIsBounded ==
    ASSUME blocks \in Document, IndexInv
    PROVE  ChunksCover /\ ChunksBounded
<1>1. /\ chunks = <<>> \/ PackOK(pieces, current, chunks)
      /\ stage = "indexed" => PackOK(pieces, current, chunks) /\ pieces = {} /\ current = {}
  BY DEF IndexInv, PackingInv, NothingPacked
<1>2. ChunksOK(chunks)
  <2>1. ChunksOK(<<>>)
    BY EmptySeq DEF ChunksOK
  <2> QED
    BY <1>1, <2>1 DEF PackOK, ReadyOK
<1>3. ChunksBounded
  BY <1>2 DEF ChunksBounded, ChunksOK, ChunkOK, Own
<1>4. ASSUME stage = "indexed"
      PROVE  Places \ SkippedPlaces \subseteq UNION {Tokens(c) : c \in ToSet(chunks)}
  <2>1. Tokens(pieces) = {} /\ Tokens(current) = {}
    BY <1>1, <1>4 DEF Tokens
  <2>2. Collected \subseteq Held(chunks)
    BY <1>1, <1>4, <2>1 DEF PackOK, ReadyOK, HeldOK
  <2>3. Held(chunks) \subseteq UNION {Tokens(c) : c \in ToSet(chunks)}
    BY DEF Held, ToSet
  <2> QED
    BY <2>2, <2>3, CollectedIsRest
<1>5. ChunksCover
  BY <1>2, <1>4 DEF ChunksCover, ChunksOK, ChunkOK
<1> QED
  BY <1>3, <1>5

---------------------------------------------------------------------------
(* The document between the parser and the chunker. *)

\* What is parsed, and its blocks, keep their types.
DocumentInv ==
    /\ ParserInv
    /\ blocks \in Document

LEMMA DocumentInvStep == DocumentInv /\ [IndexNext]_indexVars => DocumentInv'
<1> SUFFICES ASSUME DocumentInv, [IndexNext]_indexVars PROVE DocumentInv'
  OBVIOUS
<1>1. CASE Parse
  BY <1>1, ParserInvStep DEF DocumentInv, Parse, chunkerVars
<1>2. ASSUME UNCHANGED parserVars PROVE ParserInv'
  BY <1>2 DEF DocumentInv, ParserInv, parserVars
<1>3. CASE EndParsing
  BY <1>2, <1>3, ParsedIsDocument DEF DocumentInv, EndParsing
<1>4. CASE Chunk
  BY <1>2, <1>4 DEF DocumentInv, Chunk, Divide
<1>5. CASE Pack
  BY <1>2, <1>5 DEF DocumentInv, Pack, Slice, Fit, PackPiece, PackLast
<1>6. CASE Refuse \/ Finish
  BY <1>2, <1>6 DEF DocumentInv, Refuse, Finish, chunkerVars
<1>7. CASE UNCHANGED indexVars
  BY <1>2, <1>7 DEF DocumentInv, indexVars, chunkerVars
<1> QED
  BY <1>1, <1>3, <1>4, <1>5, <1>6, <1>7 DEF IndexNext

\* What the parser hands to the chunker is a document: blocks with a text, on a page, under
\* headings.
THEOREM DocumentInvCorrect == IndexSpec => []DocumentInv
<1>1. IndexInit => DocumentInv
  BY ParserInvInit, EmptySeq DEF IndexInit, ChunkerInit, DocumentInv, Document
<1> QED
  BY <1>1, DocumentInvStep, PTL DEF IndexSpec

\* The parser has collected what it has read, and nothing is lost or added when it ends.
ParsingInv ==
    /\ stage = "parsing" => ParsingOK(media, items, unread, collector)
    /\ stage \in {"parsed", "chunking", "indexed"} => ParsedOK(media, items, blocks)

LEMMA ParsingInvStep ==
    DocumentInv /\ ParsingInv /\ [IndexNext]_indexVars => ParsingInv'
<1> SUFFICES ASSUME DocumentInv, ParsingInv, [IndexNext]_indexVars PROVE ParsingInv'
  OBVIOUS
<1>1. CASE Parse
  <2>1. stage = "parsing" /\ stage' = stage
    BY <1>1 DEF Parse
  <2>2. ParsingOK(media', items', unread', collector')
    BY <1>1, <2>1, ParsingStep DEF DocumentInv, ParsingInv
  <2> QED
    BY <2>1, <2>2 DEF ParsingInv
<1>2. CASE EndParsing
  <2>1. /\ stage = "parsing" /\ stage' = "parsed" /\ unread = {}
        /\ blocks' = Parsed /\ media' = media /\ items' = items
    BY <1>2 DEF EndParsing, Goto, parserVars
  <2>2. ParsedOK(media, items, Parsed)
    BY <2>1, ParsingEnds DEF DocumentInv, ParsingInv
  <2>3. ParsedOK(media', items', blocks')
    BY <2>1, <2>2
  <2> QED
    BY <2>1, <2>3 DEF ParsingInv
<1>3. ASSUME stage \in {"parsed", "chunking"}, stage' # "parsing",
             UNCHANGED <<media, items, blocks>>
      PROVE  ParsingInv'
  <2>1. ParsedOK(media', items', blocks')
    BY <1>3 DEF ParsingInv
  <2> QED
    BY <1>3, <2>1 DEF ParsingInv
<1>4. CASE Chunk
  BY <1>3, <1>4 DEF Chunk, Divide, Goto, parserVars
<1>5. CASE Pack
  BY <1>3, <1>5 DEF Pack, Slice, Fit, PackPiece, PackLast, parserVars
<1>6. CASE Refuse
  <2>1. stage' = "refused"
    BY <1>6 DEF Refuse, Goto
  <2> QED
    BY <2>1 DEF ParsingInv
<1>7. CASE Finish
  BY <1>3, <1>7 DEF Finish, Goto, parserVars, chunkerVars
<1>8. CASE UNCHANGED indexVars
  <2>1. UNCHANGED <<media, items, unread, collector, blocks, stage>>
    BY <1>8 DEF indexVars, parserVars, chunkerVars
  <2>2. stage = "parsing" => ParsingOK(media', items', unread', collector')
    BY <2>1 DEF ParsingInv
  <2>3. stage \in {"parsed", "chunking", "indexed"} => ParsedOK(media', items', blocks')
    BY <2>1 DEF ParsingInv
  <2> QED
    BY <2>1, <2>2, <2>3 DEF ParsingInv
<1> QED
  BY <1>1, <1>2, <1>4, <1>5, <1>6, <1>7, <1>8 DEF IndexNext

\* What the parser has collected is, at every step, all of the source so far, in its order
\* and under its headings, and the document keeps it.
THEOREM ParsingInvCorrect == IndexSpec => []ParsingInv
<1>1. IndexInit => ParsingInv
  BY ParsingStarts DEF IndexInit, ParsingInv
<1>2. IndexSpec => [](DocumentInv /\ ParsingInv)
  <2>1. IndexInit => DocumentInv
    BY ParserInvInit, EmptySeq DEF IndexInit, ChunkerInit, DocumentInv, Document
  <2>2. DocumentInv /\ ParsingInv /\ [IndexNext]_indexVars => (DocumentInv /\ ParsingInv)'
    BY DocumentInvStep, ParsingInvStep
  <2> QED
    BY <1>1, <2>1, <2>2, PTL DEF IndexSpec
<1> QED
  BY <1>2, PTL

LEMMA DocumentIsCollected ==
    ASSUME DocumentInv, ParsedOK(media, items, blocks)
    PROVE  CASE media = "pdf" -> \A i \in Items : PageCollected(i)
             [] media = "html" /\ ~WellNested -> Subsequence(Text(blocks), Visible)
             [] OTHER -> Text(blocks) = Visible
<1>1. PICK c \in Collector : /\ c.blocks = blocks /\ ParsingOK(media, items, {}, c)
                             /\ media # "html" => c.parts = <<>>
  BY DEF ParsedOK
<1>2. /\ media \in {"markdown", "plain", "html", "pdf"}
      /\ media = "html" => items \in Seq(HtmlEvent)
      /\ media = "pdf" => items \in Seq(PdfPage)
  <2>1. media \in {"markdown", "plain", "html", "pdf"}
    BY SupplyAssumption DEF SourceItem, DocumentInv, ParserInv
  <2> QED
    BY <2>1 DEF SourceItem, DocumentInv, ParserInv
<1>3. CASE media = "pdf"
  <2>1. \A i \in Items : PageCollected(i)
    BY <1>1, <1>2, <1>3, PdfOfDocument DEF ParsingOK
  <2> QED
    BY <1>3, <2>1
<1>4. CASE media = "html"
  <2>1. IF WellNested THEN Text(blocks) = Visible ELSE Subsequence(Text(blocks), Visible)
    BY <1>1, <1>2, <1>4, HtmlOfDocument DEF ParsingOK
  <2> QED
    BY <1>4, <2>1
<1>5. CASE media \in {"markdown", "plain"}
  <2>1. Visible = Text(items)
    BY <1>5 DEF Visible, Text, Items, Item
  <2>2. Text(c.blocks) \o c.parts = Text(items) /\ c.parts = <<>>
        /\ Text(c.blocks) \in Seq(STRING)
    BY <1>1, <1>5, CollectorTypes DEF ParsingOK
  <2>3. Text(blocks) = Visible
    BY <1>1, <2>1, <2>2, ConcatEmptySeq
  <2> QED
    BY <1>5, <2>3
<1> QED
  BY <1>2, <1>3, <1>4, <1>5

\* A document that is accepted is collected once and in order, and whole: the lines of a text,
\* the visible text of an HTML source, and the lines of every page of a PDF. Of an HTML source
\* that leaves an element open or misnests one it is a subsequence that is collected: what
\* follows a "br" or "img" inside an element may be lost.
THEOREM TextCollectedCorrect == IndexSpec => []TextCollected
<1>1. DocumentInv /\ ParsingInv => TextCollected
  <2> SUFFICES ASSUME DocumentInv, ParsingInv, stage \in {"parsed", "chunking", "indexed"}
               PROVE  CASE media = "pdf" -> \A i \in Items : PageCollected(i)
                        [] media = "html" /\ ~WellNested -> Subsequence(Text(blocks), Visible)
                        [] OTHER -> Text(blocks) = Visible
    BY DEF TextCollected, PageCollected
  <2> QED
    BY DocumentIsCollected DEF ParsingInv
<1> QED
  BY <1>1, DocumentInvCorrect, ParsingInvCorrect, PTL

\* A block of a Markdown source carries every heading that its text stands under, and only
\* these, each at its level, if the source skips no level. It says nothing of HTML and PDF.
THEOREM PathIsOutlineCorrect == IndexSpec => []PathIsOutline
<1>1. DocumentInv /\ ParsingInv => PathIsOutline
  <2> SUFFICES ASSUME DocumentInv, ParsingInv, stage \in {"parsed", "chunking", "indexed"},
                      media = "markdown"
               PROVE  \A b \in DOMAIN blocks : \A i \in Items :
                          Origin(b, i) =>
                              /\ {Item(k).text : k \in Ancestors(i)}
                                    \subseteq ToSet(blocks[b].path)
                              /\ NoLevelSkipped =>
                                    {<<Item(k).level, Item(k).text>> : k \in Ancestors(i)}
                                        = {<<n, blocks[b].path[n]>> :
                                              n \in DOMAIN blocks[b].path}
    BY DEF PathIsOutline
  <2>1. PICK c \in Collector : c.blocks = blocks /\ ParsingOK(media, items, {}, c)
    BY DEF ParsingInv, ParsedOK
  <2>2. items \in Seq(MarkdownLine) /\ blocks \in Document /\ OutlineOK(items, c)
    BY <2>1 DEF DocumentInv, ParserInv, SourceItem, ParsingOK
  <2> QED
    BY <2>1, <2>2, OutlineOfDocument
<1> QED
  BY <1>1, DocumentInvCorrect, ParsingInvCorrect, PTL

\* The chunks of a document cover it but for the tokens skipped in front of a terminator
\* inside a word, keep to their section and make progress.
THEOREM ChunksCoverCorrect == IndexSpec => []ChunksCover
<1>1. DocumentInv /\ IndexInv => ChunksCover
  BY PackedIsBounded DEF DocumentInv
<1> QED
  BY <1>1, DocumentInvCorrect, IndexInvCorrect, PTL

\* Every chunk fits the embedding model with its headings. Its tokens that were not skipped
\* keep to MaxSize, and those it shares with the chunk before it to Overlap; the tokens
\* that merging brings back are not counted (ChunkWithinMaximum counts them and fails).
THEOREM ChunksBoundedCorrect == IndexSpec => []ChunksBounded
<1>1. DocumentInv /\ IndexInv => ChunksBounded
  BY PackedIsBounded DEF DocumentInv
<1> QED
  BY <1>1, DocumentInvCorrect, IndexInvCorrect, PTL
=============================================================================
