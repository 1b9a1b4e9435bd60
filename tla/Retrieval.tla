------------------------------- MODULE Retrieval -----------------------------
(***************************************************************************)
(* Semantic search (semantic_search): files are cut into chunks, chunks    *)
(* are indexed under an id made of path, symbol and first line, a search   *)
(* ranks them by boosted similarity and merges hits of one file that touch.*)
(* Files change between two indexings, and nothing removes a chunk.        *)
(*                                                                         *)
(* A line is Blank, Prose, or a positive number: the name in a heading, or *)
(* of the declaration that starts there.  The embedder is external: any    *)
(* similarity may come out of it, and any call may fail.                   *)
(***************************************************************************)
EXTENDS Integers, Sequences, FiniteSets, SequencesExt

CONSTANTS
    Files,
    Language,       \* by file: "go", "test" (Go too) or "markdown"
    Versions,       \* by file: the contents it takes on, one after the other
    Similarities,   \* cosines, as integers
    MinScore,       \* Config.MinScore, in hundredths of a similarity
    TopK,
    Hash(_)         \* of an id; only its order matters

VARIABLES
    version,    \* by file: the version on disk
    index,      \* the indexed chunks
    clean       \* history: files of which only one version was indexed

retrievalVars == <<version, index, clean>>

NoSymbol == 0
Prose    == -1
Blank    == -2
Lines    == {Blank, Prose} \cup (Nat \ {NoSymbol})

ASSUME RetrievalAssumption ==
    /\ Language \in [Files -> {"go", "test", "markdown"}]
    /\ \A f \in Files : Versions[f] \in Seq(Seq(Lines)) /\ Versions[f] # <<>>
    /\ Similarities \subseteq Int /\ MinScore \in Int /\ TopK \in Nat

RetrievalInit ==
    version = [f \in Files |-> 1] /\ index = {} /\ clean = Files

----------------------------------------------------------------------------
(* The chunker.                                                            *)

Content(f) == Versions[f][version[f]]
IsName(line) == line > NoSymbol

(* The last line of the paragraph, or declaration, that starts at i.       *)
EndsParagraph(lines, k) == k = Len(lines) \/ lines[k + 1] = Blank
EndsDeclaration(lines, k) == k = Len(lines) \/ lines[k + 1] # Prose
LastLine(lines, i, Ends(_, _)) ==
    CHOOSE k \in i .. Len(lines) : Ends(lines, k) /\ \A j \in i .. k - 1 : ~Ends(lines, j)

(* One chunk per top-level symbol; what is before the first is not chunked. *)
ChunkGo(f, lines) ==
    {[file |-> f, symbol |-> lines[i], from |-> i, to |-> LastLine(lines, i, EndsDeclaration)] :
        i \in {i \in DOMAIN lines : IsName(lines[i])}}

(* One chunk per paragraph; its symbol is its own heading, or the nearest  *)
(* heading that opened a paragraph before it.                              *)
OpensParagraph(lines, i) == lines[i] # Blank /\ (i > 1 => lines[i - 1] = Blank)
HeadingAt(lines, i) ==
    LET above == {h \in 1 .. i : OpensParagraph(lines, h) /\ IsName(lines[h])}
    IN IF above = {} THEN NoSymbol ELSE lines[CHOOSE h \in above : \A g \in above : g <= h]
ChunkMarkdown(f, lines) ==
    {[file |-> f, symbol |-> HeadingAt(lines, i), from |-> i, to |-> LastLine(lines, i, EndsParagraph)] :
        i \in {i \in DOMAIN lines : OpensParagraph(lines, i)}}

ChunksOf(f, lines) == IF Language[f] = "markdown" THEN ChunkMarkdown(f, lines) ELSE ChunkGo(f, lines)
Chunk(f) == ChunksOf(f, Content(f))

ChunkID(c) == <<c.file, c.symbol, c.from>>

(* Every chunk there can be.  Their ids do not collide.                    *)
Chunks == UNION {UNION {ChunksOf(f, lines) : lines \in ToSet(Versions[f])} : f \in Files}

ASSUME HashAssumption == \A c, d \in Chunks :
    /\ Hash(ChunkID(c)) \in Int
    /\ Hash(ChunkID(c)) = Hash(ChunkID(d)) => ChunkID(c) = ChunkID(d)

----------------------------------------------------------------------------
(* The engine.                                                             *)

Edit(f) ==
    /\ version[f] < Len(Versions[f])
    /\ version' = [version EXCEPT ![f] = @ + 1]
    /\ UNCHANGED <<index, clean>>

Upsert(new) == {c \in index : \A d \in new : ChunkID(d) # ChunkID(c)} \cup new

(* An upsert that fails leaves the chunks before it indexed.               *)
Index(f) ==
    /\ \E new \in SUBSET Chunk(f) :
        /\ \A c \in new, d \in Chunk(f) \ new : c.from < d.from
        /\ index' = Upsert(new)
    /\ clean' = IF \A c \in index' : c.file = f => c \in Chunk(f) THEN clean ELSE clean \ {f}
    /\ UNCHANGED version

Boost(f) == CASE Language[f] = "test" -> 75 [] Language[f] = "go" -> 115 [] OTHER -> 100

(* The hashes of the ids break ties.                                       *)
IdBefore(c, d) == Hash(ChunkID(c)) < Hash(ChunkID(d))
Above(a, b) == a.score > b.score \/ (a.score = b.score /\ IdBefore(a.chunk, b.chunk))

spansTouch(a, b) == a.from <= b.to + 1 /\ b.from <= a.to + 1

Lower(a, b) == IF a < b THEN a ELSE b
Upper(a, b) == IF a > b THEN a ELSE b
mergeTwoEnd(a, b) == [a EXCEPT !.chunk.from = Lower(@, b.chunk.from), !.chunk.to = b.chunk.to,
                               !.ids = @ \cup b.ids]
mergeTwo(a, b) == [a EXCEPT !.chunk.from = Lower(@, b.chunk.from), !.chunk.to = Upper(@, b.chunk.to),
                            !.ids = @ \cup b.ids]

(* Each hit is folded into the first result that it touches.               *)
MergeInto(out, r) ==
    LET touched == {i \in DOMAIN out : out[i].chunk.file = r.chunk.file /\ spansTouch(out[i].chunk, r.chunk)}
    IN IF touched = {} THEN Append(out, r)
       ELSE LET t == CHOOSE i \in touched : \A j \in touched : i <= j
            IN [out EXCEPT ![t] = mergeTwo(@, r)]
mergeOverlaps(hits) == FoldLeft(MergeInto, <<>>, hits)

Hits(similarity) ==
    {h \in {[chunk |-> c, score |-> similarity[c] * Boost(c.file), ids |-> {ChunkID(c)}] : c \in index} :
        h.score >= MinScore}

Ranked(similarity) ==
    LET hits == Hits(similarity) IN
    [i \in 1 .. Cardinality(hits) |-> CHOOSE h \in hits : Cardinality({g \in hits : Above(g, h)}) = i - 1]
Search(similarity) == LET merged == mergeOverlaps(Ranked(similarity))
                      IN SubSeq(merged, 1, Lower(TopK, Len(merged)))

RetrievalNext == \E f \in Files : Edit(f) \/ Index(f)

RetrievalSpec == RetrievalInit /\ [][RetrievalNext]_retrievalVars

----------------------------------------------------------------------------
RetrievalTypeOK ==
    /\ version \in [Files -> Nat \ {0}] /\ clean \subseteq Files
    /\ \A c \in index : c.file \in Files /\ c.symbol \in Nat /\ 1 <= c.from /\ c.from <= c.to
    /\ \A c, d \in index : ChunkID(c) = ChunkID(d) => c = d

Overlap(a, b) == a.file = b.file /\ a.from <= b.to /\ b.from <= a.to

(* Whatever a query resembles: every hit above the floor is in one result *)
(* and in no other, unless the results were cut at k; a result covers the  *)
(* lines from its first chunk to its last without a gap, and is placed by  *)
(* its best chunk; and of a file of which only one version was indexed no  *)
(* line is in two results.                                                 *)
Searched == \A similarity \in [index -> Similarities] :
    LET hits    == ToSet(Ranked(similarity))
        results == Search(similarity)
        In(r)   == {h \in hits : h.ids \subseteq r.ids}
    IN /\ Len(results) <= TopK
       /\ \A i, j \in DOMAIN results : i < j =>
            /\ In(results[i]) \cap In(results[j]) = {} /\ results[i].score >= results[j].score
            /\ results[i].chunk.file \in clean => ~Overlap(results[i].chunk, results[j].chunk)
       /\ Len(results) < TopK => UNION {In(r) : r \in ToSet(results)} = hits
       /\ \A r \in ToSet(results) :
            LET chunks == {h.chunk : h \in In(r)}
                lines  == UNION {c.from .. c.to : c \in chunks} IN
            /\ \A c \in chunks : c.file = r.chunk.file
            /\ lines = r.chunk.from .. r.chunk.to
            /\ \A h \in In(r) : h.score <= r.score
            /\ \E h \in In(r) : h.score = r.score
=============================================================================
