------------------------------ MODULE ChunkPlan ------------------------------
(***************************************************************************)
(* How the evidence items of a bundle become the chunks of a provider      *)
(* (synthesis/multi_ai.py): by semantic bucket, greedily within a number   *)
(* of items and a budget of tokens; and how a chunk that failed for its    *)
(* size becomes the chunks of a retry.  A chunk is a sequence of positions *)
(* in the bundle, an item its bucket and its estimated tokens.             *)
(***************************************************************************)
EXTENDS Integers, Sequences, Functions

CONSTANTS
    Buckets,      \* semantic bucket keys
    ItemTokens,   \* estimated tokens of an item
    MaxBundle,    \* bound: items of a bundle
    ChunkSize,    \* _evidence_chunk_size
    TokenBudget,  \* _chunk_target_tokens
    MinBudget,    \* MIN_ADAPTIVE_SUBCHUNK_TOKENS
    Overhead      \* _chunk_prompt_overhead_tokens

ASSUME ChunkPlanAssumption ==
    /\ ItemTokens \subseteq Nat \ {0}
    /\ ChunkSize \in Nat \ {0} /\ TokenBudget \in Nat \ {0}
    /\ {MaxBundle, MinBudget, Overhead} \subseteq Nat

Items == [bucket : Buckets, tokens : ItemTokens]
Bundles == UNION {[1 .. n -> Items] : n \in 1 .. MaxBundle}
Whole(b) == [i \in DOMAIN b |-> i]

Tokens(b, chunk) ==
    LET sum[n \in 0 .. Len(chunk)] ==
            IF n = 0 THEN 0 ELSE sum[n - 1] + b[chunk[n]].tokens
    IN  sum[Len(chunk)]

\* Mutant of Fits: what is added is not counted.
FitsBefore(b, chunk, more, size, budget) ==
    /\ Len(chunk) + Len(more) <= size
    /\ Overhead + Tokens(b, chunk) <= budget

Fits(b, chunk, more, size, budget) ==
    /\ Len(chunk) + Len(more) <= size
    /\ Overhead + Tokens(b, chunk) + Tokens(b, more) <= budget

\* A part is added to the chunk being filled, or closes it and begins the next one.
AddPart(b, filled, part, size, budget) ==
    IF filled.current = <<>> \/ Fits(b, filled.current, part, size, budget)
    THEN [filled EXCEPT !.current = @ \o part]
    ELSE [closed |-> Append(filled.closed, filled.current), current |-> part]

Close(filled) ==
    IF filled.current = <<>> THEN filled.closed
                             ELSE Append(filled.closed, filled.current)

Greedy(b, parts, size, budget) ==
    LET filled[n \in 0 .. Len(parts)] ==
            IF n = 0 THEN [closed |-> <<>>, current |-> <<>>]
                     ELSE AddPart(b, filled[n - 1], parts[n], size, budget)
    IN  Close(filled[Len(parts)])

AddItem(b, found, i) ==
    IF \E n \in DOMAIN found : b[found[n][1]].bucket = b[i].bucket
    THEN [n \in DOMAIN found |-> IF b[found[n][1]].bucket = b[i].bucket
                                THEN Append(found[n], i) ELSE found[n]]
    ELSE Append(found, <<i>>)

\* In the order in which the buckets first appear.
SemanticBuckets(b, items) ==
    LET found[n \in 0 .. Len(items)] ==
            IF n = 0 THEN <<>> ELSE AddItem(b, found[n - 1], items[n])
    IN  found[Len(items)]

Singly(items) == [n \in DOMAIN items |-> <<items[n]>>]

PackBuckets(b, found, size, budget) ==
    LET packed[n \in 0 .. Len(found)] ==
            IF n = 0 THEN <<>>
                     ELSE packed[n - 1] \o Greedy(b, Singly(found[n]), size, budget)
    IN  packed[Len(found)]

Pack(b, items, size, budget, merge) ==
    LET packed == PackBuckets(b, SemanticBuckets(b, items), size, budget)
    IN  IF merge THEN Greedy(b, packed, size, budget) ELSE packed

Slices(items, size) ==
    [n \in 1 .. (Len(items) + size - 1) \div size |->
        SubSeq(items, (n - 1) * size + 1, IF n * size < Len(items) THEN n * size
                                                                   ELSE Len(items))]

Cut(b, items, size, budget, merge) ==
    IF budget = 0 THEN Slices(items, size) ELSE Pack(b, items, size, budget, merge)

Plan(b, budget, merge) == Cut(b, Whole(b), ChunkSize, budget, merge)

Half(n) == (n + 1) \div 2

SubBudget(budget) ==
    IF budget = 0 \/ budget \div 2 >= MinBudget THEN budget \div 2 ELSE MinBudget

\* Mutant of Subchunks: the chunk is packed again under the limits it was made with.
SubchunksAgain(b, items, budget, merge) == Cut(b, items, ChunkSize, budget, merge)

\* Of a chunk of more than one item.
Subchunks(b, items, budget, merge) ==
    LET size == IF ChunkSize < Half(Len(items)) THEN ChunkSize ELSE Half(Len(items))
        cut == Cut(b, items, size, SubBudget(budget), merge)
    IN  IF Len(cut) = 1
        THEN <<SubSeq(items, 1, Half(Len(items))),
               SubSeq(items, Half(Len(items)) + 1, Len(items))>>
        ELSE cut

-----------------------------------------------------------------------------
(* Properties.                                                             *)

Covered(chunks) == UNION {Range(chunks[n]) : n \in DOMAIN chunks}

Separate(chunks) ==
    \A m, n \in DOMAIN chunks : \A i \in DOMAIN chunks[m], j \in DOMAIN chunks[n] :
        chunks[m][i] = chunks[n][j] => m = n /\ i = j

\* Every item is in one place of one chunk, and no chunk is empty.
Partitions(chunks, items) ==
    /\ \A n \in DOMAIN chunks : chunks[n] # <<>>
    /\ Covered(chunks) = Range(items)
    /\ Separate(chunks)

\* A chunk keeps to the limits unless it is one item that breaks them alone.
Within(b, chunk, size, budget) ==
    /\ Len(chunk) <= size
    /\ budget = 0 \/ Len(chunk) = 1 \/ Overhead + Tokens(b, chunk) <= budget

Plans == {<<b, budget, merge>> : b \in Bundles, budget \in {0, TokenBudget},
                                 merge \in BOOLEAN}

\* Every item is reviewed in exactly one chunk; every chunk keeps to the limits; and no
\* two neighbours could have been one call (of one bucket, or of any when small chunks
\* are merged).
PlanKeepsLimits ==
    \A p \in Plans :
        LET b == p[1]
            budget == p[2]
            merge == p[3]
            chunks == Plan(b, budget, merge)
            InOneCall(c, d) == budget # 0 /\ Fits(b, c, d, ChunkSize, budget)
        IN  /\ Partitions(chunks, Whole(b))
            /\ \A n \in DOMAIN chunks : Within(b, chunks[n], ChunkSize, budget)
            /\ \A n \in 1 .. Len(chunks) - 1 :
                  merge \/ b[chunks[n][1]].bucket = b[chunks[n + 1][1]].bucket =>
                      ~ InOneCall(chunks[n], chunks[n + 1])

\* The retry of a chunk by pieces loses no item and sends no piece as large as what
\* failed, whatever the limits are.
SplitShrinks ==
    \A p \in Plans :
        \A chunk \in Range(Plan(p[1], p[2], p[3])) :
            Len(chunk) > 1 =>
                LET pieces == Subchunks(p[1], chunk, p[2], p[3])
                IN  /\ Partitions(pieces, chunk)
                    /\ \A n \in DOMAIN pieces : Len(pieces[n]) < Len(chunk)
=============================================================================
