--------------------------- MODULE ChunkSchedulerProofs ---------------------------
(***************************************************************************)
(* Proofs about ChunkScheduler for any plan, pool size and countdowns: the *)
(* starts are paced, the pools are bounded, settled evidence is not sent   *)
(* again, and a result of ok rests on the answers it counts.               *)
(*                                                                         *)
(* And about ChunkPlan for any bundle and limits: a plan loses no item,    *)
(* doubles none and keeps the limits, and the pieces of a chunk are        *)
(* smaller than it.  Its loops are recursive functions; that these exist,  *)
(* and what they compute, is proved by induction on the rounds made, from  *)
(* the least number of a set of numbers.                                   *)
(***************************************************************************)
EXTENDS ChunkSending, FiniteSetTheorems, SequenceTheorems, WellFoundedInduction, TLAPS

-------------------------------------------------------------------------------
(* What makes the properties inductive.                                      *)

Running == {c \in Chunks : job[c] = "running"}

\* Threads of pieces exist while their chunk is run, as it is cut; what has ended has
\* an answer.
PiecesRun ==
    \A p \in Pieces :
        /\ at[p] # "idle" => job[p[1]] = "running" /\ p \in PiecesOf(p[1])
        /\ at[p] \in {"noting", "finished"} => got[p] # "none"

\* Who sleeps holds the lock, and sleeps long enough.
SleeperPaced ==
    \A p \in Pieces :
        /\ at[p] = "sleeping" <=> lock = p
        /\ at[p] = "sleeping" => gap <= nap[p] /\ blocked <= nap[p]

\* No pool runs more than it may, and a rate-limited chunk waits or runs alone.
Pooled ==
    /\ Cardinality(Running) <= slots
    /\ slots = 1 => \A c, d \in Running : c = d
    /\ \A c \in Chunks : job[c] # "done" /\ res[c] = "rate_limited" => slots = 1
    /\ \A c \in Chunks :
          Cardinality(Active(PiecesOf(c))) <= WorkerCount(Cardinality(PiecesOf(c)))

\* An answered piece is not asked again; a chunk is ok by its pieces.
AnswersKept ==
    /\ \A p \in Pieces : at[p] \in {"waiting", "sleeping", "calling"} => got[p] # "ok"
    /\ \A c \in Chunks : res[c] = "ok" => Answered(c)

\* What the safety filter refused has just been refused, or has settled its chunk.
RefusedSettles ==
    \A p \in Pieces : got[p] = "safety_filter" =>
        \/ job[p[1]] = "running" /\ at[p] \in {"noting", "finished"}
        \/ job[p[1]] = "done" /\ res[p[1]] = "safety_filter"

\* Only what can be cut is ever split (_adaptive_subchunk_retry_enabled).
SplitMeant == \A c \in Chunks : split[c] => Cuts[c] > 0

SchedulerInd ==
    /\ TypeOK /\ PiecesRun /\ SleeperPaced /\ Pooled /\ AnswersKept /\ RefusedSettles
    /\ OkRestsOnEvidence

-------------------------------------------------------------------------------
(* Induction over sets of numbers.                                           *)

LEMMA LeastNumber ==
  ASSUME NEW T, T \subseteq Nat, T # {}
  PROVE  \E m \in T : \A n \in T : m <= n
<1> DEFINE Before == {p \in Nat \X Nat : p[1] < p[2]}
<1>1. IsWellFoundedOn(Before, Nat)
  <2>1. Before = OpToRel(<, Nat)
    BY DEF OpToRel
  <2> QED BY <2>1, NatLessThanWellFounded
<1>2. \A m, n \in Nat : m < n => <<m, n>> \in Before
  OBVIOUS
<1> HIDE DEF Before
<1>3. PICK m \in T : \A n \in T : ~ (<<n, m>> \in Before)
  BY <1>1, WFMin
<1>4. \A n \in T : m \in Nat /\ n \in Nat /\ ~ (n < m)
  BY <1>2, <1>3
<1> QED BY <1>3, <1>4

LEMMA CountingUp ==
  ASSUME NEW T, 0 \in T, \A n \in Nat : n \in T => n + 1 \in T
  PROVE  \A n \in Nat : n \in T
<1> SUFFICES ASSUME NEW k \in Nat, k \notin T
             PROVE  FALSE
  OBVIOUS
<1>1. PICK m \in {n \in Nat : n \notin T} : \A n \in {i \in Nat : i \notin T} : m <= n
  <2>1. {n \in Nat : n \notin T} # {} /\ {n \in Nat : n \notin T} \subseteq Nat
    OBVIOUS
  <2> QED BY <2>1, LeastNumber
<1>2. m \in Nat /\ m # 0 /\ m - 1 \in Nat /\ (m - 1) + 1 = m
  BY <1>1
<1>3. m - 1 \in T
  BY <1>1, <1>2
<1> QED BY <1>1, <1>2, <1>3

-------------------------------------------------------------------------------
(* The operators.                                                            *)

Answering == {"waiting", "sleeping", "calling", "noting"}

\* A split makes two pieces or more.
LEMMA CutFacts ==
  ASSUME NEW c \in Chunks
  PROVE  /\ Cuts[c] \in Nat /\ Cuts[c] \in Int /\ Cuts[c] # 1
         /\ Cuts[c] > 0 => 1 \in 1 .. Cuts[c] /\ 2 \in 1 .. Cuts[c]
<1>1. Cuts[c] \in Nat /\ Cuts[c] # 1
  BY SchedulerAssumption
<1> QED BY <1>1

\* A piece is a chunk and a part of it.
LEMMA PieceFacts ==
  /\ \A c \in Chunks : Cuts[c] \in Nat /\ Cuts[c] # 1 /\ <<c, 0>> \in Pieces
  /\ \A p \in Pieces : p[1] \in Chunks /\ p[2] \in 0 .. Cuts[p[1]] /\ p = <<p[1], p[2]>>
  /\ \A c \in Chunks : \A i \in 0 .. Cuts[c] :
        <<c, i>> \in Pieces /\ <<c, i>>[1] = c /\ <<c, i>>[2] = i
<1>1. \A c \in Chunks : Cuts[c] \in Nat /\ Cuts[c] # 1
  BY SchedulerAssumption
<1>2. ASSUME NEW p \in Pieces
      PROVE  p[1] \in Chunks /\ p[2] \in 0 .. Cuts[p[1]] /\ p = <<p[1], p[2]>>
  <2>1. PICK c \in Chunks : p \in {c} \X (0 .. Cuts[c])
    BY DEF Pieces
  <2> QED BY <2>1
<1>3. ASSUME NEW c \in Chunks, NEW i \in 0 .. Cuts[c]
      PROVE  <<c, i>> \in Pieces
  <2>1. <<c, i>> \in {c} \X (0 .. Cuts[c])
    OBVIOUS
  <2> QED BY <2>1 DEF Pieces
<1>4. \A c \in Chunks : 0 \in 0 .. Cuts[c]
  BY <1>1
<1> QED BY <1>1, <1>2, <1>3, <1>4

\* The pieces of a chunk are pieces, and its own.
LEMMA PiecesOfFacts ==
  ASSUME NEW c \in Chunks
  PROVE  /\ PiecesOf(c) \subseteq Pieces /\ \A p \in PiecesOf(c) : p[1] = c
         /\ split[c] => /\ \A p \in PiecesOf(c) : p[2] \in 1 .. Cuts[c]
                        /\ \A i \in 1 .. Cuts[c] : <<c, i>> \in PiecesOf(c)
         /\ ~ split[c] => PiecesOf(c) = {<<c, 0>>}
<1>1. CASE split[c]
  <2>1. PiecesOf(c) = {c} \X (1 .. Cuts[c])
    BY <1>1 DEF PiecesOf
  <2>2. \A p \in {c} \X (1 .. Cuts[c]) :
           p[1] = c /\ p[2] \in 1 .. Cuts[c] /\ p = <<c, p[2]>>
    OBVIOUS
  <2>3. \A i \in 1 .. Cuts[c] : <<c, i>> \in {c} \X (1 .. Cuts[c]) /\ i \in 0 .. Cuts[c]
    BY PieceFacts
  <2> HIDE DEF Pieces
  <2>4. \A p \in PiecesOf(c) : p \in Pieces
    BY <2>1, <2>2, <2>3, PieceFacts
  <2> QED BY <1>1, <2>1, <2>2, <2>3, <2>4
<1>2. CASE ~ split[c]
  BY <1>2, PieceFacts DEF PiecesOf
<1> QED BY <1>1, <1>2

\* Sets of chunks and of pieces are finite.
LEMMA Finite ==
  /\ \A S \in SUBSET Chunks : IsFiniteSet(S) /\ Cardinality(S) \in Nat
  /\ \A S \in SUBSET Pieces : IsFiniteSet(S) /\ Cardinality(S) \in Nat
<1>1. IsFiniteSet(Chunks)
  BY SchedulerAssumption
<1>2. ASSUME NEW c \in Chunks
      PROVE  IsFiniteSet({c} \X (0 .. Cuts[c]))
  <2>1. 0 \in Int /\ Cuts[c] \in Int
    BY CutFacts
  <2>2. IsFiniteSet(0 .. Cuts[c])
    BY <2>1, FS_Interval, Zenon
  <2>3. IsFiniteSet({c})
    BY FS_Singleton
  <2> QED BY <2>2, <2>3, FS_Product
<1>2a. PICK N \in Nat : ExistsBijection(1 .. N, Chunks)
  BY <1>1, FS_NatBijection
<1>3. PICK f \in Bijection(1 .. N, Chunks) : TRUE
  BY <1>2a DEF ExistsBijection
<1>4. f \in [1 .. N -> Chunks] /\ \A c \in Chunks : \E k \in 1 .. N : f[k] = c
  BY <1>3 DEF Bijection, Surjection
<1> DEFINE Of(c) == {c} \X (0 .. Cuts[c])
           Upto(n) == UNION {Of(f[k]) : k \in 1 .. n}
           T == {n \in Nat : n <= N => IsFiniteSet(Upto(n))}
<1>5. 0 \in T
  <2>1. Upto(0) = {}
    OBVIOUS
  <2> QED BY <2>1, FS_EmptySet
<1>6. ASSUME NEW n \in Nat, n \in T
      PROVE  n + 1 \in T
  <2> SUFFICES ASSUME n + 1 <= N
               PROVE  IsFiniteSet(Upto(n + 1))
    OBVIOUS
  <2>1. IsFiniteSet(Upto(n)) /\ n + 1 \in 1 .. N
    BY <1>6
  <2>2. f[n + 1] \in Chunks
    BY <1>4, <2>1
  <2>3. IsFiniteSet(Of(f[n + 1]))
    BY <1>2, <2>2
  <2>4. \A k \in 1 .. n + 1 : k \in 1 .. n \/ k = n + 1
    OBVIOUS
  <2>5. \A k \in 1 .. n : k \in 1 .. n + 1
    OBVIOUS
  <2> HIDE DEF Of
  <2>6. Upto(n + 1) = Upto(n) \cup Of(f[n + 1])
    BY <2>4, <2>5
  <2> DEFINE A == Upto(n)
             B == Of(f[n + 1])
  <2> HIDE DEF Upto, A, B
  <2>7. IsFiniteSet(A) /\ IsFiniteSet(B)
    BY <2>1, <2>3 DEF A, B
  <2>8. IsFiniteSet(A \cup B)
    BY <2>7, FS_Union
  <2> QED BY <2>6, <2>8 DEF A, B
<1>7. IsFiniteSet(Upto(N))
  <2> HIDE DEF Upto
  <2>1. \A n \in Nat : n \in T
    <3> HIDE DEF T
    <3> QED BY <1>5, <1>6, CountingUp
  <2> QED BY <2>1
<1>8. Pieces \subseteq Upto(N)
  <2> SUFFICES ASSUME NEW p \in Pieces
               PROVE  p \in Upto(N)
    OBVIOUS
  <2>1. PICK c \in Chunks : p \in Of(c)
    BY DEF Pieces
  <2>2. PICK k \in 1 .. N : f[k] = c
    BY <1>4
  <2> HIDE DEF Of
  <2> QED BY <2>1, <2>2
<1>9. IsFiniteSet(Pieces)
  <2> HIDE DEF Upto
  <2> QED BY <1>7, <1>8, FS_Subset
<1> QED BY <1>1, <1>9, FS_Subset, FS_CardinalityType

\* The size of a pool (_chunk_worker_count).
LEMMA WorkersBounded ==
  ASSUME NEW n \in Nat
  PROVE  /\ WorkerCount(n) \in 1 .. Requested
         /\ Requested = 1 => WorkerCount(n) = 1
BY SchedulerAssumption DEF WorkerCount, Larger, Smaller

\* Retries never get a larger pool, and one worker after a rate limit.
LEMMA RetryWorkersBounded ==
  /\ RetryWorkers \in 1 .. Requested
  /\ (\E c \in Retryable : res[c] = "rate_limited") => RetryWorkers = 1
<1>1. Cardinality(Retryable) \in Nat
  <2>1. Retryable \in SUBSET Chunks
    BY DEF Retryable
  <2> QED BY <2>1, Finite
<1>2. WorkerCount(Cardinality(Retryable)) \in 1 .. Requested
  BY <1>1, WorkersBounded
<1>3. Requested \in Nat \ {0}
  BY SchedulerAssumption
<1> DEFINE count == WorkerCount(Cardinality(Retryable))
           statuses == {res[c] : c \in Retryable}
<1>4. RetryWorkers = IF "rate_limited" \in statuses THEN 1
                     ELSE IF "timeout" \in statuses THEN Smaller(2, count) ELSE count
  BY DEF RetryWorkers
<1>5. (\E c \in Retryable : res[c] = "rate_limited") <=> "rate_limited" \in statuses
  OBVIOUS
<1>6. count \in 1 .. Requested
  BY <1>2
<1> HIDE DEF count, statuses
<1> QED BY <1>3, <1>4, <1>5, <1>6 DEF Smaller

\* How failures are told apart (_artifact_execution_status).
LEMMA PrecedenceFacts ==
  /\ \A s \in DOMAIN Precedence : Precedence[s] \in 1 .. 6
  /\ \A s \in DOMAIN Precedence : Precedence[s] = 1 => s = "safety_filter"
  /\ "safety_filter" \in DOMAIN Precedence /\ Precedence["safety_filter"] = 1
  /\ "ok" \notin DOMAIN Precedence /\ "none" \notin DOMAIN Precedence
<1> DEFINE S == {"safety_filter", "context_length", "rate_limited", "timeout",
                 "schema_invalid", "provider_error", "skipped_not_configured"}
<1>1. DOMAIN Precedence = S
  BY DEF Precedence
<1>2. /\ Precedence["safety_filter"] = 1 /\ Precedence["context_length"] = 2
      /\ Precedence["rate_limited"] = 3 /\ Precedence["timeout"] = 4
      /\ Precedence["schema_invalid"] = 5 /\ Precedence["provider_error"] = 6
      /\ Precedence["skipped_not_configured"] = 6
  BY DEF Precedence
<1> QED BY <1>1, <1>2

\* A split chunk is ok if all its pieces are, and refused if one of them is
\* (_merge_adaptive_subchunk_envelopes).
LEMMA MergeFacts ==
  ASSUME NEW c \in Chunks, split[c], Cuts[c] > 0,
         \A p \in PiecesOf(c) : got[p] \in Outcomes
  PROVE  /\ MergeSubchunks(c) \in Outcomes \cup {"provider_error"}
         /\ MergeSubchunks(c) = "ok" => \A p \in PiecesOf(c) : got[p] = "ok"
         /\ (\E p \in PiecesOf(c) : got[p] = "safety_filter")
               => MergeSubchunks(c) = "safety_filter"
<1> DEFINE failures == {got[p] : p \in PiecesOf(c)} \ {"ok"}
           first == CHOOSE s \in failures : \A t \in failures : Precedence[s] <= Precedence[t]
<1>1. MergeSubchunks(c) = IF failures = {} THEN "ok"
                          ELSE IF first = "skipped_not_configured" THEN "provider_error"
                          ELSE first
  BY DEF MergeSubchunks
<1>2. \A s \in failures : s \in Outcomes /\ s \in DOMAIN Precedence /\ s # "ok"
  BY SchedulerAssumption
<1>3. <<c, 1>> \in PiecesOf(c)
  <2>1. 1 \in 1 .. Cuts[c]
    BY CutFacts
  <2> QED BY <2>1, PiecesOfFacts
<1>4. failures # {} =>
         first \in failures /\ \A t \in failures : Precedence[first] <= Precedence[t]
  <2> SUFFICES ASSUME failures # {}
               PROVE  \E s \in failures : \A t \in failures : Precedence[s] <= Precedence[t]
    OBVIOUS
  <2> DEFINE ranks == {Precedence[s] : s \in failures}
  <2>1. ranks \subseteq Nat /\ ranks # {}
    BY <1>2, PrecedenceFacts
  <2> HIDE DEF failures
  <2>2. PICK m \in ranks : \A n \in ranks : m <= n
    <3> HIDE DEF ranks
    <3> QED BY <2>1, LeastNumber
  <2> QED BY <2>2
<1>5. failures = {} => \A p \in PiecesOf(c) : got[p] = "ok"
  OBVIOUS
<1>6. (\E p \in PiecesOf(c) : got[p] = "safety_filter") => "safety_filter" \in failures
  OBVIOUS
<1>7. failures = {} => "ok" \in Outcomes
  BY <1>3
<1> HIDE DEF failures, first
<1>8. "safety_filter" \in failures => first = "safety_filter"
  <2> SUFFICES ASSUME "safety_filter" \in failures PROVE first = "safety_filter"
    OBVIOUS
  <2>1. first \in failures /\ Precedence[first] <= 1
    BY <1>4, PrecedenceFacts
  <2>2. Precedence[first] \in 1 .. 6
    BY <1>2, <2>1, PrecedenceFacts
  <2> QED BY <1>2, <2>1, <2>2, PrecedenceFacts
<1> QED BY <1>1, <1>2, <1>4, <1>5, <1>6, <1>7, <1>8

\* A thread of a piece moves.
LEMMA Moves ==
  ASSUME TypeOK, NEW p \in Pieces, NEW v, at' = [at EXCEPT ![p] = v]
  PROVE  at'[p] = v /\ \A q \in Pieces : q # p => at'[q] = at[q]
BY DEF TypeOK

\* The pool invariant speaks of the threads that are active.
LEMMA ActiveFacts ==
  ASSUME NEW S \in SUBSET Pieces
  PROVE  \A p \in S : p \in Active(S) <=> at[p] \in Answering
BY DEF Active, Answering

\* The result stands while no answer of ok is lost.
LEMMA EvidenceStands ==
  ASSUME OkRestsOnEvidence, merged' = merged,
         \A p \in Pieces : got[p] = "ok" => got'[p] = "ok"
  PROVE  OkRestsOnEvidence'
<1> DEFINE S == {c \in Chunks : Answered(c)}
           T == {c \in Chunks : Answered(c)'}
<1>1. S \in SUBSET T /\ T \in SUBSET Chunks
  BY PieceFacts DEF Answered
<1>2. IsFiniteSet(T) /\ Cardinality(T) \in Nat /\ Cardinality(S) \in Nat
      /\ Cardinality(S) <= Cardinality(T)
  BY <1>1, Finite, FS_Subset
<1>3. Cardinality(Chunks) \in Nat
  BY Finite
<1> HIDE DEF S
<1>4. merged = "ok" => 5 * Cardinality(S) >= 4 * Cardinality(Chunks)
  BY DEF OkRestsOnEvidence, S
<1>5. T = {c \in Chunks : Answered(c)}'
  OBVIOUS
<1> HIDE DEF T
<1> QED BY <1>2, <1>3, <1>4, <1>5 DEF OkRestsOnEvidence

\* The properties of answers and refusals, while answers stay.
LEMMA AnswersFrame ==
  ASSUME SchedulerInd, UNCHANGED <<got, res, job>>,
         \A p \in Pieces :
            /\ at'[p] \in {"waiting", "sleeping", "calling"} =>
                  at[p] \in {"waiting", "sleeping", "calling"} \/ got[p] # "ok"
            /\ at[p] \in {"noting", "finished"} => at'[p] \in {"noting", "finished"}
  PROVE  AnswersKept' /\ RefusedSettles'
<1>1. AnswersKept'
  BY DEF SchedulerInd, AnswersKept, Answered
<1>2. RefusedSettles'
  BY DEF SchedulerInd, RefusedSettles
<1> QED BY <1>1, <1>2

\* A nested pool, while no thread is added to it.
LEMMA NestedFrame ==
  ASSUME Pooled, NEW c \in Chunks, PiecesOf(c)' = PiecesOf(c),
         \A p \in PiecesOf(c) : at'[p] \in Answering => at[p] \in Answering
  PROVE  (Cardinality(Active(PiecesOf(c))) <= WorkerCount(Cardinality(PiecesOf(c))))'
<1> DEFINE S == Active(PiecesOf(c))
           T == Active(PiecesOf(c))'
           n == Cardinality(PiecesOf(c))
<1>1. PiecesOf(c) \in SUBSET Pieces
  BY PiecesOfFacts
<1>2. S = {p \in PiecesOf(c) : at[p] \in Answering}
  BY DEF Active, Answering
<1>3. T = {p \in PiecesOf(c) : at'[p] \in Answering}
  BY DEF Active, Answering
<1> HIDE DEF S, T
<1>4. T \in SUBSET S /\ S \in SUBSET Pieces
  BY <1>1, <1>2, <1>3
<1>5. IsFiniteSet(S) /\ Cardinality(S) \in Nat /\ Cardinality(T) \in Nat
  BY <1>4, Finite
<1>6. Cardinality(T) <= Cardinality(S)
  BY <1>4, <1>5, FS_Subset
<1>7. n \in Nat
  BY <1>1, Finite
<1>8. Cardinality(S) <= WorkerCount(n)
  BY DEF Pooled, S
<1>9. WorkerCount(n) \in 1 .. Requested /\ Requested \in Nat
  BY <1>7, WorkersBounded, SchedulerAssumption
<1>10. Cardinality(T) <= WorkerCount(n)
  BY <1>5, <1>6, <1>8, <1>9
<1>11. n' = n
  OBVIOUS
<1>12. WorkerCount(n)' = WorkerCount(n)
  BY <1>11 DEF WorkerCount
<1> QED BY <1>10, <1>12 DEF T

\* The pools, while no chunk and no thread is added to them.
LEMMA PoolsFrame ==
  ASSUME SchedulerInd, UNCHANGED <<job, split, slots, res>>,
         \A p \in Pieces : at'[p] \in Answering => at[p] \in Answering
  PROVE  Pooled'
<1>1. Running' = Running
  BY DEF Running
<1>2. ASSUME NEW c \in Chunks
      PROVE  (Cardinality(Active(PiecesOf(c))) <= WorkerCount(Cardinality(PiecesOf(c))))'
  <2>1. PiecesOf(c)' = PiecesOf(c) /\ PiecesOf(c) \subseteq Pieces
    BY PiecesOfFacts DEF PiecesOf
  <2> QED BY <2>1, NestedFrame DEF SchedulerInd
<1> QED BY <1>1, <1>2 DEF SchedulerInd, Pooled

-------------------------------------------------------------------------------
(* The steps of the pools.                                                   *)

\* A chunk is begun when the pool has room; its threads are queued.
LEMMA BeginJobKeeps ==
  ASSUME SchedulerInd, NEW c \in Chunks, BeginJob(c)
  PROVE  SchedulerInd'
<1>1. /\ job[c] = "queued" /\ Cardinality(Running) < slots
      /\ job' = [job EXCEPT ![c] = "running"]
      /\ at' = [p \in Pieces |-> IF p \in PiecesOf(c) THEN "queued" ELSE at[p]]
      /\ UNCHANGED <<split, nap, got, res, slots, rounds, lock, gap, blocked, merged>>
  BY DEF BeginJob, Running
<1>2. TypeOK /\ PiecesRun /\ SleeperPaced /\ Pooled /\ AnswersKept /\ RefusedSettles
      /\ OkRestsOnEvidence
  BY DEF SchedulerInd
<1>3. /\ PiecesOf(c) \subseteq Pieces /\ \A p \in PiecesOf(c) : p[1] = c
      /\ \A d \in Chunks : PiecesOf(d)' = PiecesOf(d)
  BY <1>1, PiecesOfFacts DEF PiecesOf
<1>4. \A p \in Pieces : p[1] = c => at[p] = "idle"
  BY <1>1, <1>2 DEF PiecesRun
<1>5. \A p \in Pieces : at'[p] = IF p \in PiecesOf(c) THEN "queued" ELSE at[p]
  BY <1>1
<1>6. job'[c] = "running" /\ \A d \in Chunks : d # c => job'[d] = job[d]
  BY <1>1, <1>2 DEF TypeOK
<1>7. TypeOK'
  <2>1. at' \in [Pieces -> {"idle", "queued", "waiting", "sleeping", "calling", "noting",
                            "finished"}]
    BY <1>1, <1>2 DEF TypeOK
  <2>2. job' \in [Chunks -> {"queued", "running", "done"}]
    BY <1>1, <1>2 DEF TypeOK
  <2> QED BY <1>1, <1>2, <2>1, <2>2 DEF TypeOK
<1>8. PiecesRun'
  BY <1>1, <1>2, <1>3, <1>5, <1>6, PieceFacts DEF PiecesRun
<1>9. SleeperPaced'
  BY <1>1, <1>2, <1>3, <1>4, <1>5 DEF SleeperPaced
<1>10. Pooled'
  <2>1. Running' = Running \cup {c} /\ c \notin Running
    BY <1>1, <1>6 DEF Running
  <2>2. Running \in SUBSET Chunks
    BY DEF Running
  <2>3. IsFiniteSet(Running) /\ Cardinality(Running) \in Nat
    BY <2>2, Finite
  <2>4. Cardinality(Running') = Cardinality(Running) + 1
    BY <2>1, <2>3, FS_AddElement
  <2>5. slots \in Nat
    BY <1>2, SchedulerAssumption DEF TypeOK, Larger
  <2>6. slots = 1 => Running = {}
    BY <1>1, <2>3, <2>5, FS_EmptySet
  <2>7. ASSUME NEW d \in Chunks
        PROVE  (Cardinality(Active(PiecesOf(d))) <= WorkerCount(Cardinality(PiecesOf(d))))'
    <3>1. PiecesOf(d)' = PiecesOf(d) /\ PiecesOf(d) \subseteq Pieces
      BY <1>3, PiecesOfFacts
    <3>2. \A p \in Pieces : at'[p] \in Answering => at[p] \in Answering
      BY <1>5 DEF Answering
    <3> QED BY <1>2, <3>1, <3>2, NestedFrame
  <2>8. Cardinality(Running') <= slots' /\ (slots' = 1 => \A d, e \in Running' : d = e)
    BY <1>1, <2>1, <2>3, <2>4, <2>5, <2>6
  <2>9. \A d \in Chunks : job'[d] # "done" /\ res'[d] = "rate_limited" => slots' = 1
    BY <1>1, <1>2, <1>6 DEF Pooled
  <2> QED BY <1>2, <2>7, <2>8, <2>9 DEF Pooled
<1>11. AnswersKept'
  BY <1>1, <1>2, <1>5 DEF AnswersKept, Answered
<1>12. RefusedSettles'
  <2>1. \A p \in Pieces : p[1] = c => got[p] # "safety_filter"
    BY <1>1, <1>2 DEF RefusedSettles
  <2>2. \A p \in Pieces : p[1] # c => job'[p[1]] = job[p[1]] /\ at'[p] = at[p]
    BY <1>3, <1>5, <1>6, PieceFacts
  <2> QED BY <1>1, <1>2, <2>1, <2>2 DEF RefusedSettles
<1>13. OkRestsOnEvidence'
  BY <1>1, <1>2, EvidenceStands
<1> QED BY <1>7, <1>8, <1>9, <1>10, <1>11, <1>12, <1>13 DEF SchedulerInd

\* A thread is begun when the nested pool has room; one with an answer ends.
LEMMA BeginPieceKeeps ==
  ASSUME SchedulerInd, NEW p \in Pieces, BeginPiece(p)
  PROVE  SchedulerInd'
<1>1. /\ at[p] = "queued"
      /\ Cardinality(Active(PiecesOf(p[1]))) < WorkerCount(Cardinality(PiecesOf(p[1])))
      /\ at' = [at EXCEPT ![p] = IF got[p] = "ok" THEN "finished"
                                 ELSE IF Interval = 0 THEN "calling" ELSE "waiting"]
      /\ UNCHANGED <<job, split, nap, got, res, slots, rounds, lock, gap, blocked, merged>>
  BY DEF BeginPiece
<1>2. TypeOK /\ PiecesRun /\ SleeperPaced /\ Pooled /\ AnswersKept /\ RefusedSettles
      /\ OkRestsOnEvidence
  BY DEF SchedulerInd
<1>3. /\ at'[p] \in {"finished", "calling", "waiting"}
      /\ at'[p] = "finished" <=> got[p] = "ok"
      /\ \A q \in Pieces : q # p => at'[q] = at[q]
  BY <1>1, <1>2, Moves
<1>4. /\ p[1] \in Chunks /\ p \in PiecesOf(p[1]) /\ job[p[1]] = "running"
      /\ \A c \in Chunks : PiecesOf(c)' = PiecesOf(c)
  BY <1>1, <1>2, PieceFacts DEF PiecesRun, PiecesOf
<1>5. TypeOK'
  BY <1>1, <1>2 DEF TypeOK
<1>6. PiecesRun'
  BY <1>1, <1>2, <1>3, <1>4, PieceFacts DEF PiecesRun
<1>7. SleeperPaced'
  BY <1>1, <1>2, <1>3 DEF SleeperPaced
<1>8. Pooled'
  <2>1. Running' = Running
    BY <1>1 DEF Running
  <2>2. ASSUME NEW c \in Chunks, c # p[1]
        PROVE  (Cardinality(Active(PiecesOf(c))) <= WorkerCount(Cardinality(PiecesOf(c))))'
    <3>1. p \notin PiecesOf(c) /\ PiecesOf(c) \subseteq Pieces
      BY <2>2, PiecesOfFacts
    <3> QED BY <1>2, <1>3, <1>4, <3>1, NestedFrame
  <2>3. (Cardinality(Active(PiecesOf(p[1]))) <= WorkerCount(Cardinality(PiecesOf(p[1]))))'
    <3> DEFINE c == p[1]
               S == Active(PiecesOf(c))
               T == Active(PiecesOf(c))'
               n == Cardinality(PiecesOf(c))
    <3>1. PiecesOf(c)' = PiecesOf(c) /\ PiecesOf(c) \in SUBSET Pieces
      BY <1>4, PiecesOfFacts
    <3>2. S = {q \in PiecesOf(c) : at[q] \in Answering}
      BY DEF Active, Answering
    <3>3. T = {q \in PiecesOf(c) : at'[q] \in Answering}
      BY <3>1 DEF Active, Answering
    <3>4. n \in Nat /\ n' = n /\ Cardinality(S) < WorkerCount(n)
      BY <1>1, <3>1, Finite
    <3>5. WorkerCount(n)' = WorkerCount(n) /\ WorkerCount(n) \in 1 .. Requested
          /\ Requested \in Nat
      BY <3>4, WorkersBounded, SchedulerAssumption DEF WorkerCount
    <3> HIDE DEF c, S, T, n
    <3>6. S \in SUBSET Pieces /\ T \in SUBSET (S \cup {p})
      BY <1>3, <3>1, <3>2, <3>3
    <3>7. IsFiniteSet(S) /\ Cardinality(S) \in Nat
      BY <3>6, Finite
    <3>8. IsFiniteSet(S \cup {p}) /\ Cardinality(S \cup {p}) <= Cardinality(S) + 1
          /\ Cardinality(S \cup {p}) \in Nat
      <4>1. IsFiniteSet(S \cup {p})
            /\ Cardinality(S \cup {p}) = IF p \in S THEN Cardinality(S) ELSE Cardinality(S) + 1
        BY <3>7, FS_AddElement
      <4> QED BY <3>7, <4>1
    <3>9. Cardinality(T) <= Cardinality(S \cup {p}) /\ Cardinality(T) \in Nat
      BY <3>6, <3>8, FS_Subset, FS_CardinalityType
    <3>10. Cardinality(T) <= WorkerCount(n)
      BY <3>4, <3>5, <3>7, <3>8, <3>9
    <3> QED BY <3>5, <3>10 DEF c, T, n
  <2>4. \A c \in Chunks :
          (Cardinality(Active(PiecesOf(c))) <= WorkerCount(Cardinality(PiecesOf(c))))'
    BY <2>2, <2>3
  <2> QED BY <1>1, <1>2, <2>1, <2>4 DEF Pooled
<1>9. AnswersKept' /\ RefusedSettles'
  BY <1>1, <1>3, AnswersFrame
<1>10. OkRestsOnEvidence'
  BY <1>1, <1>2, EvidenceStands
<1> QED BY <1>5, <1>6, <1>7, <1>8, <1>9, <1>10 DEF SchedulerInd

\* A chunk has ended: its result is what its pieces answered.
LEMMA EndJobKeeps ==
  ASSUME SchedulerInd, SplitMeant, NEW c \in Chunks, EndJob(c)
  PROVE  SchedulerInd'
<1>1. /\ job[c] = "running" /\ \A p \in PiecesOf(c) : at[p] = "finished"
      /\ job' = [job EXCEPT ![c] = "done"]
      /\ at' = [p \in Pieces |-> IF p \in PiecesOf(c) THEN "idle" ELSE at[p]]
      /\ res' = [res EXCEPT ![c] = IF split[c] THEN MergeSubchunks(c) ELSE got[<<c, 0>>]]
      /\ UNCHANGED <<split, nap, got, slots, rounds, lock, gap, blocked, merged>>
  BY DEF EndJob
<1>2. TypeOK /\ PiecesRun /\ SleeperPaced /\ Pooled /\ AnswersKept /\ RefusedSettles
      /\ OkRestsOnEvidence
  BY DEF SchedulerInd
<1>3. /\ PiecesOf(c) \subseteq Pieces /\ \A p \in PiecesOf(c) : p[1] = c
      /\ split[c] => Cuts[c] > 0 /\ \A i \in 1 .. Cuts[c] : <<c, i>> \in PiecesOf(c)
      /\ ~ split[c] => PiecesOf(c) = {<<c, 0>>}
      /\ \A d \in Chunks : PiecesOf(d)' = PiecesOf(d)
  BY <1>1, PiecesOfFacts DEF PiecesOf, SplitMeant
<1>4. \A p \in PiecesOf(c) : got[p] \in Outcomes
  BY <1>1, <1>2, <1>3 DEF PiecesRun, TypeOK
<1> DEFINE s == IF split[c] THEN MergeSubchunks(c) ELSE got[<<c, 0>>]
<1>5. /\ s \in Outcomes \cup {"provider_error"}
      /\ s = "ok" => \A p \in PiecesOf(c) : got[p] = "ok"
      /\ (\E p \in PiecesOf(c) : got[p] = "safety_filter") => s = "safety_filter"
  BY <1>3, <1>4, MergeFacts
<1>6. res' = [res EXCEPT ![c] = s]
  BY <1>1
<1> HIDE DEF s
<1>7. /\ res'[c] = s /\ \A d \in Chunks : d # c => res'[d] = res[d]
      /\ job'[c] = "done" /\ \A d \in Chunks : d # c => job'[d] = job[d]
      /\ \A p \in Pieces : at'[p] = IF p \in PiecesOf(c) THEN "idle" ELSE at[p]
  BY <1>1, <1>2, <1>6 DEF TypeOK
<1>8. \A p \in Pieces : p[1] = c /\ p \notin PiecesOf(c) => at[p] = "idle"
  BY <1>2 DEF PiecesRun
<1>9. TypeOK'
  <2>1. at' \in [Pieces -> {"idle", "queued", "waiting", "sleeping", "calling", "noting",
                            "finished"}]
    BY <1>1, <1>2 DEF TypeOK
  <2>2. res' \in [Chunks -> Outcomes \cup {"none", "provider_error"}]
    BY <1>2, <1>5, <1>6 DEF TypeOK
  <2>3. job' \in [Chunks -> {"queued", "running", "done"}]
    BY <1>1, <1>2 DEF TypeOK
  <2> QED BY <1>1, <1>2, <2>1, <2>2, <2>3 DEF TypeOK
<1>10. PiecesRun'
  BY <1>1, <1>2, <1>3, <1>7, <1>8, PieceFacts DEF PiecesRun
<1>11. SleeperPaced'
  BY <1>1, <1>2, <1>3, <1>7 DEF SleeperPaced
<1>12. Pooled'
  <2>1. Running' = Running \ {c} /\ Running \in SUBSET Chunks
    BY <1>1, <1>7 DEF Running
  <2>2. IsFiniteSet(Running) /\ Cardinality(Running) \in Nat
    BY <2>1, Finite
  <2>3. Running' \in SUBSET Running /\ Cardinality(Running') \in Nat
    BY <2>1, Finite
  <2>4. Cardinality(Running') <= Cardinality(Running)
    BY <2>2, <2>3, FS_Subset
  <2>5. slots \in Nat
    BY <1>2, SchedulerAssumption DEF TypeOK, Larger
  <2>6. Cardinality(Running') <= slots'
    BY <1>1, <1>2, <2>2, <2>3, <2>4, <2>5 DEF Pooled
  <2>7. ASSUME NEW d \in Chunks
        PROVE  (Cardinality(Active(PiecesOf(d))) <= WorkerCount(Cardinality(PiecesOf(d))))'
    <3>1. PiecesOf(d)' = PiecesOf(d) /\ PiecesOf(d) \subseteq Pieces
      BY <1>3, PiecesOfFacts
    <3>2. \A p \in Pieces : at'[p] \in Answering => at[p] \in Answering
      BY <1>7 DEF Answering
    <3> QED BY <1>2, <3>1, <3>2, NestedFrame
  <2>8. \A d \in Chunks : job'[d] # "done" /\ res'[d] = "rate_limited" => slots' = 1
    BY <1>1, <1>2, <1>7 DEF Pooled
  <2> QED BY <1>1, <1>2, <2>3, <2>6, <2>7, <2>8 DEF Pooled
<1>13. AnswersKept'
  <2>1. s = "ok" => Answered(c)
    BY <1>3, <1>5 DEF Answered
  <2>2. \A d \in Chunks : Answered(d) => Answered(d)'
    BY <1>1 DEF Answered
  <2> QED BY <1>1, <1>2, <1>7, <2>1, <2>2 DEF AnswersKept
<1>14. RefusedSettles'
  <2>1. ASSUME NEW p \in Pieces, p[1] = c, got[p] = "safety_filter"
        PROVE  s = "safety_filter"
    <3>1. p \in PiecesOf(c)
      BY <1>1, <1>2, <1>8, <2>1 DEF RefusedSettles
    <3> QED BY <1>5, <2>1, <3>1
  <2>2. \A p \in Pieces : p[1] # c => p[1] \in Chunks /\ p \notin PiecesOf(c)
    BY <1>3, PieceFacts
  <2> QED BY <1>1, <1>2, <1>7, <2>1, <2>2 DEF RefusedSettles
<1>15. OkRestsOnEvidence'
  BY <1>1, <1>2, EvidenceStands
<1> QED BY <1>9, <1>10, <1>11, <1>12, <1>13, <1>14, <1>15 DEF SchedulerInd

-------------------------------------------------------------------------------
(* The steps of the pacer and of the calls.                                  *)

\* Who takes the lock sleeps as long as the pacer and the cooldown say.
LEMMA AcquireKeeps ==
  ASSUME SchedulerInd, NEW p \in Pieces, Acquire(p)
  PROVE  SchedulerInd'
<1>1. /\ at[p] = "waiting" /\ lock = Free /\ lock' = p
      /\ nap' = [nap EXCEPT ![p] = Larger(blocked, gap)]
      /\ at' = [at EXCEPT ![p] = "sleeping"]
      /\ UNCHANGED <<job, split, got, res, slots, rounds, gap, blocked, merged>>
  BY DEF Acquire
<1>2. TypeOK /\ PiecesRun /\ SleeperPaced /\ Pooled /\ OkRestsOnEvidence
  BY DEF SchedulerInd
<1>3. at'[p] = "sleeping" /\ \A q \in Pieces : q # p => at'[q] = at[q]
  BY <1>1, <1>2, Moves
<1>4. /\ gap \in 0 .. Interval /\ blocked \in 0 .. Cooldown /\ Interval \in Nat
      /\ Cooldown \in Nat
  BY <1>2, SchedulerAssumption DEF TypeOK
<1>5. /\ Larger(blocked, gap) \in 0 .. LongestWait
      /\ gap <= Larger(blocked, gap) /\ blocked <= Larger(blocked, gap)
  BY <1>4 DEF Larger, LongestWait
<1>6. /\ nap' \in [Pieces -> 0 .. LongestWait] /\ nap'[p] = Larger(blocked, gap)
      /\ \A q \in Pieces : q # p => nap'[q] = nap[q]
  BY <1>1, <1>2, <1>5 DEF TypeOK
<1>7. TypeOK'
  BY <1>1, <1>2, <1>6 DEF TypeOK
<1>8. PiecesRun'
  BY <1>1, <1>2, <1>3 DEF PiecesRun, PiecesOf
<1>9. SleeperPaced'
  BY <1>1, <1>2, <1>3, <1>5, <1>6, SchedulerAssumption DEF SleeperPaced, Pieces
<1>10. Pooled'
  BY <1>1, <1>3, PoolsFrame DEF Answering
<1>11. AnswersKept' /\ RefusedSettles'
  BY <1>1, <1>3, AnswersFrame
<1>12. OkRestsOnEvidence'
  BY <1>1, <1>2, EvidenceStands
<1> QED BY <1>7, <1>8, <1>9, <1>10, <1>11, <1>12 DEF SchedulerInd

\* Who wakes starts the interval anew, and nobody sleeps then.
LEMMA StartKeeps ==
  ASSUME SchedulerInd, NEW p \in Pieces, Start(p)
  PROVE  SchedulerInd'
<1>1. /\ at[p] = "sleeping" /\ lock' = Free /\ gap' = Interval
      /\ at' = [at EXCEPT ![p] = "calling"]
      /\ UNCHANGED <<job, split, nap, got, res, slots, rounds, blocked, merged>>
  BY DEF Start
<1>2. TypeOK /\ PiecesRun /\ SleeperPaced /\ Pooled /\ OkRestsOnEvidence
  BY DEF SchedulerInd
<1>3. at'[p] = "calling" /\ \A q \in Pieces : q # p => at'[q] = at[q]
  BY <1>1, <1>2, Moves
<1>4. TypeOK'
  BY <1>1, <1>2, SchedulerAssumption DEF TypeOK
<1>5. PiecesRun'
  BY <1>1, <1>2, <1>3 DEF PiecesRun, PiecesOf
<1>6. SleeperPaced'
  BY <1>1, <1>2, <1>3, SchedulerAssumption DEF SleeperPaced, Pieces
<1>7. Pooled'
  BY <1>1, <1>3, PoolsFrame DEF Answering
<1>8. AnswersKept' /\ RefusedSettles'
  BY <1>1, <1>3, AnswersFrame
<1>9. OkRestsOnEvidence'
  BY <1>1, <1>2, EvidenceStands
<1> QED BY <1>4, <1>5, <1>6, <1>7, <1>8, <1>9 DEF SchedulerInd

\* An answer replaces none that was ok.
LEMMA AnswerKeeps ==
  ASSUME SchedulerInd, NEW p \in Pieces, NEW s \in Outcomes, Answer(p, s)
  PROVE  SchedulerInd'
<1>1. /\ at[p] = "calling" /\ got' = [got EXCEPT ![p] = s]
      /\ at' = [at EXCEPT ![p] = "noting"]
      /\ UNCHANGED <<job, split, nap, res, slots, rounds, lock, gap, blocked, merged>>
  BY DEF Answer
<1>2. TypeOK /\ PiecesRun /\ SleeperPaced /\ Pooled /\ AnswersKept /\ RefusedSettles
      /\ OkRestsOnEvidence
  BY DEF SchedulerInd
<1>3. at'[p] = "noting" /\ \A q \in Pieces : q # p => at'[q] = at[q]
  BY <1>1, <1>2, Moves
<1>4. got'[p] = s /\ \A q \in Pieces : q # p => got'[q] = got[q]
  BY <1>1, <1>2 DEF TypeOK
<1>5. got[p] # "ok" /\ s # "none"
  BY <1>1, <1>2, SchedulerAssumption, PrecedenceFacts DEF AnswersKept
<1>6. \A q \in Pieces : got[q] = "ok" => got'[q] = "ok"
  BY <1>4, <1>5
<1>7. TypeOK'
  BY <1>1, <1>2 DEF TypeOK
<1>8. PiecesRun'
  BY <1>1, <1>2, <1>3, <1>4, <1>5 DEF PiecesRun, PiecesOf
<1>9. SleeperPaced'
  BY <1>1, <1>2, <1>3 DEF SleeperPaced
<1>10. Pooled'
  BY <1>1, <1>3, PoolsFrame DEF Answering
<1>11. AnswersKept'
  <2>1. \A c \in Chunks : Answered(c) => Answered(c)'
    BY <1>6, PieceFacts DEF Answered
  <2> QED BY <1>1, <1>2, <1>3, <1>4, <2>1 DEF AnswersKept
<1>12. RefusedSettles'
  BY <1>1, <1>2, <1>3, <1>4 DEF RefusedSettles, PiecesRun
<1>13. OkRestsOnEvidence'
  BY <1>1, <1>2, <1>6, EvidenceStands
<1> QED BY <1>7, <1>8, <1>9, <1>10, <1>11, <1>12, <1>13 DEF SchedulerInd

\* A cooldown begins while nobody sleeps.
LEMMA NoteKeeps ==
  ASSUME SchedulerInd, NEW p \in Pieces, NoteResult(p)
  PROVE  SchedulerInd'
<1>1. /\ at[p] = "noting" /\ at' = [at EXCEPT ![p] = "finished"]
      /\ \/ lock = Free /\ blocked' = Larger(blocked, Cooldown)
         \/ blocked' = blocked
      /\ UNCHANGED <<job, split, nap, got, res, slots, rounds, lock, gap, merged>>
  BY DEF NoteResult
<1>2. TypeOK /\ PiecesRun /\ SleeperPaced /\ Pooled /\ OkRestsOnEvidence
  BY DEF SchedulerInd
<1>3. at'[p] = "finished" /\ \A q \in Pieces : q # p => at'[q] = at[q]
  BY <1>1, <1>2, Moves
<1>4. blocked' \in 0 .. Cooldown
  BY <1>1, <1>2, SchedulerAssumption DEF TypeOK, Larger
<1>5. TypeOK'
  BY <1>1, <1>2, <1>4 DEF TypeOK
<1>6. PiecesRun'
  BY <1>1, <1>2, <1>3 DEF PiecesRun, PiecesOf
<1>7. SleeperPaced'
  BY <1>1, <1>2, <1>3, SchedulerAssumption DEF SleeperPaced, Pieces
<1>8. Pooled'
  BY <1>1, <1>3, PoolsFrame DEF Answering
<1>9. AnswersKept' /\ RefusedSettles'
  BY <1>1, <1>3, AnswersFrame
<1>10. OkRestsOnEvidence'
  BY <1>1, <1>2, EvidenceStands
<1> QED BY <1>5, <1>6, <1>7, <1>8, <1>9, <1>10 DEF SchedulerInd

\* Time passes for all countdowns alike.
LEMMA TickKeeps ==
  ASSUME SchedulerInd, Tick
  PROVE  SchedulerInd'
<1>1. /\ gap' = Less(gap) /\ blocked' = Less(blocked)
      /\ nap' = [p \in Pieces |-> Less(nap[p])]
      /\ UNCHANGED <<job, split, at, got, res, slots, rounds, lock, merged>>
  BY DEF Tick
<1>2. TypeOK /\ PiecesRun /\ SleeperPaced /\ Pooled /\ OkRestsOnEvidence
  BY DEF SchedulerInd
<1>3. /\ gap \in 0 .. Interval /\ blocked \in 0 .. Cooldown /\ Interval \in Nat
      /\ Cooldown \in Nat /\ LongestWait \in Nat
      /\ \A p \in Pieces : nap[p] \in 0 .. LongestWait
  BY <1>2, SchedulerAssumption DEF TypeOK, LongestWait, Larger
<1>4. TypeOK'
  BY <1>1, <1>2, <1>3 DEF TypeOK, Less
<1>5. PiecesRun'
  BY <1>1, <1>2 DEF PiecesRun, PiecesOf
<1>6. SleeperPaced'
  BY <1>1, <1>2, <1>3 DEF SleeperPaced, Less
<1>7. Pooled'
  BY <1>1, PoolsFrame DEF Answering
<1>8. AnswersKept' /\ RefusedSettles'
  BY <1>1, AnswersFrame
<1>9. OkRestsOnEvidence'
  BY <1>1, <1>2, EvidenceStands
<1> QED BY <1>4, <1>5, <1>6, <1>7, <1>8, <1>9 DEF SchedulerInd

-------------------------------------------------------------------------------
(* Retry rounds and the merge.                                               *)

\* A round runs nothing yet, and tries no refused chunk again.
LEMMA RetryKeeps ==
  ASSUME SchedulerInd, RetryRound
  PROVE  SchedulerInd'
<1>1. /\ \A c \in Chunks : job[c] = "done"
      /\ rounds > 0 /\ rounds' = rounds - 1 /\ slots' = RetryWorkers
      /\ split' = [c \in Chunks |-> IF c \in Retryable THEN Adaptive(c) ELSE split[c]]
      /\ job' = [c \in Chunks |-> IF c \in Retryable THEN "queued" ELSE "done"]
      /\ UNCHANGED <<at, nap, got, res, lock, gap, blocked, merged>>
  BY DEF RetryRound, PassDone
<1>2. TypeOK /\ PiecesRun /\ SleeperPaced /\ Pooled /\ AnswersKept /\ RefusedSettles
      /\ OkRestsOnEvidence
  BY DEF SchedulerInd
<1>3. \A p \in Pieces : at[p] = "idle"
  BY <1>1, <1>2, PieceFacts DEF PiecesRun
<1>4. /\ RetryWorkers \in 1 .. Requested
      /\ (\E c \in Retryable : res[c] = "rate_limited") => RetryWorkers = 1
  BY RetryWorkersBounded
<1>5. TypeOK'
  <2>1. split' \in [Chunks -> BOOLEAN]
    BY <1>1, <1>2 DEF TypeOK, Adaptive
  <2>2. rounds' \in 0 .. Rounds /\ slots' \in 1 .. Larger(1, Requested)
    BY <1>1, <1>2, <1>4, SchedulerAssumption DEF TypeOK, Larger
  <2>3. job' \in [Chunks -> {"queued", "running", "done"}]
    BY <1>1
  <2> QED BY <1>1, <1>2, <2>1, <2>2, <2>3 DEF TypeOK
<1>6. PiecesRun'
  BY <1>1, <1>3 DEF PiecesRun
<1>7. SleeperPaced'
  BY <1>1, <1>2 DEF SleeperPaced
<1>8. Pooled'
  <2>1. Running' = {}
    BY <1>1 DEF Running
  <2>2. Cardinality(Running') <= slots'
    BY <1>1, <1>4, <2>1, FS_EmptySet, SchedulerAssumption
  <2>3. ASSUME NEW c \in Chunks
        PROVE  (Cardinality(Active(PiecesOf(c))) <= WorkerCount(Cardinality(PiecesOf(c))))'
    <3>1. PiecesOf(c)' \in SUBSET Pieces
      <4>1. \A i \in 1 .. Cuts[c] : <<c, i>> \in Pieces
        BY PieceFacts
      <4>2. \A q \in {c} \X (1 .. Cuts[c]) : q = <<c, q[2]>> /\ q[2] \in 1 .. Cuts[c]
        OBVIOUS
      <4> HIDE DEF Pieces
      <4> QED BY <4>1, <4>2, PieceFacts DEF PiecesOf
    <3>2. Active(PiecesOf(c))' = {}
      BY <1>1, <1>3, <3>1 DEF Active
    <3>3. Cardinality(PiecesOf(c)') \in Nat /\ Cardinality({}) = 0
      BY <3>1, Finite, FS_EmptySet
    <3>4. WorkerCount(Cardinality(PiecesOf(c)')) \in 1 .. Requested /\ Requested \in Nat
      BY <3>3, WorkersBounded, SchedulerAssumption
    <3>5. Cardinality({}) <= WorkerCount(Cardinality(PiecesOf(c)'))
      BY <3>3, <3>4
    <3>6. WorkerCount(Cardinality(PiecesOf(c)))' = WorkerCount(Cardinality(PiecesOf(c)'))
      BY DEF WorkerCount
    <3> QED BY <3>2, <3>5, <3>6
  <2>4. ASSUME NEW c \in Chunks, job'[c] # "done", res'[c] = "rate_limited"
        PROVE  slots' = 1
    BY <1>1, <1>4, <2>4
  <2> QED BY <2>1, <2>2, <2>3, <2>4 DEF Pooled
<1>9. AnswersKept'
  BY <1>1, <1>2 DEF AnswersKept, Answered
<1>10. RefusedSettles'
  <2>1. \A p \in Pieces : got[p] = "safety_filter" =>
           p[1] \in Chunks /\ res[p[1]] = "safety_filter" /\ p[1] \notin Retryable
    BY <1>1, <1>2, PieceFacts DEF RefusedSettles, Retryable
  <2> QED BY <1>1, <2>1 DEF RefusedSettles
<1>11. OkRestsOnEvidence'
  BY <1>1, <1>2, EvidenceStands
<1> QED BY <1>5, <1>6, <1>7, <1>8, <1>9, <1>10, <1>11 DEF SchedulerInd

\* The result is ok for four fifths of the chunks.
LEMMA MergeKeeps ==
  ASSUME SchedulerInd, Merge
  PROVE  SchedulerInd'
<1>1. UNCHANGED <<job, split, at, nap, got, res, slots, rounds, lock, gap, blocked>>
  BY DEF Merge
<1>2. TypeOK /\ PiecesRun /\ SleeperPaced /\ Pooled /\ AnswersKept
  BY DEF SchedulerInd
<1> DEFINE S == {c \in Chunks : res[c] = "ok"}
           T == {c \in Chunks : Answered(c)}
<1>3. /\ merged' \in {"ok", "failed", "skipped_not_configured"}
      /\ merged' = "ok" => \/ Cardinality(S) = Cardinality(Chunks)
                           \/ 10 * Cardinality(S) >= 8 * Cardinality(Chunks)
  BY DEF Merge, PartialUsable
<1>4. S \in SUBSET T /\ T \in SUBSET Chunks
  BY <1>2 DEF AnswersKept
<1>5. /\ IsFiniteSet(T) /\ Cardinality(T) \in Nat /\ Cardinality(S) \in Nat
      /\ Cardinality(S) <= Cardinality(T) /\ Cardinality(Chunks) \in Nat
  BY <1>4, Finite, FS_Subset
<1>6. T' = T
  BY <1>1 DEF Answered
<1>7. OkRestsOnEvidence'
  <2>1. merged' = "ok" => 5 * Cardinality(T) >= 4 * Cardinality(Chunks)
    <3> HIDE DEF S, T
    <3> QED BY <1>3, <1>5
  <2> QED BY <1>6, <2>1 DEF OkRestsOnEvidence
<1>8. TypeOK'
  BY <1>1, <1>2, <1>3 DEF TypeOK
<1>9. PiecesRun'
  BY <1>1, <1>2 DEF PiecesRun, PiecesOf
<1>10. SleeperPaced'
  BY <1>1, <1>2 DEF SleeperPaced
<1>11. Pooled'
  BY <1>1, PoolsFrame DEF Answering
<1>12. AnswersKept' /\ RefusedSettles'
  BY <1>1, AnswersFrame
<1> QED BY <1>7, <1>8, <1>9, <1>10, <1>11, <1>12 DEF SchedulerInd

-------------------------------------------------------------------------------
(* The invariant, and what follows from it.                                  *)

\* Nothing runs and nothing is answered at first.
LEMMA IndInit == Init => SchedulerInd
<1> SUFFICES ASSUME Init PROVE SchedulerInd
  OBVIOUS
<1>1. Cardinality(Chunks) \in Nat
  BY Finite
<1>2. WorkerCount(Cardinality(Chunks)) \in 1 .. Requested
  BY <1>1, WorkersBounded
<1>3. Requested \in Nat \ {0} /\ Interval \in Nat /\ Cooldown \in Nat /\ Rounds \in 0 .. 5
      /\ LongestWait \in Nat
  BY SchedulerAssumption DEF LongestWait, Larger
<1>4. TypeOK
  BY <1>2, <1>3 DEF Init, TypeOK, Larger
<1>5. PiecesRun
  BY DEF Init, PiecesRun
<1>6. SleeperPaced
  BY SchedulerAssumption DEF Init, SleeperPaced, Pieces
<1>7. Pooled
  <2>1. Running = {}
    BY DEF Init, Running
  <2>2. ASSUME NEW c \in Chunks
        PROVE  Cardinality(Active(PiecesOf(c))) <= WorkerCount(Cardinality(PiecesOf(c)))
    <3>1. PiecesOf(c) \in SUBSET Pieces
      BY PiecesOfFacts
    <3>2. Active(PiecesOf(c)) = {}
      BY <3>1 DEF Init, Active
    <3>3. Cardinality(PiecesOf(c)) \in Nat /\ Cardinality({}) = 0
      BY <3>1, Finite, FS_EmptySet
    <3>4. WorkerCount(Cardinality(PiecesOf(c))) \in 1 .. Requested /\ Requested \in Nat
      BY <3>3, WorkersBounded, SchedulerAssumption
    <3> QED BY <3>2, <3>3, <3>4
  <2>3. slots \in Nat /\ \A c \in Chunks : res[c] = "none"
    BY <1>2, <1>3 DEF Init
  <2> QED BY <2>1, <2>2, <2>3, FS_EmptySet DEF Pooled
<1>8. AnswersKept /\ RefusedSettles /\ OkRestsOnEvidence
  BY DEF Init, AnswersKept, RefusedSettles, OkRestsOnEvidence
<1> QED BY <1>4, <1>5, <1>6, <1>7, <1>8 DEF SchedulerInd

\* Nothing changes when the run has ended.
LEMMA StutterKeeps == SchedulerInd /\ UNCHANGED vars => SchedulerInd'
<1> SUFFICES ASSUME SchedulerInd, UNCHANGED vars PROVE SchedulerInd'
  OBVIOUS
<1>1. UNCHANGED <<job, split, at, nap, got, res, slots, rounds, lock, gap, blocked, merged>>
  BY DEF vars
<1>2. TypeOK /\ PiecesRun /\ SleeperPaced /\ OkRestsOnEvidence
  BY DEF SchedulerInd
<1>3. TypeOK' /\ PiecesRun' /\ SleeperPaced'
  BY <1>1, <1>2 DEF TypeOK, PiecesRun, PiecesOf, SleeperPaced
<1>4. Pooled' /\ AnswersKept' /\ RefusedSettles'
  BY <1>1, PoolsFrame, AnswersFrame
<1>5. OkRestsOnEvidence'
  BY <1>1, <1>2, EvidenceStands
<1> QED BY <1>3, <1>4, <1>5 DEF SchedulerInd

\* No step splits what cannot be cut.
LEMMA SplitsAreMeant == Spec => []SplitMeant
<1>1. Init => SplitMeant
  BY DEF Init, SplitMeant
<1>2. SplitMeant /\ [Next]_vars => SplitMeant'
  <2> SUFFICES ASSUME SplitMeant, [Next]_vars
               PROVE  SplitMeant'
    OBVIOUS
  <2>1. CASE RetryRound
    BY <2>1 DEF RetryRound, Adaptive, SplitMeant
  <2>2. CASE UNCHANGED split
    BY <2>2 DEF SplitMeant
  <2>3. ASSUME NEW p \in Pieces, Piece(p)
        PROVE  UNCHANGED split
    BY <2>3 DEF Piece, BeginPiece, Acquire, Start, Answer, NoteResult
  <2>4. ASSUME NEW c \in Chunks, BeginJob(c) \/ EndJob(c)
        PROVE  UNCHANGED split
    BY <2>4 DEF BeginJob, EndJob
  <2>5. Tick \/ Merge \/ Ended \/ UNCHANGED vars => UNCHANGED split
    BY DEF Tick, Merge, Ended, vars
  <2> QED BY <2>1, <2>2, <2>3, <2>4, <2>5 DEF Next
<1> QED BY <1>1, <1>2, PTL DEF Spec

\* Every step of pools, pacer, calls and retries keeps the invariant.
LEMMA IndNext == SchedulerInd /\ SplitMeant /\ [Next]_vars => SchedulerInd'
<1> SUFFICES ASSUME SchedulerInd, SplitMeant, [Next]_vars PROVE SchedulerInd'
  OBVIOUS
<1>1. ASSUME NEW p \in Pieces, Piece(p) PROVE SchedulerInd'
  BY <1>1, BeginPieceKeeps, AcquireKeeps, StartKeeps, AnswerKeeps, NoteKeeps DEF Piece
<1>2. ASSUME NEW c \in Chunks, BeginJob(c) \/ EndJob(c) PROVE SchedulerInd'
  BY <1>2, BeginJobKeeps, EndJobKeeps
<1>3. CASE UNCHANGED vars
  BY <1>3, StutterKeeps
<1> QED BY <1>1, <1>2, <1>3, TickKeeps, RetryKeeps, MergeKeeps DEF Next, Ended

\* The inductive invariant holds.
LEMMA IndHolds == Spec => []SchedulerInd
<1>1. Init => SchedulerInd
  BY IndInit
<1>2. SchedulerInd /\ SplitMeant /\ [Next]_vars => SchedulerInd'
  BY IndNext
<1> QED BY <1>1, <1>2, SplitsAreMeant, PTL DEF Spec

\* The scheduler of a provider's chunks is sound (synthesis/multi_ai.py): types, rate-limited
\* chunks alone, and an ok that rests on calls, for any plan, pool and countdowns.
THEOREM SchedulerIsSound == Spec => []SchedulerInv
<1>1. SchedulerInd => SchedulerInv
  <2> SUFFICES ASSUME SchedulerInd PROVE SchedulerInv
    OBVIOUS
  <2>1. RateLimitedRetriesAlone
    BY DEF SchedulerInd, Pooled, Running, RateLimitedRetriesAlone
  <2> QED BY <2>1 DEF SchedulerInd, SchedulerInv
<1> QED BY <1>1, IndHolds, PTL

\* The provider is called at most as often at once as OES_MULTI_AI_CHUNK_MAX_WORKERS says,
\* twice that where a worker splits its chunk: a pool of its own sends the two halves.
THEOREM CallsAreBounded == Spec => []CallsBounded
<1>1. SchedulerInd => CallsBounded
  <2> SUFFICES ASSUME SchedulerInd PROVE CallsBounded
    OBVIOUS
  <2> DEFINE Calls == {p \in Pieces : at[p] = "calling"}
             wide == \E c \in Chunks : job[c] = "running" /\ split[c]
             width == IF wide THEN Requested ELSE 1
             CallsOf(c) == Active(PiecesOf(c))
  <2>1. TypeOK /\ PiecesRun /\ Pooled /\ Requested \in Nat \ {0} /\ width \in Nat \ {0}
        /\ slots \in Nat
    BY SchedulerAssumption DEF SchedulerInd, TypeOK, Larger
  <2>2. Calls \in SUBSET Pieces /\ IsFiniteSet(Calls) /\ Cardinality(Calls) \in Nat
    BY Finite
  <2>3. /\ Running \in SUBSET Chunks /\ IsFiniteSet(Running) /\ Cardinality(Running) \in Nat
        /\ Cardinality(Running) <= slots
    <3>1. Running \in SUBSET Chunks
      BY DEF Running
    <3>2. IsFiniteSet(Running) /\ Cardinality(Running) \in Nat
      BY <3>1, Finite
    <3> QED BY <2>1, <3>1, <3>2 DEF Pooled
  <2>4. \A p \in Calls : p[1] \in Running /\ p \in CallsOf(p[1])
    BY <2>1, PieceFacts DEF PiecesRun, Running, Active
  <2>5. ASSUME NEW c \in Running
        PROVE  \E f : f \in Injection(CallsOf(c), 1 .. width)
    <3>1. PiecesOf(c) \in SUBSET Pieces /\ CallsOf(c) \in SUBSET Pieces /\ c \in Chunks
      BY <2>3, PiecesOfFacts DEF Active
    <3>2. IsFiniteSet(CallsOf(c)) /\ Cardinality(CallsOf(c)) \in Nat
          /\ Cardinality(PiecesOf(c)) \in Nat
      BY <3>1, Finite
    <3>3. Cardinality(CallsOf(c)) <= WorkerCount(Cardinality(PiecesOf(c)))
      BY <2>1, <3>1 DEF Pooled
    <3>4. WorkerCount(Cardinality(PiecesOf(c))) \in Nat
          /\ WorkerCount(Cardinality(PiecesOf(c))) <= width
      <4>1. CASE wide
        BY <2>1, <3>2, <4>1, WorkersBounded
      <4>2. CASE ~ wide
        <5>1. ~ split[c]
          BY <3>1, <4>2 DEF Running
        <5>2. PiecesOf(c) = {<<c, 0>>}
          BY <3>1, <5>1, PiecesOfFacts
        <5>3. Cardinality(PiecesOf(c)) = 1
          BY <5>2, FS_Singleton
        <5> QED BY <4>2, <5>3 DEF WorkerCount
      <4> QED BY <4>1, <4>2
    <3> DEFINE S == CallsOf(c)
               k == Cardinality(S)
    <3> HIDE DEF S, width, CallsOf
    <3>5. IsFiniteSet(S) /\ k \in Nat /\ k <= width
      BY <2>1, <3>2, <3>3, <3>4 DEF S, k
    <3>6. PICK g : g \in Bijection(1 .. k, S)
      BY <3>5, FS_CardinalityType DEF ExistsBijection
    <3>7. g \in [1 .. k -> S] /\ \A x \in S : \E i \in 1 .. k : g[i] = x
      BY <3>6 DEF Bijection, Surjection
    <3> DEFINE f == [x \in S |-> CHOOSE i \in 1 .. k : g[i] = x]
    <3>8. \A x \in S : f[x] \in 1 .. k /\ g[f[x]] = x
      <4> HIDE DEF k
      <4> QED BY <3>7
    <3>9. \A i \in 1 .. k : i \in 1 .. width
      BY <2>1, <3>5
    <3>10. f \in [S -> 1 .. width]
      BY <3>8, <3>9
    <3>11. f \in Injection(S, 1 .. width)
      <4> HIDE DEF f, k
      <4> QED BY <3>8, <3>10 DEF Injection, IsInjective
    <3> QED BY <3>11 DEF S
  <2> DEFINE slot == [c \in Running |-> CHOOSE f : f \in Injection(CallsOf(c), 1 .. width)]
             Places == Running \X (1 .. width)
             place == [p \in Calls |-> <<p[1], slot[p[1]][p]>>]
  <2>6. \A c \in Running : slot[c] \in Injection(CallsOf(c), 1 .. width)
    <3> HIDE DEF width, CallsOf
    <3> QED BY <2>5
  <2> HIDE DEF slot, width, CallsOf
  <2>7. place \in Injection(Calls, Places)
    <3>1. \A p \in Calls : place[p] \in Places
      BY <2>4, <2>6 DEF Injection
    <3>2. place \in [Calls -> Places]
      BY <3>1
    <3>3. ASSUME NEW p \in Calls, NEW q \in Calls, place[p] = place[q]
          PROVE  p = q
      <4>1. p[1] = q[1] /\ slot[p[1]][p] = slot[q[1]][q]
        BY <3>3
      <4>2. p \in CallsOf(p[1]) /\ q \in CallsOf(p[1]) /\ p[1] \in Running
        BY <2>4, <4>1
      <4> QED BY <2>6, <4>1, <4>2 DEF Injection, IsInjective
    <3> HIDE DEF place, Places, Calls
    <3> QED BY <3>2, <3>3 DEF Injection, IsInjective
  <2>8. IsFiniteSet(1 .. width) /\ Cardinality(1 .. width) = width
    <3>1. 1 \in Int /\ width \in Int /\ ~ (1 > width) /\ width - 1 + 1 = width
      BY <2>1
    <3> QED BY <3>1, FS_Interval, Zenon
  <2>9. IsFiniteSet(Places) /\ Cardinality(Places) = Cardinality(Running) * width
    BY <2>3, <2>8, FS_Product
  <2> HIDE DEF Places, place, Calls
  <2>10. Cardinality(Calls) <= Cardinality(Places)
    BY <2>7, <2>9, FS_Injection
  <2>11. Cardinality(Running) * width <= slots * width
    BY <2>1, <2>3
  <2>12. Cardinality(Running) * width \in Nat /\ slots * width \in Nat
    BY <2>1, <2>3
  <2>13. Cardinality(Calls) <= slots * width
    BY <2>2, <2>9, <2>10, <2>11, <2>12
  <2> QED BY <2>13 DEF CallsBounded, InFlight, Calls, width
<1> QED BY <1>1, IndHolds, PTL

\* Calls start at the pacer's interval and never in a cooldown (_ProviderStartPacer).
THEOREM PacingHolds == Spec => StartsArePaced
<1>1. SchedulerInd /\ [Next]_vars =>
         [\A p \in Pieces : at[p] = "sleeping" /\ at'[p] = "calling"
             => gap = 0 /\ blocked = 0]_vars
  <2> SUFFICES ASSUME SchedulerInd, Next, NEW p \in Pieces, at[p] = "sleeping",
                      at'[p] = "calling"
               PROVE  gap = 0 /\ blocked = 0
    BY DEF vars
  <2>1. TypeOK /\ SleeperPaced /\ PiecesRun
    BY DEF SchedulerInd
  <2>2. nap[p] = 0
    <3>1. ASSUME NEW q \in Pieces, Piece(q) PROVE nap[p] = 0
      <4>1. CASE q = p
        BY <2>1, <3>1, <4>1, Moves DEF Piece, BeginPiece, Acquire, Start, Answer, NoteResult
      <4>2. CASE q # p
        <5>1. at'[p] = at[p]
          BY <2>1, <3>1, <4>2, Moves DEF Piece, BeginPiece, Acquire, Start, Answer, NoteResult
        <5> QED BY <5>1
      <4> QED BY <4>1, <4>2
    <3>2. ASSUME NEW c \in Chunks, BeginJob(c) \/ EndJob(c) PROVE FALSE
      BY <3>2 DEF BeginJob, EndJob
    <3>3. Tick \/ RetryRound \/ Merge \/ Ended => at' = at
      BY DEF Tick, RetryRound, Merge, Ended, vars
    <3> QED BY <3>1, <3>2, <3>3 DEF Next
  <2> QED BY <2>1, <2>2, SchedulerAssumption DEF SleeperPaced, TypeOK
<1> QED BY <1>1, IndHolds, PTL DEF Spec, StartsArePaced

\* Nothing refused by the safety filter and nothing answered is sent again, in retries and
\* splits (_retry_failed_chunk_envelopes).
THEOREM NothingSettledIsSent == Spec => SettledIsNotSentAgain
<1>1. SchedulerInd /\ [Next]_vars =>
         [\A p \in Pieces : at[p] # "calling" /\ at'[p] = "calling"
             => /\ got[p] # "ok"
                /\ \A q \in Overlapping(p) : got[q] # "safety_filter"]_vars
  <2> SUFFICES ASSUME SchedulerInd, Next, NEW p \in Pieces, at[p] # "calling",
                      at'[p] = "calling"
               PROVE  /\ got[p] # "ok"
                      /\ \A q \in Overlapping(p) : got[q] # "safety_filter"
    BY DEF vars
  <2>1. TypeOK /\ PiecesRun /\ AnswersKept /\ RefusedSettles
    BY DEF SchedulerInd
  <2>2. at[p] \in {"queued", "sleeping"} /\ got[p] # "ok"
    <3>1. ASSUME NEW q \in Pieces, Piece(q)
          PROVE  at[p] \in {"queued", "sleeping"} /\ got[p] # "ok"
      <4>1. CASE q = p
        BY <2>1, <3>1, <4>1, Moves DEF Piece, BeginPiece, Acquire, Start, Answer, NoteResult,
           AnswersKept
      <4>2. CASE q # p
        <5>1. at'[p] = at[p]
          BY <2>1, <3>1, <4>2, Moves DEF Piece, BeginPiece, Acquire, Start, Answer, NoteResult
        <5> QED BY <5>1
      <4> QED BY <4>1, <4>2
    <3>2. ASSUME NEW c \in Chunks, BeginJob(c) \/ EndJob(c) PROVE FALSE
      BY <3>2 DEF BeginJob, EndJob
    <3>3. Tick \/ RetryRound \/ Merge \/ Ended => at' = at
      BY DEF Tick, RetryRound, Merge, Ended, vars
    <3> QED BY <3>1, <3>2, <3>3 DEF Next
  <2>3. ASSUME NEW q \in Overlapping(p), got[q] = "safety_filter" PROVE FALSE
    <3>1. q \in Pieces /\ q[1] = p[1] /\ (p[2] = 0 \/ q[2] \in {0, p[2]})
      BY DEF Overlapping
    <3>2. job[p[1]] = "running" /\ p \in PiecesOf(p[1])
      BY <2>1, <2>2 DEF PiecesRun
    <3>3. at[q] \in {"noting", "finished"} /\ q \in PiecesOf(p[1])
      BY <2>1, <2>3, <3>1, <3>2 DEF RefusedSettles, PiecesRun
    <3>4. q[2] = p[2]
      <4>1. p[1] \in Chunks
        BY PieceFacts
      <4>2. CASE split[p[1]]
        <5>1. p[2] # 0 /\ q[2] # 0
          BY <3>2, <3>3, <4>1, <4>2, PiecesOfFacts
        <5> QED BY <3>1, <5>1
      <4>3. CASE ~ split[p[1]]
        BY <3>2, <3>3, <4>1, <4>3, PiecesOfFacts
      <4> QED BY <4>2, <4>3
    <3>5. q = p
      BY <3>1, <3>4, PieceFacts
    <3> QED BY <2>2, <3>3, <3>5
  <2> QED BY <2>2, <2>3
<1> QED BY <1>1, IndHolds, PTL DEF Spec, SettledIsNotSentAgain

-------------------------------------------------------------------------------
(* The states of a loop.                                                     *)

\* A loop of N rounds over states S, and what it computes round by round.
IsLoop(S, first, N, step) ==
    first \in S /\ N \in Nat /\ step \in [S \X (1 .. N) -> S]

Computes(f, S, first, N, step) ==
    /\ f \in [0 .. N -> S]
    /\ f[0] = first
    /\ \A n \in 1 .. N : f[n] = step[<<f[n - 1], n>>]

\* The function of the states of a loop exists.
LEMMA LoopExists ==
  ASSUME NEW S, NEW first, NEW N, NEW step, IsLoop(S, first, N, step)
  PROVE  \E f : Computes(f, S, first, N, step)
<1> USE DEF IsLoop
<1> DEFINE Runs(k, f) == /\ f \in [0 .. k -> S]
                         /\ f[0] = first
                         /\ \A n \in 1 .. k : f[n] = step[<<f[n - 1], n>>]
           T == {k \in Nat : k <= N => \E f : Runs(k, f)}
<1>1. 0 \in T
  <2> DEFINE f == [n \in 0 .. 0 |-> first]
  <2>1. Runs(0, f)
    OBVIOUS
  <2> HIDE DEF Runs
  <2> QED BY <2>1
<1>2. ASSUME NEW k \in Nat, k \in T
      PROVE  k + 1 \in T
  <2> SUFFICES ASSUME k + 1 <= N
               PROVE  \E f : Runs(k + 1, f)
    OBVIOUS
  <2>1. PICK g : Runs(k, g)
    BY <1>2
  <2> DEFINE f == [n \in 0 .. k + 1 |-> IF n <= k THEN g[n] ELSE step[<<g[k], k + 1>>]]
  <2>2. g[k] \in S /\ k + 1 \in 1 .. N
    BY <2>1
  <2>3. step[<<g[k], k + 1>>] \in S
    BY <2>2
  <2>4. f \in [0 .. k + 1 -> S] /\ f[0] = first
    BY <2>1, <2>3
  <2>5. ASSUME NEW n \in 1 .. k + 1
        PROVE  f[n] = step[<<f[n - 1], n>>]
    <3>1. f[n - 1] = g[n - 1]
      OBVIOUS
    <3>2. CASE n <= k
      BY <2>1, <3>1, <3>2
    <3>3. CASE n = k + 1
      BY <3>1, <3>3
    <3> QED BY <3>2, <3>3
  <2>6. Runs(k + 1, f)
    BY <2>4, <2>5
  <2> HIDE DEF Runs
  <2> QED BY <2>6
<1>3. N \in T
  <2> HIDE DEF T
  <2> QED BY <1>1, <1>2, CountingUp
<1> QED BY <1>3 DEF Computes

-------------------------------------------------------------------------------
(* Tokens.                                                                   *)

TokenSums(b, s) ==
    CHOOSE sum : sum = [n \in 0 .. Len(s) |->
                           IF n = 0 THEN 0 ELSE sum[n - 1] + b[s[n]].tokens]

LEMMA TokenSumsDef ==
  ASSUME NEW b, NEW s, Len(s) \in Nat, \A n \in 1 .. Len(s) : b[s[n]].tokens \in Nat
  PROVE  /\ TokenSums(b, s) \in [0 .. Len(s) -> Nat]
         /\ TokenSums(b, s)[0] = 0
         /\ \A n \in 1 .. Len(s) :
               TokenSums(b, s)[n] = TokenSums(b, s)[n - 1] + b[s[n]].tokens
         /\ Tokens(b, s) = TokenSums(b, s)[Len(s)]
<1> DEFINE N == Len(s)
           step == [p \in Nat \X (1 .. N) |-> p[1] + b[s[p[2]]].tokens]
           Sums(f) == f = [n \in 0 .. N |-> IF n = 0 THEN 0 ELSE f[n - 1] + b[s[n]].tokens]
<1>1. step \in [Nat \X (1 .. N) -> Nat]
  OBVIOUS
<1>2. PICK f : Computes(f, Nat, 0, N, step)
  <2>1. IsLoop(Nat, 0, N, step)
    BY <1>1 DEF IsLoop
  <2> QED BY <2>1, LoopExists
<1>3. \A n \in 1 .. N : f[n] = f[n - 1] + b[s[n]].tokens
  <2> SUFFICES ASSUME NEW n \in 1 .. N
               PROVE  f[n] = f[n - 1] + b[s[n]].tokens
    OBVIOUS
  <2>1. f[n - 1] \in Nat
    BY <1>2 DEF Computes
  <2> QED BY <1>2, <2>1 DEF Computes
<1>4. Sums(f)
  BY <1>2, <1>3 DEF Computes
<1>5. Sums(TokenSums(b, s))
  <2>1. TokenSums(b, s) = CHOOSE g : Sums(g)
    BY DEF TokenSums
  <2> HIDE DEF Sums
  <2> QED BY <1>4, <2>1
<1>6. Tokens(b, s) = TokenSums(b, s)[Len(s)]
  BY DEF Tokens, TokenSums
<1> DEFINE g == TokenSums(b, s)
<1>7. g[0] = 0 /\ \A n \in 1 .. N : g[n] = g[n - 1] + b[s[n]].tokens
  <2> HIDE DEF g
  <2>1. Sums(g)
    BY <1>5 DEF g
  <2> QED BY <2>1
<1>8. \A n \in Nat : n \in {k \in Nat : k <= N => g[k] \in Nat}
  <2> DEFINE T == {k \in Nat : k <= N => g[k] \in Nat}
  <2>1. 0 \in T
    BY <1>7
  <2>2. ASSUME NEW k \in Nat, k \in T
        PROVE  k + 1 \in T
    <3> HIDE DEF g
    <3>1. k + 1 <= N => g[k + 1] = g[k] + b[s[k + 1]].tokens
      BY <1>7
    <3> QED BY <2>2, <3>1
  <2> HIDE DEF T
  <2> QED BY <2>1, <2>2, CountingUp DEF T
<1>9. g \in [0 .. N -> Nat]
  <2> HIDE DEF g
  <2>1. g = [n \in 0 .. N |-> g[n]]
    BY <1>5 DEF g
  <2> QED BY <1>8, <2>1
<1> QED BY <1>6, <1>7, <1>9
LEMMA TokensOfItems ==
  ASSUME NEW D, NEW b \in [D -> Items], NEW s \in Seq(D)
  PROVE  Len(s) \in Nat /\ \A n \in 1 .. Len(s) : s[n] \in D /\ b[s[n]].tokens \in Nat
<1>1. Len(s) \in Nat /\ \A n \in 1 .. Len(s) : s[n] \in D
  BY ElementOfSeq, LenProperties
<1>2. ASSUME NEW d \in D
      PROVE  b[d].tokens \in Nat
  BY ChunkPlanAssumption DEF ChunkPlanAssumption, Items
<1> QED BY <1>1, <1>2

LEMMA TokensBySums ==
  ASSUME NEW D, NEW b \in [D -> Items], NEW s \in Seq(D)
  PROVE  /\ TokenSums(b, s) \in [0 .. Len(s) -> Nat]
         /\ TokenSums(b, s)[0] = 0
         /\ \A n \in 1 .. Len(s) :
               TokenSums(b, s)[n] = TokenSums(b, s)[n - 1] + b[s[n]].tokens
         /\ Tokens(b, s) = TokenSums(b, s)[Len(s)]
         /\ Tokens(b, s) \in Nat
<1>1. Len(s) \in Nat /\ \A n \in 1 .. Len(s) : b[s[n]].tokens \in Nat
  BY TokensOfItems
<1> QED BY <1>1, TokenSumsDef

\* What a chunk weighs is what its parts weigh.
LEMMA TokensConcat ==
  ASSUME NEW D, NEW b \in [D -> Items], NEW s \in Seq(D), NEW t \in Seq(D)
  PROVE  Tokens(b, s \o t) = Tokens(b, s) + Tokens(b, t)
<1> DEFINE u == s \o t
           f == TokenSums(b, s)
           g == TokenSums(b, t)
           h == TokenSums(b, u)
<1>1. /\ u \in Seq(D) /\ Len(u) = Len(s) + Len(t) /\ Len(s) \in Nat /\ Len(t) \in Nat
      /\ \A n \in 1 .. Len(s) : u[n] = s[n]
      /\ \A n \in 1 .. Len(t) : u[Len(s) + n] = t[n]
  BY ConcatProperties, LenProperties
<1>2. /\ f \in [0 .. Len(s) -> Nat] /\ f[0] = 0 /\ Tokens(b, s) = f[Len(s)]
      /\ \A n \in 1 .. Len(s) : f[n] = f[n - 1] + b[s[n]].tokens
  BY TokensBySums
<1>3. /\ g \in [0 .. Len(t) -> Nat] /\ g[0] = 0 /\ Tokens(b, t) = g[Len(t)]
      /\ \A n \in 1 .. Len(t) : g[n] = g[n - 1] + b[t[n]].tokens
  BY TokensBySums
<1>4. /\ h \in [0 .. Len(u) -> Nat] /\ h[0] = 0 /\ Tokens(b, u) = h[Len(u)]
      /\ \A n \in 1 .. Len(u) : h[n] = h[n - 1] + b[u[n]].tokens
  <2>1. u \in Seq(D)
    BY <1>1
  <2> HIDE DEF u
  <2> QED BY <2>1, TokensBySums
<1> HIDE DEF f, g, h, u
<1>5. \A n \in Nat : n \in {k \in Nat : k <= Len(s) => h[k] = f[k]}
  <2> DEFINE T == {k \in Nat : k <= Len(s) => h[k] = f[k]}
  <2>1. 0 \in T
    BY <1>2, <1>4
  <2>2. ASSUME NEW k \in Nat, k \in T
        PROVE  k + 1 \in T
    <3> SUFFICES ASSUME k + 1 <= Len(s)
                 PROVE  h[k + 1] = f[k + 1]
      OBVIOUS
    <3>1. k + 1 \in 1 .. Len(s) /\ k + 1 \in 1 .. Len(u) /\ (k + 1) - 1 = k
      BY <1>1
    <3>2. h[k] = f[k] /\ u[k + 1] = s[k + 1]
      BY <1>1, <2>2, <3>1
    <3> QED BY <1>2, <1>4, <3>1, <3>2
  <2> HIDE DEF T
  <2> QED BY <2>1, <2>2, CountingUp DEF T
<1>6. h[Len(s)] = f[Len(s)]
  BY <1>1, <1>5
<1>7. \A n \in Nat : n \in {k \in Nat : k <= Len(t) => h[Len(s) + k] = f[Len(s)] + g[k]}
  <2> DEFINE T == {k \in Nat : k <= Len(t) => h[Len(s) + k] = f[Len(s)] + g[k]}
  <2>1. 0 \in T
    <3>1. f[Len(s)] \in Nat /\ Len(s) + 0 = Len(s)
      BY <1>1, <1>2
    <3> QED BY <1>3, <1>6, <3>1
  <2>2. ASSUME NEW k \in Nat, k \in T
        PROVE  k + 1 \in T
    <3> SUFFICES ASSUME k + 1 <= Len(t)
                 PROVE  h[Len(s) + (k + 1)] = f[Len(s)] + g[k + 1]
      OBVIOUS
    <3>1. /\ k + 1 \in 1 .. Len(t) /\ (k + 1) - 1 = k
          /\ Len(s) + (k + 1) \in 1 .. Len(u) /\ (Len(s) + (k + 1)) - 1 = Len(s) + k
      BY <1>1
    <3>2. h[Len(s) + k] = f[Len(s)] + g[k] /\ u[Len(s) + (k + 1)] = t[k + 1]
      BY <1>1, <2>2, <3>1
    <3>3. h[Len(s) + (k + 1)] = h[Len(s) + k] + b[t[k + 1]].tokens
      BY <1>4, <3>1, <3>2
    <3>4. g[k + 1] = g[k] + b[t[k + 1]].tokens
      BY <1>3, <3>1
    <3>5. f[Len(s)] \in Nat /\ g[k] \in Nat /\ b[t[k + 1]].tokens \in Nat
      <4>1. k \in 0 .. Len(t) /\ Len(s) \in 0 .. Len(s)
        BY <1>1, <3>1
      <4>2. b[t[k + 1]].tokens \in Nat
        BY <3>1, TokensOfItems
      <4> QED BY <1>2, <1>3, <4>1, <4>2
    <3> QED BY <3>2, <3>3, <3>4, <3>5
  <2> HIDE DEF T
  <2> QED BY <2>1, <2>2, CountingUp DEF T
<1>8. h[Len(u)] = f[Len(s)] + g[Len(t)]
  BY <1>1, <1>7
<1> QED BY <1>2, <1>3, <1>4, <1>8 DEF u

LEMMA TokensEmpty ==
  ASSUME NEW D, NEW b \in [D -> Items]
  PROVE  Tokens(b, <<>>) = 0
<1>1. <<>> \in Seq(D) /\ Len(<<>>) = 0
  BY EmptySeq
<1> QED BY <1>1, TokensBySums

-------------------------------------------------------------------------------
(* Chunks: what they cover and that they do not overlap.                     *)

LEMMA AppendFacts ==
  ASSUME NEW S, NEW s \in Seq(S), NEW x \in S
  PROVE  /\ Append(s, x) \in Seq(S) /\ Len(Append(s, x)) = Len(s) + 1 /\ Len(s) \in Nat
         /\ DOMAIN s = 1 .. Len(s) /\ DOMAIN Append(s, x) = 1 .. Len(s) + 1
         /\ \A n \in 1 .. Len(s) : Append(s, x)[n] = s[n] /\ s[n] \in S
         /\ Append(s, x)[Len(s) + 1] = x
BY AppendProperties, LenProperties, ElementOfSeq

LEMMA FunctionIsSeq ==
  ASSUME NEW S, NEW n \in Nat, NEW f \in [1 .. n -> S]
  PROVE  f \in Seq(S) /\ Len(f) = n
<1>1. f \in Seq(S)
  BY SeqDef
<1>2. DOMAIN f = 1 .. n
  OBVIOUS
<1> QED BY <1>1, <1>2, LenProperties

LEMMA ConcatFacts ==
  ASSUME NEW S, NEW s \in Seq(S), NEW t \in Seq(S)
  PROVE  /\ s \o t \in Seq(S) /\ Len(s \o t) = Len(s) + Len(t)
         /\ Len(s) \in Nat /\ Len(t) \in Nat
         /\ DOMAIN s = 1 .. Len(s) /\ DOMAIN t = 1 .. Len(t)
         /\ DOMAIN (s \o t) = 1 .. Len(s) + Len(t)
         /\ \A n \in 1 .. Len(s) : (s \o t)[n] = s[n] /\ s[n] \in S
         /\ \A n \in 1 .. Len(t) : (s \o t)[Len(s) + n] = t[n] /\ t[n] \in S
BY ConcatProperties, LenProperties, ElementOfSeq

LEMMA RangeConcat ==
  ASSUME NEW S, NEW s \in Seq(S), NEW t \in Seq(S)
  PROVE  Range(s \o t) = Range(s) \cup Range(t)
<1> DEFINE u == s \o t
<1>1. /\ Len(s) \in Nat /\ Len(t) \in Nat
      /\ DOMAIN s = 1 .. Len(s) /\ DOMAIN t = 1 .. Len(t) /\ DOMAIN u = 1 .. Len(s) + Len(t)
      /\ \A n \in 1 .. Len(s) : u[n] = s[n]
      /\ \A n \in 1 .. Len(t) : u[Len(s) + n] = t[n]
  BY ConcatFacts
<1> HIDE DEF u
<1>2. ASSUME NEW n \in DOMAIN u
      PROVE  u[n] \in Range(s) \cup Range(t)
  <2>1. CASE n <= Len(s)
    <3>1. n \in DOMAIN s /\ u[n] = s[n]
      BY <1>1, <2>1
    <3> QED BY <3>1 DEF Range
  <2>2. CASE ~ (n <= Len(s))
    <3>1. n - Len(s) \in DOMAIN t /\ Len(s) + (n - Len(s)) = n
      BY <1>1, <2>2
    <3>2. u[n] = t[n - Len(s)]
      BY <1>1, <3>1
    <3> QED BY <3>1, <3>2 DEF Range
  <2> QED BY <2>1, <2>2
<1>3. ASSUME NEW n \in DOMAIN s
      PROVE  s[n] \in Range(u)
  <2>1. n \in DOMAIN u /\ u[n] = s[n]
    BY <1>1
  <2> QED BY <2>1 DEF Range
<1>4. ASSUME NEW n \in DOMAIN t
      PROVE  t[n] \in Range(u)
  <2>1. Len(s) + n \in DOMAIN u /\ u[Len(s) + n] = t[n]
    BY <1>1
  <2> QED BY <2>1 DEF Range
<1>5. Range(u) = Range(s) \cup Range(t)
  BY <1>2, <1>3, <1>4 DEF Range
<1> QED BY <1>5 DEF u

\* Apart, and then together, without an item twice.
LEMMA InjectiveConcat ==
  ASSUME NEW S, NEW s \in Seq(S), NEW t \in Seq(S),
         IsInjective(s), IsInjective(t), Range(s) \cap Range(t) = {}
  PROVE  IsInjective(s \o t)
<1> DEFINE u == s \o t
<1>1. /\ Len(s) \in Nat /\ Len(t) \in Nat
      /\ DOMAIN s = 1 .. Len(s) /\ DOMAIN t = 1 .. Len(t) /\ DOMAIN u = 1 .. Len(s) + Len(t)
      /\ \A n \in 1 .. Len(s) : u[n] = s[n]
      /\ \A n \in 1 .. Len(t) : u[Len(s) + n] = t[n]
  BY ConcatFacts
<1> HIDE DEF u
<1>2. ASSUME NEW n \in DOMAIN u
      PROVE  \/ n \in DOMAIN s /\ u[n] = s[n] /\ u[n] \in Range(s)
             \/ n - Len(s) \in DOMAIN t /\ u[n] = t[n - Len(s)] /\ u[n] \in Range(t)
  <2>1. CASE n <= Len(s)
    <3>1. n \in DOMAIN s /\ u[n] = s[n]
      BY <1>1, <2>1
    <3> QED BY <3>1 DEF Range
  <2>2. CASE ~ (n <= Len(s))
    <3>1. n - Len(s) \in DOMAIN t /\ Len(s) + (n - Len(s)) = n
      BY <1>1, <2>2
    <3>2. u[n] = t[n - Len(s)]
      BY <1>1, <3>1
    <3> QED BY <3>1, <3>2 DEF Range
  <2> QED BY <2>1, <2>2
<1>3. ASSUME NEW m \in DOMAIN u, NEW n \in DOMAIN u, u[m] = u[n]
      PROVE  m = n
  <2>1. CASE m \in DOMAIN s /\ u[m] = s[m] /\ u[m] \in Range(s)
    <3>1. n \in DOMAIN s /\ u[n] = s[n]
      BY <1>2, <1>3, <2>1
    <3> QED BY <1>3, <2>1, <3>1 DEF IsInjective
  <2>2. CASE m - Len(s) \in DOMAIN t /\ u[m] = t[m - Len(s)] /\ u[m] \in Range(t)
    <3>1. n - Len(s) \in DOMAIN t /\ u[n] = t[n - Len(s)]
      BY <1>2, <1>3, <2>2
    <3>2. m - Len(s) = n - Len(s)
      BY <1>3, <2>2, <3>1 DEF IsInjective
    <3> QED BY <1>1, <3>2
  <2> QED BY <1>2, <2>1, <2>2
<1> QED BY <1>3 DEF u, IsInjective

LEMMA CoveredAppend ==
  ASSUME NEW D, NEW cs \in Seq(Seq(D)), NEW c \in Seq(D)
  PROVE  Covered(Append(cs, c)) = Covered(cs) \cup Range(c)
<1> DEFINE all == Append(cs, c)
<1>1. /\ Len(cs) \in Nat /\ DOMAIN cs = 1 .. Len(cs) /\ DOMAIN all = 1 .. Len(cs) + 1
      /\ \A n \in 1 .. Len(cs) : all[n] = cs[n]
      /\ all[Len(cs) + 1] = c
  BY AppendFacts
<1> HIDE DEF all
<1>2. \A n \in DOMAIN all : n \in DOMAIN cs \/ n = Len(cs) + 1
  BY <1>1
<1>3. \A n \in DOMAIN cs : n \in DOMAIN all /\ all[n] = cs[n]
  BY <1>1
<1>4. Len(cs) + 1 \in DOMAIN all
  BY <1>1
<1>5. ASSUME NEW x
      PROVE  x \in Covered(all) <=> x \in Covered(cs) \cup Range(c)
  <2>1. x \in Covered(all) <=> \E n \in DOMAIN all : x \in Range(all[n])
    BY DEF Covered
  <2>2. x \in Covered(cs) <=> \E n \in DOMAIN cs : x \in Range(cs[n])
    BY DEF Covered
  <2> QED BY <1>1, <1>2, <1>3, <1>4, <2>1, <2>2
<1> QED BY <1>5 DEF all

\* One more chunk overlaps none exactly if it is new and has no item twice.
LEMMA SeparateAppend ==
  ASSUME NEW D, NEW cs \in Seq(Seq(D)), NEW c \in Seq(D)
  PROVE  Separate(Append(cs, c)) <=>
            Separate(cs) /\ IsInjective(c) /\ Covered(cs) \cap Range(c) = {}
<1> DEFINE all == Append(cs, c)
           last == Len(cs) + 1
<1>1. /\ Len(cs) \in Nat /\ DOMAIN cs = 1 .. Len(cs) /\ DOMAIN all = 1 .. last
      /\ \A n \in 1 .. Len(cs) : all[n] = cs[n]
      /\ all[last] = c
  BY AppendFacts
<1> HIDE DEF all
<1>2. /\ \A n \in DOMAIN all : n \in DOMAIN cs \/ n = last
      /\ \A n \in DOMAIN cs : n \in DOMAIN all /\ all[n] = cs[n] /\ n # last
      /\ last \in DOMAIN all
  BY <1>1
<1> HIDE DEF last
<1>3. ASSUME Separate(all)
      PROVE  Separate(cs) /\ IsInjective(c) /\ Covered(cs) \cap Range(c) = {}
  <2>1. Separate(cs)
    BY <1>2, <1>3 DEF Separate
  <2>2. IsInjective(c)
    BY <1>1, <1>2, <1>3 DEF Separate, IsInjective
  <2>3. ASSUME NEW x, x \in Covered(cs), x \in Range(c)
        PROVE  FALSE
    <3>1. PICK n \in DOMAIN cs : \E i \in DOMAIN cs[n] : x = cs[n][i]
      BY <2>3 DEF Covered, Range
    <3>2. PICK j \in DOMAIN c : x = c[j]
      BY <2>3 DEF Range
    <3>3. /\ n \in DOMAIN all /\ all[n] = cs[n] /\ n # last
          /\ last \in DOMAIN all /\ all[last] = c
      BY <1>1, <1>2
    <3>4. PICK i \in DOMAIN cs[n] : x = cs[n][i]
      BY <3>1
    <3>5. i \in DOMAIN all[n] /\ j \in DOMAIN all[last] /\ all[n][i] = all[last][j]
      BY <3>2, <3>3, <3>4
    <3>6. n = last
      BY <1>3, <3>3, <3>5 DEF Separate
    <3> QED BY <3>3, <3>6
  <2> QED BY <2>1, <2>2, <2>3
<1>4. ASSUME Separate(cs), IsInjective(c), Covered(cs) \cap Range(c) = {}
      PROVE  Separate(all)
  <2> SUFFICES ASSUME NEW m \in DOMAIN all, NEW n \in DOMAIN all,
                      NEW i \in DOMAIN all[m], NEW j \in DOMAIN all[n],
                      all[m][i] = all[n][j]
               PROVE  m = n /\ i = j
    BY DEF Separate
  <2>1. ASSUME NEW k \in DOMAIN cs, NEW h \in DOMAIN cs[k]
        PROVE  cs[k][h] \in Covered(cs)
    BY DEF Covered, Range
  <2>2. \A h \in DOMAIN c : c[h] \in Range(c)
    BY DEF Range
  <2>3. CASE m \in DOMAIN cs /\ n \in DOMAIN cs
    BY <1>2, <1>4, <2>3 DEF Separate
  <2>4. CASE m = last /\ n = last
    BY <1>1, <1>4, <2>4 DEF IsInjective
  <2>5. CASE m \in DOMAIN cs /\ n = last
    BY <1>1, <1>2, <1>4, <2>1, <2>2, <2>5
  <2>6. CASE m = last /\ n \in DOMAIN cs
    BY <1>1, <1>2, <1>4, <2>1, <2>2, <2>6
  <2> QED BY <1>2, <2>3, <2>4, <2>5, <2>6
<1> QED BY <1>3, <1>4 DEF all

-------------------------------------------------------------------------------
(* The packing loop.                                                         *)

LEMMA FitsLess ==
  ASSUME NEW D, NEW b \in [D -> Items], NEW size \in Nat, NEW budget \in Nat,
         NEW c \in Seq(D), NEW p \in Seq(D), NEW q \in Seq(D),
         Fits(b, c, p \o q, size, budget)
  PROVE  Fits(b, c, p, size, budget)
<1>1. Len(p \o q) = Len(p) + Len(q) /\ Len(c) \in Nat /\ Len(p) \in Nat /\ Len(q) \in Nat
  BY ConcatFacts, LenProperties
<1>2. Tokens(b, p \o q) = Tokens(b, p) + Tokens(b, q)
  BY TokensConcat
<1>3. Tokens(b, c) \in Nat /\ Tokens(b, p) \in Nat /\ Tokens(b, q) \in Nat
  BY TokensBySums
<1>4. Overhead \in Nat
  BY ChunkPlanAssumption DEF ChunkPlanAssumption
<1> QED BY <1>1, <1>2, <1>3, <1>4 DEF Fits

LEMMA FitsWithin ==
  ASSUME NEW D, NEW b \in [D -> Items], NEW size \in Nat, NEW budget \in Nat,
         NEW c \in Seq(D), NEW p \in Seq(D), Fits(b, c, p, size, budget)
  PROVE  Within(b, c \o p, size, budget)
<1>1. Len(c \o p) = Len(c) + Len(p) /\ Len(c) \in Nat /\ Len(p) \in Nat
  BY ConcatFacts
<1>2. Tokens(b, c \o p) = Tokens(b, c) + Tokens(b, p)
  BY TokensConcat
<1>3. Tokens(b, c) \in Nat /\ Tokens(b, p) \in Nat
  BY TokensBySums
<1>4. Overhead \in Nat
  BY ChunkPlanAssumption DEF ChunkPlanAssumption
<1> QED BY <1>1, <1>2, <1>3, <1>4 DEF Fits, Within

\* Chunks as a pass must make them: not empty, within the limits, none twice, and no
\* two neighbours that fit together.
Packed(b, cs, size, budget) ==
    /\ \A n \in DOMAIN cs : cs[n] # <<>> /\ Within(b, cs[n], size, budget)
    /\ \A n \in 1 .. Len(cs) - 1 : ~ Fits(b, cs[n], cs[n + 1], size, budget)
    /\ Separate(cs)

LEMMA PackedAppend ==
  ASSUME NEW D, NEW b \in [D -> Items], NEW size \in Nat, NEW budget \in Nat,
         NEW cs \in Seq(Seq(D)), NEW c \in Seq(D)
  PROVE  Packed(b, Append(cs, c), size, budget) <=>
            /\ Packed(b, cs, size, budget)
            /\ c # <<>> /\ Within(b, c, size, budget)
            /\ Len(cs) > 0 => ~ Fits(b, cs[Len(cs)], c, size, budget)
            /\ IsInjective(c) /\ Covered(cs) \cap Range(c) = {}
<1> DEFINE all == Append(cs, c)
           Apart(s) == \A n \in 1 .. Len(s) - 1 : ~ Fits(b, s[n], s[n + 1], size, budget)
           Sound(s) == s # <<>> /\ Within(b, s, size, budget)
<1>1. /\ Len(cs) \in Nat /\ Len(all) = Len(cs) + 1
      /\ DOMAIN cs = 1 .. Len(cs) /\ DOMAIN all = 1 .. Len(cs) + 1
      /\ \A n \in 1 .. Len(cs) : all[n] = cs[n]
      /\ all[Len(cs) + 1] = c
  BY AppendFacts
<1>2. Separate(all) <=> Separate(cs) /\ IsInjective(c) /\ Covered(cs) \cap Range(c) = {}
  BY SeparateAppend
<1> HIDE DEF all
<1>3. (\A n \in DOMAIN all : Sound(all[n])) <=>
         (\A n \in DOMAIN cs : Sound(cs[n])) /\ Sound(c)
  <2>1. \A n \in DOMAIN all : n \in DOMAIN cs \/ n = Len(cs) + 1
    BY <1>1
  <2>2. \A n \in DOMAIN cs : n \in DOMAIN all /\ all[n] = cs[n]
    BY <1>1
  <2>3. Len(cs) + 1 \in DOMAIN all
    BY <1>1
  <2> HIDE DEF Sound
  <2> QED BY <1>1, <2>1, <2>2, <2>3
<1>4. Apart(all) <=> Apart(cs) /\ (Len(cs) > 0 => ~ Fits(b, cs[Len(cs)], c, size, budget))
  <2>1. ASSUME NEW n \in 1 .. Len(all) - 1
        PROVE  n \in 1 .. Len(cs) - 1 \/ (n = Len(cs) /\ Len(cs) > 0)
    <3>1. Len(all) - 1 = Len(cs) /\ Len(cs) \in Nat
      BY <1>1
    <3>2. n \in Nat /\ 1 <= n /\ n <= Len(cs)
      BY <3>1
    <3> QED BY <3>1, <3>2
  <2>2. \A n \in 1 .. Len(cs) - 1 :
           n \in 1 .. Len(all) - 1 /\ all[n] = cs[n] /\ all[n + 1] = cs[n + 1]
    BY <1>1
  <2>3. Len(cs) > 0 => Len(cs) \in 1 .. Len(all) - 1 /\ all[Len(cs)] = cs[Len(cs)]
                       /\ all[Len(cs) + 1] = c
    BY <1>1
  <2> QED BY <2>1, <2>2, <2>3
<1>5. Packed(b, all, size, budget) <=>
         (\A n \in DOMAIN all : Sound(all[n])) /\ Apart(all) /\ Separate(all)
  BY DEF Packed
<1>6. Packed(b, cs, size, budget) <=>
         (\A n \in DOMAIN cs : Sound(cs[n])) /\ Apart(cs) /\ Separate(cs)
  BY DEF Packed
<1> HIDE DEF Apart
<1> QED BY <1>2, <1>3, <1>4, <1>5, <1>6 DEF all

LEMMA PackedEmpty ==
  ASSUME NEW b, NEW size, NEW budget
  PROVE  Packed(b, <<>>, size, budget) /\ Covered(<<>>) = {}
<1>1. DOMAIN <<>> = {} /\ Len(<<>>) = 0 /\ 1 .. 0 - 1 = {}
  OBVIOUS
<1> QED BY <1>1 DEF Packed, Covered, Separate

Filled(D) == [closed : Seq(Seq(D)), current : Seq(D)]

LEMMA AddPartType ==
  ASSUME NEW D, NEW b, NEW size, NEW budget, NEW filled \in Filled(D), NEW p \in Seq(D)
  PROVE  AddPart(b, filled, p, size, budget) \in Filled(D)
<1>1. filled.closed \in Seq(Seq(D)) /\ filled.current \in Seq(D)
  BY DEF Filled
<1>2. filled.current \o p \in Seq(D) /\ Append(filled.closed, filled.current) \in Seq(Seq(D))
  BY <1>1, ConcatProperties, AppendProperties
<1>3. [filled EXCEPT !.current = @ \o p] \in Filled(D)
  BY <1>1, <1>2 DEF Filled
<1>4. [closed |-> Append(filled.closed, filled.current), current |-> p] \in Filled(D)
  BY <1>2 DEF Filled
<1> QED BY <1>3, <1>4 DEF AddPart

\* One round of the loop.
LEMMA AddPartPacks ==
  ASSUME NEW D, NEW b \in [D -> Items], NEW size \in Nat, NEW budget \in Nat,
         NEW filled \in Filled(D), filled.current # <<>>,
         Packed(b, Append(filled.closed, filled.current), size, budget),
         NEW p \in Seq(D), p # <<>>, Within(b, p, size, budget), IsInjective(p),
         Covered(Append(filled.closed, filled.current)) \cap Range(p) = {},
         NEW next, next = AddPart(b, filled, p, size, budget)
  PROVE  /\ next.current # <<>>
         /\ Packed(b, Append(next.closed, next.current), size, budget)
         /\ Covered(Append(next.closed, next.current)) =
               Covered(Append(filled.closed, filled.current)) \cup Range(p)
<1> DEFINE cl == filled.closed
           c == filled.current
           cs == Append(cl, c)
<1>1. cl \in Seq(Seq(D)) /\ c \in Seq(D) /\ cs \in Seq(Seq(D))
  BY AppendProperties DEF Filled
<1>2. Covered(cs) = Covered(cl) \cup Range(c)
  BY <1>1, CoveredAppend
<1>3. CASE Fits(b, c, p, size, budget)
  <2>1. next.closed = cl /\ next.current = c \o p
    BY <1>3 DEF AddPart, Filled
  <2>2. /\ Packed(b, cl, size, budget)
        /\ Len(cl) > 0 => ~ Fits(b, cl[Len(cl)], c, size, budget)
        /\ IsInjective(c) /\ Covered(cl) \cap Range(c) = {}
    BY <1>1, PackedAppend
  <2>3. c \o p \in Seq(D) /\ Range(c \o p) = Range(c) \cup Range(p)
    BY <1>1, ConcatFacts, RangeConcat
  <2>4. c \o p # <<>>
    BY <1>1, ConcatEqualIffEmpty
  <2>5. Within(b, c \o p, size, budget)
    BY <1>1, <1>3, FitsWithin
  <2>6. IsInjective(c \o p)
    <3>1. Range(c) \cap Range(p) = {}
      BY <1>2
    <3> HIDE DEF c
    <3> QED BY <1>1, <2>2, <3>1, InjectiveConcat
  <2>7. Covered(cl) \cap Range(c \o p) = {}
    BY <1>2, <2>2, <2>3
  <2>8. ASSUME Len(cl) > 0
        PROVE  ~ Fits(b, cl[Len(cl)], c \o p, size, budget)
    <3>1. cl[Len(cl)] \in Seq(D)
      BY <1>1, <2>8, ElementOfSeq, LenProperties
    <3> QED BY <1>1, <2>2, <2>8, <3>1, FitsLess
  <2>9. Packed(b, Append(cl, c \o p), size, budget)
    <3> DEFINE u == c \o p
    <3>1. /\ u \in Seq(D) /\ u # <<>> /\ Within(b, u, size, budget) /\ IsInjective(u)
          /\ Covered(cl) \cap Range(u) = {}
          /\ Len(cl) > 0 => ~ Fits(b, cl[Len(cl)], u, size, budget)
      BY <2>3, <2>4, <2>5, <2>6, <2>7, <2>8
    <3> HIDE DEF u, cl
    <3>2. Packed(b, Append(cl, u), size, budget)
      BY <1>1, <2>2, <3>1, PackedAppend
    <3> QED BY <3>2 DEF u
  <2>10. Covered(Append(cl, c \o p)) = Covered(cl) \cup Range(c \o p)
    BY <1>1, <2>3, CoveredAppend
  <2> QED BY <1>2, <2>1, <2>3, <2>4, <2>9, <2>10
<1>4. CASE ~ Fits(b, c, p, size, budget)
  <2>1. next.closed = cs /\ next.current = p
    BY <1>4 DEF AddPart, Filled
  <2>2. Len(cs) > 0 /\ cs[Len(cs)] = c
    BY <1>1, AppendFacts
  <2>3. Packed(b, Append(cs, p), size, budget)
    <3>1. Packed(b, cs, size, budget) /\ Covered(cs) \cap Range(p) = {}
      OBVIOUS
    <3>2. Len(cs) > 0 => ~ Fits(b, cs[Len(cs)], p, size, budget)
      BY <1>4, <2>2
    <3> HIDE DEF cs, c
    <3> QED BY <1>1, <3>1, <3>2, PackedAppend
  <2>4. Covered(Append(cs, p)) = Covered(cs) \cup Range(p)
    BY <1>1, CoveredAppend
  <2> QED BY <2>1, <2>3, <2>4
<1> QED BY <1>3, <1>4

\* The first round.
LEMMA AddFirstPart ==
  ASSUME NEW D, NEW b \in [D -> Items], NEW size \in Nat, NEW budget \in Nat,
         NEW p \in Seq(D), p # <<>>, Within(b, p, size, budget), IsInjective(p),
         NEW next,
         next = AddPart(b, [closed |-> <<>>, current |-> <<>>], p, size, budget)
  PROVE  /\ next.current # <<>>
         /\ Packed(b, Append(next.closed, next.current), size, budget)
         /\ Covered(Append(next.closed, next.current)) = Range(p)
<1>1. <<>> \o p = p
  BY ConcatEmptySeq
<1>2. next.closed = <<>> /\ next.current = p
  BY <1>1 DEF AddPart
<1>3. <<>> \in Seq(Seq(D)) /\ Len(<<>>) = 0
  BY EmptySeq
<1>4. Packed(b, <<>>, size, budget) /\ Covered(<<>>) = {}
  BY PackedEmpty
<1> DEFINE e == <<>>
<1> HIDE DEF e
<1>5. Packed(b, Append(e, p), size, budget)
  <2>1. e \in Seq(Seq(D)) /\ Len(e) = 0
    BY <1>3 DEF e
  <2>2. Packed(b, e, size, budget) /\ Covered(e) = {}
    BY <1>4 DEF e
  <2>3. Covered(e) \cap Range(p) = {} /\ ~ (Len(e) > 0)
    BY <2>1, <2>2
  <2> QED BY <2>1, <2>2, <2>3, PackedAppend
<1>6. Covered(Append(e, p)) = Range(p)
  <2>1. e \in Seq(Seq(D)) /\ Covered(e) = {}
    BY <1>3, <1>4 DEF e
  <2>2. Covered(Append(e, p)) = Covered(e) \cup Range(p)
    BY <2>1, CoveredAppend
  <2> QED BY <2>1, <2>2
<1> QED BY <1>2, <1>5, <1>6 DEF e

\* What the loop has read.
Read(parts, n) == UNION {Range(parts[i]) : i \in 1 .. n}

LEMMA ReadNext ==
  ASSUME NEW S, NEW parts \in Seq(S), NEW n \in Nat, n + 1 <= Len(parts)
  PROVE  /\ Read(parts, n + 1) = Read(parts, n) \cup Range(parts[n + 1])
         /\ Separate(parts) => /\ IsInjective(parts[n + 1])
                               /\ Read(parts, n) \cap Range(parts[n + 1]) = {}
<1>1. DOMAIN parts = 1 .. Len(parts) /\ Len(parts) \in Nat
  BY LenProperties
<1>2. n + 1 \in DOMAIN parts /\ \A i \in 1 .. n : i \in DOMAIN parts /\ i # n + 1
  BY <1>1
<1>3. \A i : i \in 1 .. n + 1 <=> i \in 1 .. n \/ i = n + 1
  OBVIOUS
<1>4. ASSUME NEW x
      PROVE  x \in Read(parts, n + 1) <=> x \in Read(parts, n) \cup Range(parts[n + 1])
  <2>1. x \in Read(parts, n) <=> \E i \in 1 .. n : x \in Range(parts[i])
    BY DEF Read
  <2>2. x \in Read(parts, n + 1) <=> \E i \in 1 .. n + 1 : x \in Range(parts[i])
    BY DEF Read
  <2> QED BY <1>3, <2>1, <2>2
<1>5. Separate(parts) => IsInjective(parts[n + 1])
  BY <1>2 DEF Separate, IsInjective
<1>6. ASSUME Separate(parts), NEW x, x \in Read(parts, n), x \in Range(parts[n + 1])
      PROVE  FALSE
  <2>1. PICK i \in 1 .. n : x \in Range(parts[i])
    BY <1>6 DEF Read
  <2>2. PICK k \in DOMAIN parts[i] : x = parts[i][k]
    BY <2>1 DEF Range
  <2>3. PICK h \in DOMAIN parts[n + 1] : x = parts[n + 1][h]
    BY <1>6 DEF Range
  <2>4. i = n + 1
    BY <1>2, <1>6, <2>2, <2>3 DEF Separate
  <2> QED BY <1>2, <2>4
<1> QED BY <1>4, <1>5, <1>6

LEMMA ReadAll ==
  ASSUME NEW S, NEW parts \in Seq(S)
  PROVE  Read(parts, Len(parts)) = Covered(parts)
<1>1. DOMAIN parts = 1 .. Len(parts)
  BY LenProperties
<1> QED BY <1>1 DEF Read, Covered

GreedyRounds(b, parts, size, budget) ==
    CHOOSE filled :
        filled = [n \in 0 .. Len(parts) |->
                     IF n = 0 THEN [closed |-> <<>>, current |-> <<>>]
                              ELSE AddPart(b, filled[n - 1], parts[n], size, budget)]

LEMMA GreedyRoundsDef ==
  ASSUME NEW D, NEW b, NEW size, NEW budget, NEW parts \in Seq(Seq(D)),
         NEW filled, filled = GreedyRounds(b, parts, size, budget)
  PROVE  /\ filled \in [0 .. Len(parts) -> Filled(D)]
         /\ filled[0] = [closed |-> <<>>, current |-> <<>>]
         /\ \A n \in 1 .. Len(parts) :
               filled[n] = AddPart(b, filled[n - 1], parts[n], size, budget)
         /\ Greedy(b, parts, size, budget) = Close(filled[Len(parts)])
<1> DEFINE N == Len(parts)
           first == [closed |-> <<>>, current |-> <<>>]
           step == [p \in Filled(D) \X (1 .. N) |->
                       AddPart(b, p[1], parts[p[2]], size, budget)]
           Unfolds(f) == f = [n \in 0 .. N |->
                                IF n = 0 THEN first
                                         ELSE AddPart(b, f[n - 1], parts[n], size, budget)]
<1>1. N \in Nat /\ \A n \in 1 .. N : parts[n] \in Seq(D)
  BY ElementOfSeq, LenProperties
<1>2. IsLoop(Filled(D), first, N, step)
  <2>1. first \in Filled(D)
    BY EmptySeq DEF Filled
  <2>2. step \in [Filled(D) \X (1 .. N) -> Filled(D)]
    <3> SUFFICES ASSUME NEW p \in Filled(D) \X (1 .. N)
                 PROVE  AddPart(b, p[1], parts[p[2]], size, budget) \in Filled(D)
      OBVIOUS
    <3>1. p[1] \in Filled(D) /\ parts[p[2]] \in Seq(D)
      BY <1>1
    <3> QED BY <3>1, AddPartType
  <2> QED BY <1>1, <2>1, <2>2 DEF IsLoop
<1>3. PICK f : Computes(f, Filled(D), first, N, step)
  <2> HIDE DEF step, first
  <2> QED BY <1>2, LoopExists
<1>4. /\ f \in [0 .. N -> Filled(D)] /\ f[0] = first
      /\ \A n \in 1 .. N : f[n] = AddPart(b, f[n - 1], parts[n], size, budget)
  <2>1. /\ f \in [0 .. N -> Filled(D)] /\ f[0] = first
        /\ \A n \in 1 .. N : f[n] = step[<<f[n - 1], n>>]
    BY <1>3 DEF Computes
  <2>2. ASSUME NEW n \in 1 .. N
        PROVE  f[n] = AddPart(b, f[n - 1], parts[n], size, budget)
    <3>1. n - 1 \in 0 .. N
      BY <1>1
    <3>2. f[n - 1] \in Filled(D) /\ f[n] = step[<<f[n - 1], n>>]
      <4> HIDE DEF step, first, N
      <4> QED BY <2>1, <3>1
    <3> QED BY <3>2
  <2> HIDE DEF step, first
  <2> QED BY <2>1, <2>2
<1> DEFINE g == GreedyRounds(b, parts, size, budget)
<1>5. Unfolds(g)
  <2>1. Unfolds(f)
    <3> HIDE DEF first, step
    <3> QED BY <1>4
  <2>2. g = CHOOSE h : Unfolds(h)
    BY DEF GreedyRounds
  <2> HIDE DEF Unfolds, g
  <2> QED BY <2>1, <2>2
<1>6. Greedy(b, parts, size, budget) = Close(g[Len(parts)])
  BY DEF Greedy, GreedyRounds
<1>7. g[0] = first /\ \A n \in 1 .. N : g[n] = AddPart(b, g[n - 1], parts[n], size, budget)
  <2> HIDE DEF g, first
  <2> QED BY <1>1, <1>5
<1>8. \A n \in Nat : n \in {k \in Nat : k <= N => g[k] \in Filled(D)}
  <2> DEFINE T == {k \in Nat : k <= N => g[k] \in Filled(D)}
  <2>1. 0 \in T
    BY <1>2, <1>7 DEF IsLoop
  <2>2. ASSUME NEW k \in Nat, k \in T
        PROVE  k + 1 \in T
    <3> SUFFICES ASSUME k + 1 <= N
                 PROVE  g[k + 1] \in Filled(D)
      OBVIOUS
    <3> HIDE DEF g, N
    <3>1. k + 1 \in 1 .. N /\ (k + 1) - 1 = k /\ g[k] \in Filled(D)
      BY <1>1, <2>2
    <3>2. g[k + 1] = AddPart(b, g[k], parts[k + 1], size, budget) /\ parts[k + 1] \in Seq(D)
      BY <1>1, <1>7, <3>1
    <3> QED BY <3>1, <3>2, AddPartType
  <2> HIDE DEF T
  <2> QED BY <2>1, <2>2, CountingUp DEF T
<1>9. g \in [0 .. N -> Filled(D)]
  <2> HIDE DEF g, first
  <2> QED BY <1>5, <1>8
<1> QED BY <1>6, <1>7, <1>9

SoundParts(D, b, parts, size, budget) ==
    /\ parts \in Seq(Seq(D))
    /\ \A n \in DOMAIN parts : parts[n] # <<>> /\ Within(b, parts[n], size, budget)
    /\ Separate(parts)

PacksParts(D, b, made, parts, size, budget) ==
    /\ made \in Seq(Seq(D))
    /\ Packed(b, made, size, budget)
    /\ Covered(made) = Covered(parts)

\* The parts, each of them sound, become chunks that are sound and cover the same items.
LEMMA GreedyPacks ==
  ASSUME NEW D, NEW b \in [D -> Items], NEW size \in Nat, NEW budget \in Nat,
         NEW parts, SoundParts(D, b, parts, size, budget),
         NEW made, made = Greedy(b, parts, size, budget)
  PROVE  PacksParts(D, b, made, parts, size, budget)
<1>0. /\ parts \in Seq(Seq(D)) /\ Separate(parts)
      /\ \A n \in DOMAIN parts : parts[n] # <<>> /\ Within(b, parts[n], size, budget)
  BY DEF SoundParts
<1> DEFINE g == GreedyRounds(b, parts, size, budget)
           N == Len(parts)
           All(n) == Append(g[n].closed, g[n].current)
           Sound(n) == /\ g[n].current # <<>>
                       /\ Packed(b, All(n), size, budget)
                       /\ Covered(All(n)) = Read(parts, n)
<1>1. /\ g \in [0 .. N -> Filled(D)] /\ g[0] = [closed |-> <<>>, current |-> <<>>]
      /\ \A n \in 1 .. N : g[n] = AddPart(b, g[n - 1], parts[n], size, budget)
      /\ made = Close(g[N])
  BY <1>0, GreedyRoundsDef
<1>2. DOMAIN parts = 1 .. N /\ N \in Nat /\ \A n \in 1 .. N : parts[n] \in Seq(D)
  BY <1>0, ElementOfSeq, LenProperties
<1> HIDE DEF g, N
<1>3. ASSUME NEW n \in Nat, n + 1 <= N, n > 0 => Sound(n)
      PROVE  Sound(n + 1)
  <2> DEFINE p == parts[n + 1]
  <2>1. /\ n + 1 \in 1 .. N /\ (n + 1) - 1 = n /\ n \in 0 .. N
        /\ g[n + 1] = AddPart(b, g[n], p, size, budget) /\ g[n] \in Filled(D)
    BY <1>1, <1>2, <1>3
  <2>2. p \in Seq(D) /\ p # <<>> /\ Within(b, p, size, budget)
    BY <1>0, <1>2, <2>1
  <2>3. /\ Read(parts, n + 1) = Read(parts, n) \cup Range(p)
        /\ IsInjective(p) /\ Read(parts, n) \cap Range(p) = {}
    BY <1>0, <1>3, ReadNext DEF N
  <2> HIDE DEF p
  <2>4. CASE n = 0
    <3>1. g[n + 1] = AddPart(b, [closed |-> <<>>, current |-> <<>>], p, size, budget)
      BY <1>1, <2>1, <2>4
    <3>2. Read(parts, n) = {}
      BY <2>4 DEF Read
    <3> QED BY <2>2, <2>3, <3>1, <3>2, AddFirstPart
  <2>5. CASE n > 0
    <3>1. Sound(n)
      BY <1>3, <2>5
    <3>2. Covered(All(n)) \cap Range(p) = {}
      BY <2>3, <3>1
    <3> DEFINE fl == g[n]
               nx == g[n + 1]
    <3>3. /\ fl \in Filled(D) /\ nx = AddPart(b, fl, p, size, budget)
          /\ fl.current # <<>> /\ Packed(b, Append(fl.closed, fl.current), size, budget)
          /\ Covered(Append(fl.closed, fl.current)) \cap Range(p) = {}
      BY <2>1, <3>1, <3>2
    <3>4. Covered(Append(fl.closed, fl.current)) = Read(parts, n)
      BY <3>1
    <3> HIDE DEF fl, nx
    <3>5. /\ nx.current # <<>>
          /\ Packed(b, Append(nx.closed, nx.current), size, budget)
          /\ Covered(Append(nx.closed, nx.current)) = Read(parts, n) \cup Range(p)
      BY <2>2, <2>3, <3>3, <3>4, AddPartPacks
    <3> QED BY <2>3, <3>5 DEF nx
  <2> QED BY <1>3, <2>4, <2>5
<1>4. \A n \in Nat : n \in {k \in Nat : k <= N /\ k > 0 => Sound(k)}
  <2> DEFINE T == {k \in Nat : k <= N /\ k > 0 => Sound(k)}
  <2> HIDE DEF Sound
  <2>1. 0 \in T
    OBVIOUS
  <2>2. ASSUME NEW k \in Nat, k \in T
        PROVE  k + 1 \in T
    <3> SUFFICES ASSUME k + 1 <= N
                 PROVE  Sound(k + 1)
      OBVIOUS
    <3>1. k > 0 => Sound(k)
      BY <1>2, <2>2
    <3> QED BY <1>3, <3>1
  <2> HIDE DEF T
  <2> QED BY <2>1, <2>2, CountingUp DEF T
<1>5. CASE N = 0
  <2>1. made = <<>>
    BY <1>1, <1>5 DEF Close
  <2>2. Covered(parts) = {}
    BY <1>2, <1>5 DEF Covered
  <2>3. <<>> \in Seq(Seq(D))
    BY EmptySeq
  <2> QED BY <2>1, <2>2, <2>3, PackedEmpty DEF PacksParts
<1>6. CASE N > 0
  <2>1. Sound(N) /\ g[N] \in Filled(D)
    BY <1>1, <1>2, <1>4, <1>6
  <2>2. made = All(N)
    BY <1>1, <2>1 DEF Close
  <2>3. All(N) \in Seq(Seq(D))
    BY <2>1, AppendProperties DEF Filled
  <2>4. Read(parts, N) = Covered(parts)
    BY <1>0, ReadAll DEF N
  <2> QED BY <2>1, <2>2, <2>3, <2>4 DEF PacksParts
<1> QED BY <1>2, <1>5, <1>6

-------------------------------------------------------------------------------
(* The semantic buckets.                                                     *)

OneBucket(b, s) == \A i \in DOMAIN s : b[s[i]].bucket = b[s[1]].bucket

SortedOut(b, found) ==
    /\ \A n \in DOMAIN found : found[n] # <<>> /\ OneBucket(b, found[n])
    /\ \A m, n \in DOMAIN found :
          b[found[m][1]].bucket = b[found[n][1]].bucket => m = n
    /\ Separate(found)

LEMMA FirstOf ==
  ASSUME NEW S, NEW s \in Seq(S), s # <<>>
  PROVE  1 \in DOMAIN s /\ s[1] \in S /\ s[1] \in Range(s) /\ Len(s) >= 1
<1>1. Len(s) \in Nat /\ DOMAIN s = 1 .. Len(s)
  BY LenProperties
<1>2. Len(s) # 0
  BY EmptySeq
<1>3. 1 \in DOMAIN s
  BY <1>1, <1>2
<1>4. s[1] \in S
  BY <1>1, <1>3, ElementOfSeq
<1> QED BY <1>1, <1>2, <1>3, <1>4 DEF Range

\* An item of a bucket that was seen before.
LEMMA AddToBucket ==
  ASSUME NEW D, NEW b, NEW found \in Seq(Seq(D)), SortedOut(b, found),
         NEW x \in D, x \notin Covered(found),
         NEW k \in DOMAIN found, b[found[k][1]].bucket = b[x].bucket,
         NEW next, next = AddItem(b, found, x)
  PROVE  /\ next \in Seq(Seq(D)) /\ SortedOut(b, next)
         /\ Covered(next) = Covered(found) \cup {x}
<1> DEFINE s == found[k]
           last == Len(s) + 1
<1>1. DOMAIN found = 1 .. Len(found) /\ Len(found) \in Nat
      /\ \A n \in DOMAIN found : found[n] \in Seq(D)
  BY ElementOfSeq, LenProperties
<1>2. \A n \in DOMAIN found : b[found[n][1]].bucket = b[x].bucket <=> n = k
  BY DEF SortedOut
<1>3. next = [n \in DOMAIN found |-> IF n = k THEN Append(s, x) ELSE found[n]]
  BY <1>2 DEF AddItem
<1>4. /\ s \in Seq(D) /\ s # <<>> /\ OneBucket(b, s)
      /\ Append(s, x) \in Seq(D) /\ Append(s, x) # <<>>
      /\ DOMAIN s = 1 .. Len(s) /\ DOMAIN Append(s, x) = 1 .. last /\ Len(s) \in Nat
      /\ \A i \in 1 .. Len(s) : Append(s, x)[i] = s[i]
      /\ Append(s, x)[last] = x /\ 1 \in DOMAIN s
  <2>1. s \in Seq(D) /\ s # <<>> /\ OneBucket(b, s)
    BY <1>1 DEF SortedOut
  <2>2. 1 \in DOMAIN s
    BY <2>1, FirstOf
  <2> HIDE DEF s
  <2> QED BY <2>1, <2>2, AppendProperties, AppendFacts
<1>5. Len(next) = Len(found) /\ next \in Seq(Seq(D))
  <2>1. next \in [1 .. Len(found) -> Seq(D)]
    BY <1>1, <1>3, <1>4
  <2> QED BY <1>1, <2>1, FunctionIsSeq
<1>6. /\ DOMAIN next = DOMAIN found
      /\ \A n \in DOMAIN next : n # k => next[n] = found[n]
      /\ next[k] = Append(s, x)
  BY <1>3
<1>7. \A n \in DOMAIN next : \A i \in DOMAIN next[n] :
         \/ i \in DOMAIN found[n] /\ next[n][i] = found[n][i]
         \/ n = k /\ i = last /\ next[n][i] = x
  <2> SUFFICES ASSUME NEW n \in DOMAIN next, NEW i \in DOMAIN next[n]
               PROVE  \/ i \in DOMAIN found[n] /\ next[n][i] = found[n][i]
                      \/ n = k /\ i = last /\ next[n][i] = x
    OBVIOUS
  <2>1. CASE n # k
    BY <1>6, <2>1
  <2>2. CASE n = k
    <3>1. i \in DOMAIN s \/ i = last
      BY <1>4, <1>6, <2>2
    <3> QED BY <1>4, <1>6, <2>2, <3>1
  <2> QED BY <2>1, <2>2
<1>8. \A n \in DOMAIN found : \A i \in DOMAIN found[n] :
         /\ i \in DOMAIN next[n] /\ next[n][i] = found[n][i]
         /\ found[n][i] # x
  <2> SUFFICES ASSUME NEW n \in DOMAIN found, NEW i \in DOMAIN found[n]
               PROVE  i \in DOMAIN next[n] /\ next[n][i] = found[n][i] /\ found[n][i] # x
    OBVIOUS
  <2>1. found[n][i] \in Covered(found)
    BY DEF Covered, Range
  <2>2. CASE n # k
    BY <1>6, <2>1, <2>2
  <2>3. CASE n = k
    <3>1. i \in 1 .. Len(s) /\ i \in 1 .. last
      BY <1>4, <2>3
    <3> QED BY <1>4, <1>6, <2>1, <2>3, <3>1
  <2> QED BY <2>2, <2>3
<1>9. last \in DOMAIN next[k] /\ next[k][last] = x /\ last \notin DOMAIN s
  BY <1>4, <1>6
<1>10. \A n \in DOMAIN found : 1 \in DOMAIN found[n] /\ next[n][1] = found[n][1]
  <2>1. \A n \in DOMAIN found : 1 \in DOMAIN found[n]
    BY <1>1, FirstOf DEF SortedOut
  <2> QED BY <1>8, <2>1
<1> HIDE DEF s, last
<1>11. SortedOut(b, next)
  <2>1. \A n \in DOMAIN next : next[n] # <<>>
    BY <1>4, <1>6 DEF SortedOut
  <2>2. \A n \in DOMAIN next : OneBucket(b, next[n])
    <3> SUFFICES ASSUME NEW n \in DOMAIN next, NEW i \in DOMAIN next[n]
                 PROVE  b[next[n][i]].bucket = b[next[n][1]].bucket
      BY DEF OneBucket
    <3>1. next[n][1] = found[n][1]
      BY <1>6, <1>10
    <3>2. CASE i \in DOMAIN found[n] /\ next[n][i] = found[n][i]
      BY <1>6, <3>1, <3>2 DEF SortedOut, OneBucket
    <3>3. CASE n = k /\ next[n][i] = x
      BY <3>1, <3>3
    <3> QED BY <1>7, <3>2, <3>3
  <2>3. \A m, n \in DOMAIN next :
           b[next[m][1]].bucket = b[next[n][1]].bucket => m = n
    BY <1>6, <1>10 DEF SortedOut
  <2>4. Separate(next)
    <3> SUFFICES ASSUME NEW m \in DOMAIN next, NEW n \in DOMAIN next,
                        NEW i \in DOMAIN next[m], NEW j \in DOMAIN next[n],
                        next[m][i] = next[n][j]
                 PROVE  m = n /\ i = j
      BY DEF Separate
    <3>1. CASE /\ i \in DOMAIN found[m] /\ next[m][i] = found[m][i]
               /\ j \in DOMAIN found[n] /\ next[n][j] = found[n][j]
      <4>1. m \in DOMAIN found /\ n \in DOMAIN found /\ found[m][i] = found[n][j]
        BY <1>6, <3>1
      <4> QED BY <3>1, <4>1 DEF SortedOut, Separate
    <3>2. CASE /\ m = k /\ i = last /\ next[m][i] = x
               /\ n = k /\ j = last /\ next[n][j] = x
      BY <3>2
    <3>3. CASE /\ i \in DOMAIN found[m] /\ next[m][i] = found[m][i]
               /\ next[n][j] = x
      BY <1>6, <1>8, <3>3
    <3>4. CASE /\ next[m][i] = x
               /\ j \in DOMAIN found[n] /\ next[n][j] = found[n][j]
      BY <1>6, <1>8, <3>4
    <3> QED BY <1>7, <3>1, <3>2, <3>3, <3>4
  <2> QED BY <2>1, <2>2, <2>3, <2>4 DEF SortedOut
<1>12. Covered(next) = Covered(found) \cup {x}
  <2>1. ASSUME NEW n \in DOMAIN next, NEW i \in DOMAIN next[n]
        PROVE  next[n][i] \in Covered(found) \cup {x}
    <3>1. CASE i \in DOMAIN found[n] /\ next[n][i] = found[n][i]
      BY <1>6, <3>1 DEF Covered, Range
    <3> QED BY <1>7, <3>1
  <2>2. ASSUME NEW n \in DOMAIN found, NEW i \in DOMAIN found[n]
        PROVE  found[n][i] \in Covered(next)
    <3>1. n \in DOMAIN next /\ i \in DOMAIN next[n] /\ next[n][i] = found[n][i]
      BY <1>6, <1>8
    <3> QED BY <3>1 DEF Covered, Range
  <2>3. x \in Covered(next)
    <3>1. k \in DOMAIN next /\ last \in DOMAIN next[k] /\ next[k][last] = x
      BY <1>6, <1>9
    <3> QED BY <3>1 DEF Covered, Range
  <2>4. \A y \in Covered(next) : y \in Covered(found) \cup {x}
    BY <2>1 DEF Covered, Range
  <2>5. \A y \in Covered(found) : y \in Covered(next)
    BY <2>2 DEF Covered, Range
  <2> QED BY <2>3, <2>4, <2>5
<1> QED BY <1>5, <1>11, <1>12

\* An item of a new bucket.
LEMMA AddNewBucket ==
  ASSUME NEW D, NEW b, NEW found \in Seq(Seq(D)), SortedOut(b, found),
         NEW x \in D, x \notin Covered(found),
         \A n \in DOMAIN found : b[found[n][1]].bucket # b[x].bucket,
         NEW next, next = AddItem(b, found, x)
  PROVE  /\ next \in Seq(Seq(D)) /\ SortedOut(b, next)
         /\ Covered(next) = Covered(found) \cup {x}
<1> DEFINE c == <<x>>
           last == Len(found) + 1
<1>1. c \in Seq(D) /\ c # <<>> /\ DOMAIN c = {1} /\ c[1] = x /\ Range(c) = {x}
  BY DEF Range
<1>2. next = Append(found, c)
  BY DEF AddItem
<1> HIDE DEF c
<1>3. /\ next \in Seq(Seq(D)) /\ Len(found) \in Nat
      /\ DOMAIN found = 1 .. Len(found) /\ DOMAIN next = 1 .. last
      /\ \A n \in 1 .. Len(found) : next[n] = found[n]
      /\ next[last] = c
  BY <1>1, <1>2, AppendFacts
<1>4. /\ \A n \in DOMAIN next : n \in DOMAIN found \/ n = last
      /\ \A n \in DOMAIN found : next[n] = found[n]
  BY <1>3
<1>5. IsInjective(c)
  BY <1>1 DEF IsInjective
<1>6. Separate(next)
  BY <1>1, <1>2, <1>5, SeparateAppend DEF SortedOut
<1>7. Covered(next) = Covered(found) \cup {x}
  BY <1>1, <1>2, CoveredAppend
<1>8. OneBucket(b, c)
  BY <1>1 DEF OneBucket
<1> HIDE DEF last
<1>9. \A n \in DOMAIN next : next[n] # <<>> /\ OneBucket(b, next[n])
  BY <1>1, <1>3, <1>4, <1>8 DEF SortedOut
<1>10. ASSUME NEW m \in DOMAIN next, NEW n \in DOMAIN next,
              b[next[m][1]].bucket = b[next[n][1]].bucket
       PROVE  m = n
  <2>1. CASE m \in DOMAIN found /\ n \in DOMAIN found
    BY <1>4, <1>10, <2>1 DEF SortedOut
  <2>2. CASE m \in DOMAIN found /\ n = last
    BY <1>1, <1>3, <1>4, <1>10, <2>2
  <2>3. CASE m = last /\ n \in DOMAIN found
    BY <1>1, <1>3, <1>4, <1>10, <2>3
  <2> QED BY <1>4, <2>1, <2>2, <2>3
<1> QED BY <1>3, <1>6, <1>7, <1>9, <1>10 DEF SortedOut

LEMMA AddItemType ==
  ASSUME NEW D, NEW b, NEW found \in Seq(Seq(D)), NEW x \in D
  PROVE  AddItem(b, found, x) \in Seq(Seq(D))
<1> DEFINE Match(n) == b[found[n][1]].bucket = b[x].bucket
           next == [n \in DOMAIN found |-> IF Match(n) THEN Append(found[n], x) ELSE found[n]]
<1>1. DOMAIN found = 1 .. Len(found) /\ Len(found) \in Nat
      /\ \A n \in DOMAIN found : found[n] \in Seq(D)
  BY ElementOfSeq, LenProperties
<1>2. \A n \in DOMAIN found : Append(found[n], x) \in Seq(D)
  BY <1>1, AppendProperties
<1>3. next \in Seq(Seq(D))
  <2> HIDE DEF Match
  <2>1. next \in [1 .. Len(found) -> Seq(D)]
    BY <1>1, <1>2
  <2> HIDE DEF next
  <2> QED BY <1>1, <2>1, FunctionIsSeq
<1>4. Append(found, <<x>>) \in Seq(Seq(D))
  <2>1. <<x>> \in Seq(D)
    OBVIOUS
  <2> QED BY <2>1, AppendProperties
<1>5. AddItem(b, found, x) = next \/ AddItem(b, found, x) = Append(found, <<x>>)
  BY DEF AddItem
<1> QED BY <1>3, <1>4, <1>5

BucketRounds(b, items) ==
    CHOOSE found : found = [n \in 0 .. Len(items) |->
                               IF n = 0 THEN <<>> ELSE AddItem(b, found[n - 1], items[n])]

LEMMA BucketRoundsDef ==
  ASSUME NEW D, NEW b, NEW items \in Seq(D), NEW found, found = BucketRounds(b, items)
  PROVE  /\ found[0] = <<>>
         /\ \A n \in 1 .. Len(items) : found[n] = AddItem(b, found[n - 1], items[n])
         /\ SemanticBuckets(b, items) = found[Len(items)]
<1> DEFINE N == Len(items)
           S == Seq(Seq(D))
           step == [p \in S \X (1 .. N) |-> AddItem(b, p[1], items[p[2]])]
           Unfolds(f) == f = [n \in 0 .. N |->
                                IF n = 0 THEN <<>> ELSE AddItem(b, f[n - 1], items[n])]
<1>1. N \in Nat /\ \A n \in 1 .. N : items[n] \in D
  BY ElementOfSeq, LenProperties
<1>2. IsLoop(S, <<>>, N, step)
  <2>1. <<>> \in S
    BY EmptySeq
  <2>2. step \in [S \X (1 .. N) -> S]
    <3> SUFFICES ASSUME NEW p \in S \X (1 .. N)
                 PROVE  AddItem(b, p[1], items[p[2]]) \in S
      OBVIOUS
    <3>1. p[1] \in S /\ items[p[2]] \in D
      BY <1>1
    <3> QED BY <3>1, AddItemType
  <2> QED BY <1>1, <2>1, <2>2 DEF IsLoop
<1>3. PICK f : Computes(f, S, <<>>, N, step)
  <2> HIDE DEF step, S
  <2> QED BY <1>2, LoopExists
<1>4. /\ f \in [0 .. N -> S] /\ f[0] = <<>>
      /\ \A n \in 1 .. N : f[n] = AddItem(b, f[n - 1], items[n])
  <2>1. /\ f \in [0 .. N -> S] /\ f[0] = <<>>
        /\ \A n \in 1 .. N : f[n] = step[<<f[n - 1], n>>]
    BY <1>3 DEF Computes
  <2>2. ASSUME NEW n \in 1 .. N
        PROVE  f[n] = AddItem(b, f[n - 1], items[n])
    <3>1. n - 1 \in 0 .. N
      BY <1>1
    <3>2. f[n - 1] \in S /\ f[n] = step[<<f[n - 1], n>>]
      <4> HIDE DEF step, S, N
      <4> QED BY <2>1, <3>1
    <3> QED BY <3>2
  <2> HIDE DEF step, S
  <2> QED BY <2>1, <2>2
<1>5. Unfolds(found)
  <2>1. Unfolds(f)
    <3> HIDE DEF S, step
    <3> QED BY <1>4
  <2>2. found = CHOOSE h : Unfolds(h)
    BY DEF BucketRounds
  <2> HIDE DEF Unfolds
  <2> QED BY <2>1, <2>2
<1>6. SemanticBuckets(b, items) = found[Len(items)]
  BY DEF SemanticBuckets, BucketRounds
<1> QED BY <1>1, <1>5, <1>6

\* Every item is sorted into the one bucket it belongs to.
LEMMA BucketsSorted ==
  ASSUME NEW D, NEW b, NEW items \in Seq(D), IsInjective(items),
         NEW sorted, sorted = SemanticBuckets(b, items)
  PROVE  /\ sorted \in Seq(Seq(D))
         /\ SortedOut(b, sorted)
         /\ Covered(sorted) = Range(items)
<1> DEFINE found == BucketRounds(b, items)
           N == Len(items)
           Seen(n) == {items[i] : i \in 1 .. n}
           Sound(n) == /\ found[n] \in Seq(Seq(D)) /\ SortedOut(b, found[n])
                       /\ Covered(found[n]) = Seen(n)
<1>1. /\ found[0] = <<>> /\ sorted = found[N]
      /\ \A n \in 1 .. N : found[n] = AddItem(b, found[n - 1], items[n])
  BY BucketRoundsDef
<1>2. DOMAIN items = 1 .. N /\ N \in Nat /\ \A n \in 1 .. N : items[n] \in D
  BY ElementOfSeq, LenProperties
<1> HIDE DEF found, N
<1>3. Sound(0)
  <2>1. DOMAIN <<>> = {}
    OBVIOUS
  <2>2. <<>> \in Seq(Seq(D)) /\ SortedOut(b, <<>>) /\ Covered(<<>>) = {}
    BY <2>1, EmptySeq DEF SortedOut, Covered, Separate
  <2>3. Seen(0) = {}
    OBVIOUS
  <2> HIDE DEF Seen
  <2> QED BY <1>1, <2>2, <2>3
<1>4. ASSUME NEW n \in Nat, n + 1 <= N, Sound(n)
      PROVE  Sound(n + 1)
  <2> DEFINE x == items[n + 1]
             old == found[n]
             new == found[n + 1]
  <2>1. n + 1 \in 1 .. N /\ (n + 1) - 1 = n
    BY <1>2, <1>4
  <2>2. x \in D /\ new = AddItem(b, old, x)
    BY <1>1, <1>2, <2>1
  <2>3. Seen(n + 1) = Seen(n) \cup {x}
    <3>1. \A i : i \in 1 .. n + 1 <=> i \in 1 .. n \/ i = n + 1
      OBVIOUS
    <3> QED BY <3>1
  <2>4. x \notin Seen(n)
    <3> SUFFICES ASSUME NEW i \in 1 .. n, items[i] = items[n + 1]
                 PROVE  FALSE
      OBVIOUS
    <3>1. i \in DOMAIN items /\ n + 1 \in DOMAIN items /\ i # n + 1
      BY <1>2, <2>1
    <3> QED BY <3>1 DEF IsInjective
  <2>5. old \in Seq(Seq(D)) /\ SortedOut(b, old) /\ Covered(old) = Seen(n)
    BY <1>4
  <2> HIDE DEF Seen, old, new, x
  <2>6. new \in Seq(Seq(D)) /\ SortedOut(b, new) /\ Covered(new) = Covered(old) \cup {x}
    <3>1. x \notin Covered(old)
      BY <2>4, <2>5
    <3>2. CASE \E k \in DOMAIN old : b[old[k][1]].bucket = b[x].bucket
      <4>1. PICK k \in DOMAIN old : b[old[k][1]].bucket = b[x].bucket
        BY <3>2
      <4> QED BY <2>2, <2>5, <3>1, <4>1, AddToBucket
    <3>3. CASE \A k \in DOMAIN old : b[old[k][1]].bucket # b[x].bucket
      BY <2>2, <2>5, <3>1, <3>3, AddNewBucket
    <3> QED BY <3>2, <3>3
  <2> QED BY <2>3, <2>5, <2>6 DEF new
<1>5. \A n \in Nat : n \in {k \in Nat : k <= N => Sound(k)}
  <2> DEFINE T == {k \in Nat : k <= N => Sound(k)}
  <2> HIDE DEF Sound
  <2>1. 0 \in T
    BY <1>3
  <2>2. ASSUME NEW k \in Nat, k \in T
        PROVE  k + 1 \in T
    <3> SUFFICES ASSUME k + 1 <= N
                 PROVE  Sound(k + 1)
      OBVIOUS
    <3>1. Sound(k)
      BY <1>2, <2>2
    <3> QED BY <1>4, <3>1
  <2> HIDE DEF T
  <2> QED BY <2>1, <2>2, CountingUp DEF T
<1>6. Sound(N)
  <2> HIDE DEF Sound
  <2> QED BY <1>2, <1>5
<1>7. Seen(N) = Range(items)
  BY <1>2 DEF Range
<1> QED BY <1>1, <1>6, <1>7

-------------------------------------------------------------------------------
(* Bucket after bucket.                                                      *)

LEMMA SinglySound ==
  ASSUME NEW D, NEW b, NEW size \in Nat \ {0}, NEW budget,
         NEW items \in Seq(D), IsInjective(items), NEW parts, parts = Singly(items)
  PROVE  SoundParts(D, b, parts, size, budget) /\ Covered(parts) = Range(items)
<1>1. DOMAIN items = 1 .. Len(items) /\ Len(items) \in Nat
      /\ \A n \in DOMAIN items : items[n] \in D
  BY ElementOfSeq, LenProperties
<1>2. DOMAIN parts = DOMAIN items /\ \A n \in DOMAIN items : parts[n] = <<items[n]>>
  BY DEF Singly
<1>3. parts \in Seq(Seq(D))
  <2>1. \A d \in D : <<d>> \in Seq(D)
    OBVIOUS
  <2>2. parts \in [1 .. Len(items) -> Seq(D)]
    BY <1>1, <2>1 DEF Singly
  <2> QED BY <1>1, <2>2, FunctionIsSeq
<1>4. \A n \in DOMAIN items : /\ parts[n] # <<>> /\ Len(parts[n]) = 1
                              /\ DOMAIN parts[n] = {1} /\ parts[n][1] = items[n]
  <2>1. \A x : <<x>> # <<>>
    OBVIOUS
  <2>2. \A x : Len(<<x>>) = 1
    OBVIOUS
  <2>3. \A x : DOMAIN <<x>> = {1}
    OBVIOUS
  <2>4. \A x : <<x>>[1] = x
    OBVIOUS
  <2> QED BY <1>2, <2>1, <2>2, <2>3, <2>4
<1>5. \A n \in DOMAIN items : Within(b, parts[n], size, budget)
  <2>1. 1 <= size
    OBVIOUS
  <2> QED BY <1>4, <2>1 DEF Within
<1>6. Separate(parts)
  BY <1>2, <1>4 DEF Separate, IsInjective
<1>7. \A n \in DOMAIN items : Range(parts[n]) = {items[n]}
  BY <1>4 DEF Range
<1>8. Covered(parts) = Range(items)
  BY <1>2, <1>7 DEF Covered, Range
<1> QED BY <1>2, <1>3, <1>4, <1>5, <1>6, <1>8 DEF SoundParts

LEMMA ConcatSplit ==
  ASSUME NEW S, NEW s \in Seq(S), NEW t \in Seq(S), NEW u, u = s \o t, NEW n \in DOMAIN u
  PROVE  \/ n \in DOMAIN s /\ u[n] = s[n]
         \/ n - Len(s) \in DOMAIN t /\ u[n] = t[n - Len(s)]
<1>1. /\ Len(s) \in Nat /\ Len(t) \in Nat
      /\ DOMAIN s = 1 .. Len(s) /\ DOMAIN t = 1 .. Len(t) /\ DOMAIN u = 1 .. Len(s) + Len(t)
      /\ \A i \in 1 .. Len(s) : u[i] = s[i]
      /\ \A i \in 1 .. Len(t) : u[Len(s) + i] = t[i]
  BY ConcatFacts
<1>2. CASE n <= Len(s)
  <2>1. n \in DOMAIN s /\ u[n] = s[n]
    BY <1>1, <1>2
  <2> QED BY <2>1
<1>3. CASE ~ (n <= Len(s))
  <2>1. n - Len(s) \in DOMAIN t /\ Len(s) + (n - Len(s)) = n
    BY <1>1, <1>3
  <2>2. u[n] = t[n - Len(s)]
    BY <1>1, <2>1
  <2> QED BY <2>1, <2>2
<1> QED BY <1>2, <1>3

CoversBoth(all, cs, ds) == Covered(all) = Covered(cs) \cup Covered(ds)

LEMMA CoveredConcat ==
  ASSUME NEW D, NEW cs \in Seq(Seq(D)), NEW ds \in Seq(Seq(D)), NEW all, all = cs \o ds
  PROVE  CoversBoth(all, cs, ds)
<1>1. /\ \A n \in DOMAIN cs : n \in DOMAIN all /\ all[n] = cs[n]
      /\ \A n \in DOMAIN ds : Len(cs) + n \in DOMAIN all /\ all[Len(cs) + n] = ds[n]
  BY ConcatFacts
<1>2. \A n \in DOMAIN all : \/ n \in DOMAIN cs /\ all[n] = cs[n]
                            \/ n - Len(cs) \in DOMAIN ds /\ all[n] = ds[n - Len(cs)]
  BY ConcatSplit
<1>3. ASSUME NEW x
      PROVE  x \in Covered(all) <=> x \in Covered(cs) \cup Covered(ds)
  <2>1. x \in Covered(all) <=> \E n \in DOMAIN all : x \in Range(all[n])
    BY DEF Covered
  <2>2. x \in Covered(cs) <=> \E n \in DOMAIN cs : x \in Range(cs[n])
    BY DEF Covered
  <2>3. x \in Covered(ds) <=> \E n \in DOMAIN ds : x \in Range(ds[n])
    BY DEF Covered
  <2> HIDE DEF Covered
  <2> QED BY <1>1, <1>2, <2>1, <2>2, <2>3
<1> QED BY <1>3 DEF CoversBoth

LEMMA SeparateConcat ==
  ASSUME NEW D, NEW cs \in Seq(Seq(D)), NEW ds \in Seq(Seq(D)), NEW all, all = cs \o ds,
         Separate(cs), Separate(ds), Covered(cs) \cap Covered(ds) = {}
  PROVE  Separate(all)
<1> SUFFICES ASSUME NEW m \in DOMAIN all, NEW n \in DOMAIN all,
                    NEW i \in DOMAIN all[m], NEW j \in DOMAIN all[n],
                    all[m][i] = all[n][j]
             PROVE  m = n /\ i = j
  BY DEF Separate
<1> DEFINE k == m - Len(cs)
           h == n - Len(cs)
<1>1. m \in Nat /\ n \in Nat /\ Len(cs) \in Nat
  BY ConcatFacts
<1>2. (m \in DOMAIN cs /\ all[m] = cs[m]) \/ (k \in DOMAIN ds /\ all[m] = ds[k])
  BY ConcatSplit
<1>3. (n \in DOMAIN cs /\ all[n] = cs[n]) \/ (h \in DOMAIN ds /\ all[n] = ds[h])
  BY ConcatSplit
<1>4. k = h => m = n
  BY <1>1
<1> HIDE DEF k, h
<1>5. \A x \in DOMAIN cs : \A y \in DOMAIN cs[x] : cs[x][y] \in Covered(cs)
  BY DEF Covered, Range
<1>6. \A x \in DOMAIN ds : \A y \in DOMAIN ds[x] : ds[x][y] \in Covered(ds)
  BY DEF Covered, Range
<1>7. CASE m \in DOMAIN cs /\ all[m] = cs[m] /\ n \in DOMAIN cs /\ all[n] = cs[n]
  BY <1>7 DEF Separate
<1>8. CASE k \in DOMAIN ds /\ all[m] = ds[k] /\ h \in DOMAIN ds /\ all[n] = ds[h]
  BY <1>4, <1>8 DEF Separate
<1>9. CASE m \in DOMAIN cs /\ all[m] = cs[m] /\ h \in DOMAIN ds /\ all[n] = ds[h]
  BY <1>5, <1>6, <1>9
<1>10. CASE k \in DOMAIN ds /\ all[m] = ds[k] /\ n \in DOMAIN cs /\ all[n] = cs[n]
  BY <1>5, <1>6, <1>10
<1> QED BY <1>2, <1>3, <1>7, <1>8, <1>9, <1>10

\* As Packed, but two neighbours of different buckets may fit together.
PackedByBucket(b, cs, size, budget) ==
    /\ \A n \in DOMAIN cs : cs[n] # <<>> /\ Within(b, cs[n], size, budget)
    /\ \A n \in 1 .. Len(cs) - 1 : b[cs[n][1]].bucket = b[cs[n + 1][1]].bucket
          => ~ Fits(b, cs[n], cs[n + 1], size, budget)
    /\ Separate(cs)

LEMMA PackedConcat ==
  ASSUME NEW D, NEW b, NEW size, NEW budget,
         NEW cs \in Seq(Seq(D)), NEW ds \in Seq(Seq(D)), NEW all, all = cs \o ds,
         PackedByBucket(b, cs, size, budget), PackedByBucket(b, ds, size, budget),
         Covered(cs) \cap Covered(ds) = {},
         \A x \in Covered(cs), y \in Covered(ds) : b[x].bucket # b[y].bucket
  PROVE  PackedByBucket(b, all, size, budget)
<1> DEFINE Sound(c) == c # <<>> /\ Within(b, c, size, budget)
           Apart(c, d) == b[c[1]].bucket = b[d[1]].bucket => ~ Fits(b, c, d, size, budget)
<1>1. /\ Len(cs) \in Nat /\ Len(ds) \in Nat /\ Len(all) = Len(cs) + Len(ds)
      /\ DOMAIN cs = 1 .. Len(cs) /\ DOMAIN ds = 1 .. Len(ds)
      /\ DOMAIN all = 1 .. Len(cs) + Len(ds)
      /\ \A n \in 1 .. Len(cs) : all[n] = cs[n] /\ cs[n] \in Seq(D)
      /\ \A n \in 1 .. Len(ds) : all[Len(cs) + n] = ds[n] /\ ds[n] \in Seq(D)
  BY ConcatFacts
<1>2. \A n \in DOMAIN all : \/ n \in DOMAIN cs /\ all[n] = cs[n]
                            \/ n - Len(cs) \in DOMAIN ds /\ all[n] = ds[n - Len(cs)]
  BY ConcatSplit
<1>3. Separate(all)
  BY SeparateConcat DEF PackedByBucket
<1>4. \A n \in DOMAIN all : Sound(all[n])
  BY <1>2 DEF PackedByBucket
<1>5. ASSUME NEW n \in 1 .. Len(all) - 1
      PROVE  Apart(all[n], all[n + 1])
  <2>1. n \in Nat /\ n >= 1 /\ n + 1 <= Len(cs) + Len(ds) /\ Len(cs) \in Nat
    BY <1>1
  <2>2. CASE n + 1 <= Len(cs)
    <3>1. n \in 1 .. Len(cs) - 1 /\ all[n] = cs[n] /\ all[n + 1] = cs[n + 1]
      BY <1>1, <2>1, <2>2
    <3>2. Apart(cs[n], cs[n + 1])
      BY <3>1 DEF PackedByBucket
    <3> HIDE DEF Apart
    <3> QED BY <3>1, <3>2
  <2>3. CASE n = Len(cs)
    <3>1. n \in DOMAIN cs /\ all[n] = cs[n] /\ 1 \in DOMAIN ds /\ all[n + 1] = ds[1]
      BY <1>1, <2>1, <2>3
    <3>2. cs[n] \in Seq(D) /\ cs[n] # <<>> /\ ds[1] \in Seq(D) /\ ds[1] # <<>>
      BY <1>1, <3>1 DEF PackedByBucket
    <3>3. cs[n][1] \in Covered(cs) /\ ds[1][1] \in Covered(ds)
      <4>1. cs[n][1] \in Range(cs[n])
        BY <3>2, FirstOf
      <4>2. ds[1][1] \in Range(ds[1])
        BY <3>2, FirstOf
      <4> QED BY <3>1, <4>1, <4>2 DEF Covered
    <3> QED BY <3>1, <3>3
  <2>4. CASE n > Len(cs)
    <3> DEFINE k == n - Len(cs)
    <3>1. k \in 1 .. Len(ds) - 1 /\ Len(cs) + k = n /\ Len(cs) + (k + 1) = n + 1
          /\ k \in 1 .. Len(ds) /\ k + 1 \in 1 .. Len(ds)
      BY <1>1, <2>1, <2>4
    <3> HIDE DEF k
    <3>2. all[n] = ds[k] /\ all[n + 1] = ds[k + 1]
      BY <1>1, <3>1
    <3>3. Apart(ds[k], ds[k + 1])
      BY <3>1 DEF PackedByBucket
    <3> HIDE DEF Apart
    <3> QED BY <3>2, <3>3
  <2>5. n + 1 <= Len(cs) \/ n = Len(cs) \/ n > Len(cs)
    BY <2>1
  <2> QED BY <2>2, <2>3, <2>4, <2>5
<1> QED BY <1>3, <1>4, <1>5 DEF PackedByBucket

LEMMA GreedyType ==
  ASSUME NEW D, NEW b, NEW size, NEW budget, NEW parts \in Seq(Seq(D))
  PROVE  Greedy(b, parts, size, budget) \in Seq(Seq(D))
<1> DEFINE g == GreedyRounds(b, parts, size, budget)
<1>1. g \in [0 .. Len(parts) -> Filled(D)]
      /\ Greedy(b, parts, size, budget) = Close(g[Len(parts)])
  BY GreedyRoundsDef
<1> HIDE DEF g
<1>2. Len(parts) \in Nat
  BY LenProperties
<1>3. g[Len(parts)] \in Filled(D)
  BY <1>1, <1>2
<1>4. \A f \in Filled(D) : Close(f) \in Seq(Seq(D))
  BY AppendProperties DEF Filled, Close
<1> QED BY <1>1, <1>3, <1>4

LEMMA SinglyType ==
  ASSUME NEW D, NEW items \in Seq(D)
  PROVE  Singly(items) \in Seq(Seq(D))
<1>1. DOMAIN items = 1 .. Len(items) /\ Len(items) \in Nat
      /\ \A n \in DOMAIN items : items[n] \in D
  BY ElementOfSeq, LenProperties
<1>2. \A d \in D : <<d>> \in Seq(D)
  OBVIOUS
<1>3. Singly(items) \in [1 .. Len(items) -> Seq(D)]
  BY <1>1, <1>2 DEF Singly
<1> QED BY <1>1, <1>3, FunctionIsSeq

PackRounds(b, found, size, budget) ==
    CHOOSE packed :
        packed = [n \in 0 .. Len(found) |->
                     IF n = 0 THEN <<>>
                     ELSE packed[n - 1] \o Greedy(b, Singly(found[n]), size, budget)]

PacksBuckets(b, packed, found, size, budget) ==
    /\ packed[0] = <<>>
    /\ \A n \in 1 .. Len(found) :
          packed[n] = packed[n - 1] \o Greedy(b, Singly(found[n]), size, budget)
    /\ PackBuckets(b, found, size, budget) = packed[Len(found)]

LEMMA PackRoundsDef ==
  ASSUME NEW D, NEW b, NEW size, NEW budget, NEW found \in Seq(Seq(D)),
         NEW packed, packed = PackRounds(b, found, size, budget)
  PROVE  PacksBuckets(b, packed, found, size, budget)
<1> DEFINE N == Len(found)
           S == Seq(Seq(D))
           Made(n) == Greedy(b, Singly(found[n]), size, budget)
           step == [p \in S \X (1 .. N) |-> p[1] \o Made(p[2])]
           Unfolds(f) == f = [n \in 0 .. N |-> IF n = 0 THEN <<>> ELSE f[n - 1] \o Made(n)]
<1>1. N \in Nat /\ \A n \in 1 .. N : Made(n) \in S
  <2>1. N \in Nat /\ \A n \in 1 .. N : found[n] \in Seq(D)
    BY ElementOfSeq, LenProperties
  <2>2. ASSUME NEW n \in 1 .. N
        PROVE  Made(n) \in S
    <3>1. Singly(found[n]) \in S
      BY <2>1, SinglyType
    <3> QED BY <3>1, GreedyType
  <2> QED BY <2>1, <2>2
<1> HIDE DEF Made
<1>2. IsLoop(S, <<>>, N, step)
  <2>1. <<>> \in S
    BY EmptySeq
  <2>2. step \in [S \X (1 .. N) -> S]
    <3> SUFFICES ASSUME NEW p \in S \X (1 .. N)
                 PROVE  p[1] \o Made(p[2]) \in S
      OBVIOUS
    <3>1. p[1] \in S /\ Made(p[2]) \in S
      BY <1>1
    <3> QED BY <3>1, ConcatProperties
  <2> QED BY <1>1, <2>1, <2>2 DEF IsLoop
<1>3. PICK f : Computes(f, S, <<>>, N, step)
  <2> HIDE DEF step, S
  <2> QED BY <1>2, LoopExists
<1>4. /\ f \in [0 .. N -> S] /\ f[0] = <<>>
      /\ \A n \in 1 .. N : f[n] = f[n - 1] \o Made(n)
  <2>1. /\ f \in [0 .. N -> S] /\ f[0] = <<>>
        /\ \A n \in 1 .. N : f[n] = step[<<f[n - 1], n>>]
    BY <1>3 DEF Computes
  <2>2. ASSUME NEW n \in 1 .. N
        PROVE  f[n] = f[n - 1] \o Made(n)
    <3>1. n - 1 \in 0 .. N
      BY <1>1
    <3>2. f[n - 1] \in S /\ f[n] = step[<<f[n - 1], n>>]
      <4> HIDE DEF step, S, N
      <4> QED BY <2>1, <3>1
    <3> QED BY <3>2
  <2> HIDE DEF step, S
  <2> QED BY <2>1, <2>2
<1>5. Unfolds(packed)
  <2>1. Unfolds(f)
    <3> HIDE DEF S, step
    <3>1. f = [n \in 0 .. N |-> f[n]]
      BY <1>4
    <3> DEFINE round(n) == IF n = 0 THEN <<>> ELSE f[n - 1] \o Made(n)
    <3>2. ASSUME NEW n \in 0 .. N
          PROVE  f[n] = round(n)
      <4>1. CASE n = 0
        BY <1>4, <4>1
      <4>2. CASE n # 0
        <5>1. n \in 1 .. N
          BY <1>1, <4>2
        <5>2. f[n] = f[n - 1] \o Made(n)
          BY <1>4, <5>1
        <5> QED BY <4>2, <5>2
      <4> QED BY <4>1, <4>2
    <3> HIDE DEF round
    <3>3. f = [n \in 0 .. N |-> round(n)]
      BY <3>1, <3>2
    <3> QED BY <3>3 DEF round
  <2>2. packed = CHOOSE h : Unfolds(h)
    BY DEF PackRounds, Made
  <2> HIDE DEF Unfolds
  <2> QED BY <2>1, <2>2
<1>6. PackBuckets(b, found, size, budget) = packed[Len(found)]
  BY DEF PackBuckets, PackRounds
<1>7. packed[0] = <<>> /\ \A n \in 1 .. N : packed[n] = packed[n - 1] \o Made(n)
  <2>1. 0 \in 0 .. N /\ \A n \in 1 .. N : n \in 0 .. N /\ n # 0
    BY <1>1
  <2> HIDE DEF N
  <2> QED BY <1>5, <2>1
<1> QED BY <1>6, <1>7 DEF Made, PacksBuckets

\* Every bucket is packed on its own.
LEMMA BucketsPacked ==
  ASSUME NEW D, NEW b \in [D -> Items], NEW size \in Nat \ {0}, NEW budget \in Nat,
         NEW found \in Seq(Seq(D)), SortedOut(b, found),
         NEW result, result = PackBuckets(b, found, size, budget)
  PROVE  /\ result \in Seq(Seq(D))
         /\ PackedByBucket(b, result, size, budget)
         /\ Covered(result) = Covered(found)
<1> DEFINE run == PackRounds(b, found, size, budget)
           N == Len(found)
           Sound(n) == /\ run[n] \in Seq(Seq(D))
                       /\ PackedByBucket(b, run[n], size, budget)
                       /\ Covered(run[n]) = Read(found, n)
<1>1. /\ run[0] = <<>> /\ result = run[N]
      /\ \A n \in 1 .. N :
            run[n] = run[n - 1] \o Greedy(b, Singly(found[n]), size, budget)
  <2>1. run = PackRounds(b, found, size, budget)
    OBVIOUS
  <2> HIDE DEF run
  <2>2. PacksBuckets(b, run, found, size, budget)
    BY <2>1, PackRoundsDef
  <2> QED BY <2>2 DEF PacksBuckets
<1>2. DOMAIN found = 1 .. N /\ N \in Nat /\ \A n \in 1 .. N : found[n] \in Seq(D)
  BY ElementOfSeq, LenProperties
<1> HIDE DEF run, N
<1>3. Sound(0)
  <2>1. DOMAIN <<>> = {} /\ Len(<<>>) = 0 /\ 1 .. 0 - 1 = {}
    OBVIOUS
  <2>2. <<>> \in Seq(Seq(D)) /\ PackedByBucket(b, <<>>, size, budget) /\ Covered(<<>>) = {}
    BY <2>1, EmptySeq DEF PackedByBucket, Covered, Separate
  <2>3. Read(found, 0) = {}
    BY DEF Read
  <2> QED BY <1>1, <2>2, <2>3
<1>4. ASSUME NEW n \in Nat, n + 1 <= N, Sound(n)
      PROVE  Sound(n + 1)
  <2> DEFINE s == found[n + 1]
             ds == Greedy(b, Singly(s), size, budget)
             cs == run[n]
             joined == run[n + 1]
  <2>1. n + 1 \in 1 .. N /\ (n + 1) - 1 = n /\ s \in Seq(D)
    BY <1>2, <1>4
  <2>2. joined = cs \o ds
    BY <1>1, <2>1
  <2>3. IsInjective(s) /\ Read(found, n) \cap Range(s) = {}
        /\ Read(found, n + 1) = Read(found, n) \cup Range(s)
    BY <1>4, ReadNext DEF N, SortedOut
  <2>4. cs \in Seq(Seq(D)) /\ PackedByBucket(b, cs, size, budget)
        /\ Covered(cs) = Read(found, n)
    BY <1>4
  <2>5. OneBucket(b, s) /\ s # <<>>
    BY <1>2, <2>1 DEF SortedOut
  <2>6. ASSUME NEW x \in Read(found, n), NEW y \in Range(s)
        PROVE  b[x].bucket # b[y].bucket
    <3>1. PICK k \in 1 .. n : x \in Range(found[k])
      BY DEF Read
    <3>2. k \in DOMAIN found /\ n + 1 \in DOMAIN found /\ k # n + 1
      BY <1>2, <2>1
    <3>3. b[x].bucket = b[found[k][1]].bucket
      BY <3>1, <3>2 DEF SortedOut, OneBucket, Range
    <3>4. b[y].bucket = b[s[1]].bucket
      BY <2>5 DEF OneBucket, Range
    <3> QED BY <3>2, <3>3, <3>4 DEF SortedOut
  <2> HIDE DEF s
  <2>7. /\ ds \in Seq(Seq(D)) /\ Packed(b, ds, size, budget) /\ Covered(ds) = Range(s)
    <3> DEFINE parts == Singly(s)
    <3>1. SoundParts(D, b, parts, size, budget) /\ Covered(parts) = Range(s)
      BY <2>1, <2>3, SinglySound
    <3> HIDE DEF parts
    <3>2. size \in Nat /\ ds = Greedy(b, parts, size, budget)
      BY DEF parts
    <3> HIDE DEF ds
    <3>3. PacksParts(D, b, ds, parts, size, budget)
      BY <3>1, <3>2, GreedyPacks
    <3> QED BY <3>1, <3>3 DEF PacksParts
  <2> HIDE DEF ds, cs, joined
  <2>8. PackedByBucket(b, ds, size, budget)
    BY <2>7 DEF Packed, PackedByBucket
  <2>9. joined \in Seq(Seq(D)) /\ Covered(joined) = Covered(cs) \cup Covered(ds)
    <3>1. cs \o ds \in Seq(Seq(D))
      BY <2>4, <2>7, ConcatFacts, Zenon
    <3>2. Covered(joined) = Covered(cs) \cup Covered(ds)
      <4>1. CoversBoth(joined, cs, ds)
        BY <2>2, <2>4, <2>7, CoveredConcat
      <4> QED BY <4>1 DEF CoversBoth
    <3> QED BY <2>2, <3>1, <3>2
  <2>10. PackedByBucket(b, joined, size, budget)
    <3>1. Covered(cs) \cap Covered(ds) = {}
      BY <2>3, <2>4, <2>7
    <3>2. \A x \in Covered(cs), y \in Covered(ds) : b[x].bucket # b[y].bucket
      BY <2>4, <2>6, <2>7
    <3> QED BY <2>2, <2>4, <2>7, <2>8, <3>1, <3>2, PackedConcat
  <2> QED BY <2>3, <2>4, <2>7, <2>9, <2>10 DEF joined
<1>5. \A n \in Nat : n \in {k \in Nat : k <= N => Sound(k)}
  <2> DEFINE T == {k \in Nat : k <= N => Sound(k)}
  <2> HIDE DEF Sound
  <2>1. 0 \in T
    BY <1>3
  <2>2. ASSUME NEW k \in Nat, k \in T
        PROVE  k + 1 \in T
    <3> SUFFICES ASSUME k + 1 <= N
                 PROVE  Sound(k + 1)
      OBVIOUS
    <3>1. Sound(k)
      BY <1>2, <2>2
    <3> QED BY <1>4, <3>1
  <2> HIDE DEF T
  <2> QED BY <2>1, <2>2, CountingUp DEF T
<1>6. Sound(N)
  <2> HIDE DEF Sound
  <2> QED BY <1>2, <1>5
<1>7. Read(found, N) = Covered(found)
  BY ReadAll DEF N
<1> QED BY <1>1, <1>6, <1>7

-------------------------------------------------------------------------------
(* Packing, slicing, cutting.                                                *)

\* Of chunks that two neighbours could have been, none is left (of any buckets when
\* small chunks are merged).
Planned(D, b, cs, items, size, budget, merge) ==
    /\ cs \in Seq(Seq(D))
    /\ Partitions(cs, items)
    /\ \A n \in DOMAIN cs : Within(b, cs[n], size, budget)
    /\ \A n \in 1 .. Len(cs) - 1 :
          merge \/ b[cs[n][1]].bucket = b[cs[n + 1][1]].bucket =>
              ~ (budget # 0 /\ Fits(b, cs[n], cs[n + 1], size, budget))

LEMMA PackSound ==
  ASSUME NEW D, NEW b \in [D -> Items], NEW size \in Nat \ {0}, NEW budget \in Nat,
         NEW items \in Seq(D), IsInjective(items), NEW merge \in BOOLEAN,
         NEW cs, cs = Pack(b, items, size, budget, merge)
  PROVE  Planned(D, b, cs, items, size, budget, merge)
<1> DEFINE found == SemanticBuckets(b, items)
           packed == PackBuckets(b, found, size, budget)
<1>1. found \in Seq(Seq(D)) /\ SortedOut(b, found) /\ Covered(found) = Range(items)
  BY BucketsSorted
<1> HIDE DEF found
<1>2. /\ packed \in Seq(Seq(D)) /\ PackedByBucket(b, packed, size, budget)
      /\ Covered(packed) = Range(items)
  BY <1>1, BucketsPacked
<1>3. cs = IF merge THEN Greedy(b, packed, size, budget) ELSE packed
  BY DEF Pack, found
<1> HIDE DEF packed
<1>4. CASE merge
  <2>1. SoundParts(D, b, packed, size, budget)
    BY <1>2 DEF SoundParts, PackedByBucket
  <2>2. PacksParts(D, b, cs, packed, size, budget)
    <3>1. cs = Greedy(b, packed, size, budget) /\ size \in Nat
      BY <1>3, <1>4
    <3> QED BY <2>1, <3>1, GreedyPacks
  <2> QED BY <1>2, <2>2 DEF PacksParts, Packed, Planned, Partitions
<1>5. CASE ~ merge
  <2>1. cs = packed
    BY <1>3, <1>5
  <2> QED BY <1>2, <1>5, <2>1 DEF PackedByBucket, Planned, Partitions
<1> QED BY <1>4, <1>5

\* A part of a sequence, from after one place to another.
IsPart(D, s, lo, hi, part) ==
    /\ part \in Seq(D) /\ Len(part) = hi - lo /\ DOMAIN part = 1 .. hi - lo
    /\ part # <<>>
    /\ \A i \in 1 .. hi - lo : lo + i \in DOMAIN s /\ part[i] = s[lo + i]

LEMMA SubSeqFacts ==
  ASSUME NEW D, NEW s \in Seq(D), NEW lo \in Nat, NEW hi \in Nat, lo < hi, hi <= Len(s)
  PROVE  IsPart(D, s, lo, hi, SubSeq(s, lo + 1, hi))
<1> DEFINE part == SubSeq(s, lo + 1, hi)
<1>1. Len(s) \in Nat /\ DOMAIN s = 1 .. Len(s) /\ \A i \in 1 .. Len(s) : s[i] \in D
  BY ElementOfSeq, LenProperties
<1>2. \A i \in lo + 1 .. hi : s[i] \in D
  BY <1>1
<1>3. \A i \in 1 .. hi - lo : lo + i \in DOMAIN s
  BY <1>1
<1>4. lo + 1 \in Int /\ hi \in Int /\ lo + 1 <= hi /\ hi - (lo + 1) + 1 = hi - lo
      /\ \A i \in 1 .. hi - lo : (lo + 1) + i - 1 = lo + i
  OBVIOUS
<1>5. /\ part \in Seq(D) /\ Len(part) = hi - lo
      /\ \A i \in 1 .. hi - lo : part[i] = s[lo + i]
  <2>1. /\ part \in Seq(D)
        /\ Len(part) = IF lo + 1 <= hi THEN hi - (lo + 1) + 1 ELSE 0
        /\ \A i \in 1 .. hi - (lo + 1) + 1 : part[i] = s[(lo + 1) + i - 1]
    BY <1>2, <1>4, SubSeqProperties
  <2> QED BY <1>4, <2>1
<1> HIDE DEF part
<1>6. part # <<>>
  BY <1>5, EmptySeq
<1>7. DOMAIN part = 1 .. hi - lo
  BY <1>5, LenProperties
<1>8. IsPart(D, s, lo, hi, part)
  BY <1>3, <1>5, <1>6, <1>7 DEF IsPart
<1> QED BY <1>8 DEF part

\* How many slices there are, and that every place is in one of them.
LEMMA SliceNumbers ==
  ASSUME NEW L \in Nat, NEW size \in Nat \ {0}, NEW N, N = (L + size - 1) \div size
  PROVE  /\ N \in Nat
         /\ \A n \in 1 .. N : (n - 1) * size \in Nat /\ n * size = (n - 1) * size + size
                              /\ n * size \in Nat /\ (n - 1) * size < L
         /\ \A j \in 1 .. L : \E n \in 1 .. N :
               (n - 1) * size < j /\ j <= (n - 1) * size + size
<1>1. N \in Nat /\ size * N <= L + size - 1 /\ L + size - 1 < size * N + size
  <2>1. L + size - 1 \in Nat
    OBVIOUS
  <2> DEFINE a == L + size - 1
  <2>2. N = a \div size /\ a \in Nat
    BY <2>1
  <2> HIDE DEF a
  <2>3. N \in Nat /\ size * N <= a /\ a < size * N + size
    BY <2>2
  <2> QED BY <2>3 DEF a
<1>2. ASSUME NEW n \in 1 .. N
      PROVE  /\ (n - 1) * size \in Nat /\ n * size = (n - 1) * size + size
             /\ n * size \in Nat /\ (n - 1) * size < L
  <2> DEFINE k == n - 1
  <2>1. k \in Nat /\ n = k + 1 /\ k < N
    BY <1>1
  <2> HIDE DEF k
  <2>2. (k + 1) * size = k * size + size /\ k * size \in Nat
    BY <2>1
  <2>3. k * size + size <= N * size /\ N * size = size * N
    BY <1>1, <2>1
  <2>4. k * size < L
    BY <1>1, <2>2, <2>3
  <2> QED BY <2>1, <2>2, <2>4 DEF k
<1>3. ASSUME NEW j \in 1 .. L
      PROVE  \E n \in 1 .. N : (n - 1) * size < j /\ j <= (n - 1) * size + size
  <2> DEFINE i == j - 1
             q == i \div size
  <2>1. i \in Nat /\ j = i + 1 /\ i < L
    OBVIOUS
  <2> HIDE DEF i
  <2>2. q \in Nat /\ size * q <= i /\ i < size * q + size
    BY <2>1
  <2> HIDE DEF q
  <2>3. size * q < size * N /\ size * q = q * size /\ size * N = N * size
    <3>1. size * q \in Nat /\ size * N \in Nat
      BY <1>1, <2>2
    <3>2. size * q = q * size /\ size * N = N * size
      BY <1>1, <2>2
    <3>3. size * q < size * N
      BY <1>1, <2>1, <2>2, <3>1
    <3> QED BY <3>2, <3>3
  <2>4. q < N
    <3> SUFFICES ASSUME N <= q
                 PROVE  FALSE
      BY <1>1, <2>2
    <3>1. N * size <= q * size
      BY <1>1, <2>2
    <3>2. q * size \in Nat /\ N * size \in Nat
      BY <1>1, <2>2
    <3> QED BY <2>3, <3>1, <3>2
  <2>5. q + 1 \in 1 .. N /\ (q + 1) - 1 = q
    BY <1>1, <2>2, <2>4
  <2>6. q * size < j /\ j <= q * size + size
    BY <2>1, <2>2, <2>3
  <2> QED BY <2>5, <2>6
<1> QED BY <1>1, <1>2, <1>3

\* The place of the i-th item of the slice after n slices.
Place(n, size, i) == n * size + i

\* Two different slices do not reach into each other.
LEMMA SlicesApart ==
  ASSUME NEW size \in Nat \ {0}, NEW m \in Nat, NEW n \in Nat,
         NEW i \in 1 .. size, NEW j \in 1 .. size, Place(m, size, i) = Place(n, size, j)
  PROVE  m = n /\ i = j
<1>1. m * size \in Nat /\ n * size \in Nat /\ m * size + i = n * size + j
  BY DEF Place
<1>2. CASE m < n
  <2>1. m * size + size <= n * size
    BY <1>2
  <2> QED BY <1>1, <2>1
<1>3. CASE n < m
  <2>1. n * size + size <= m * size
    BY <1>3
  <2> QED BY <1>1, <2>1
<1>4. CASE m = n
  BY <1>1, <1>4
<1> QED BY <1>2, <1>3, <1>4

LEMMA SlicesSound ==
  ASSUME NEW D, NEW b, NEW size \in Nat \ {0}, NEW items \in Seq(D), IsInjective(items),
         NEW merge, NEW cs, cs = Slices(items, size)
  PROVE  Planned(D, b, cs, items, size, 0, merge)
<1> DEFINE L == Len(items)
           N == (L + size - 1) \div size
           Lo(n) == (n - 1) * size
           Hi(n) == IF n * size < L THEN n * size ELSE L
<1>1. L \in Nat /\ DOMAIN items = 1 .. L
  BY LenProperties
<1>2. /\ N \in Nat
      /\ \A n \in 1 .. N : Lo(n) \in Nat /\ n * size = Lo(n) + size /\ Lo(n) < L
                           /\ n * size \in Nat
      /\ \A j \in 1 .. L : \E n \in 1 .. N : Lo(n) < j /\ j <= Lo(n) + size
  <2> HIDE DEF L
  <2> QED BY <1>1, SliceNumbers
<1>3. cs = [n \in 1 .. N |-> SubSeq(items, Lo(n) + 1, Hi(n))]
  BY DEF Slices
<1> HIDE DEF N
<1>4. ASSUME NEW n \in 1 .. N
      PROVE  /\ Lo(n) \in Nat /\ Hi(n) \in Nat /\ Lo(n) < Hi(n) /\ Hi(n) <= L
             /\ Hi(n) - Lo(n) <= size
             /\ \A j \in 1 .. L : j <= Lo(n) + size => j <= Hi(n)
  <2> DEFINE lo == Lo(n)
             hi == n * size
  <2>1. lo \in Nat /\ hi = lo + size /\ lo < L
    BY <1>2
  <2> HIDE DEF lo, hi, L
  <2>2. /\ lo < (IF hi < L THEN hi ELSE L) /\ (IF hi < L THEN hi ELSE L) <= L
        /\ (IF hi < L THEN hi ELSE L) \in Nat /\ (IF hi < L THEN hi ELSE L) - lo <= size
        /\ \A j \in 1 .. L : j <= lo + size => j <= IF hi < L THEN hi ELSE L
    BY <1>1, <2>1
  <2> QED BY <2>1, <2>2 DEF lo, hi
<1> HIDE DEF Hi
<1>5. ASSUME NEW n \in 1 .. N
      PROVE  /\ cs[n] \in Seq(D) /\ Len(cs[n]) = Hi(n) - Lo(n)
             /\ DOMAIN cs[n] = 1 .. Hi(n) - Lo(n) /\ cs[n] # <<>>
             /\ \A i \in 1 .. Hi(n) - Lo(n) :
                   Lo(n) + i \in DOMAIN items /\ cs[n][i] = items[Lo(n) + i]
  <2> DEFINE lo == Lo(n)
             hi == Hi(n)
             part == SubSeq(items, lo + 1, hi)
  <2>1. cs[n] = part
    BY <1>3
  <2>2. lo \in Nat /\ hi \in Nat /\ lo < hi /\ hi <= Len(items)
    BY <1>4
  <2> HIDE DEF lo, hi
  <2>3. IsPart(D, items, lo, hi, part)
    BY <2>2, SubSeqFacts
  <2> HIDE DEF part
  <2> QED BY <2>1, <2>3 DEF lo, hi, IsPart
<1> HIDE DEF Lo, L
<1>6. cs \in Seq(Seq(D)) /\ Len(cs) = N /\ DOMAIN cs = 1 .. N
  <2>1. cs \in [1 .. N -> Seq(D)]
    BY <1>3, <1>5
  <2> QED BY <1>2, <2>1, FunctionIsSeq
<1>7. \A n \in DOMAIN cs : cs[n] # <<>> /\ Within(b, cs[n], size, 0)
  BY <1>4, <1>5, <1>6 DEF Within
<1>8. Covered(cs) = Range(items)
  <2>1. ASSUME NEW n \in DOMAIN cs, NEW i \in DOMAIN cs[n]
        PROVE  cs[n][i] \in Range(items)
    <3>1. Lo(n) + i \in DOMAIN items /\ cs[n][i] = items[Lo(n) + i]
      BY <1>5, <1>6
    <3> QED BY <3>1 DEF Range
  <2>2. ASSUME NEW j \in DOMAIN items
        PROVE  \E n \in DOMAIN cs : items[j] \in Range(cs[n])
    <3>1. PICK n \in 1 .. N : Lo(n) < j /\ j <= Lo(n) + size
      BY <1>1, <1>2
    <3>2. j - Lo(n) \in 1 .. Hi(n) - Lo(n) /\ Lo(n) + (j - Lo(n)) = j
      BY <1>1, <1>4, <3>1
    <3>3. j - Lo(n) \in DOMAIN cs[n] /\ cs[n][j - Lo(n)] = items[j]
      BY <1>5, <3>2
    <3> QED BY <1>6, <3>3 DEF Range
  <2> QED BY <2>1, <2>2 DEF Covered, Range
<1>9. Separate(cs)
  <2> SUFFICES ASSUME NEW m \in DOMAIN cs, NEW n \in DOMAIN cs,
                      NEW i \in DOMAIN cs[m], NEW j \in DOMAIN cs[n], cs[m][i] = cs[n][j]
               PROVE  m = n /\ i = j
    BY DEF Separate
  <2>1. /\ Lo(m) + i \in DOMAIN items /\ cs[m][i] = items[Lo(m) + i]
        /\ Lo(n) + j \in DOMAIN items /\ cs[n][j] = items[Lo(n) + j]
        /\ i \in 1 .. Hi(m) - Lo(m) /\ j \in 1 .. Hi(n) - Lo(n)
    BY <1>5, <1>6
  <2>2. Lo(m) + i = Lo(n) + j
    BY <2>1 DEF IsInjective
  <2>3. i \in 1 .. size /\ j \in 1 .. size
    <3>1. m \in 1 .. N /\ n \in 1 .. N
      BY <1>6
    <3>2. /\ Lo(m) \in Nat /\ Hi(m) \in Nat /\ Hi(m) - Lo(m) <= size
          /\ Lo(n) \in Nat /\ Hi(n) \in Nat /\ Hi(n) - Lo(n) <= size
      BY <1>4, <3>1
    <3>3. \A x, y \in Nat : \A k \in 1 .. x - y : x - y <= size => k \in 1 .. size
      OBVIOUS
    <3> QED BY <2>1, <3>2, <3>3
  <2>4. m - 1 \in Nat /\ n - 1 \in Nat /\ m \in Nat /\ n \in Nat
    BY <1>6
  <2>5. Place(m - 1, size, i) = Place(n - 1, size, j)
    BY <2>2 DEF Lo, Place
  <2>6. m - 1 = n - 1 /\ i = j
    BY <2>3, <2>4, <2>5, SlicesApart
  <2> QED BY <2>4, <2>6
<1> QED BY <1>6, <1>7, <1>8, <1>9 DEF Planned, Partitions

\* A cut loses no item, doubles none and keeps the limits, whatever they are.
LEMMA CutSound ==
  ASSUME NEW D, NEW b \in [D -> Items], NEW size \in Nat \ {0}, NEW budget \in Nat,
         NEW items \in Seq(D), IsInjective(items), NEW merge \in BOOLEAN,
         NEW cs, cs = Cut(b, items, size, budget, merge)
  PROVE  Planned(D, b, cs, items, size, budget, merge)
<1>1. CASE budget = 0
  <2>1. cs = Slices(items, size)
    BY <1>1 DEF Cut
  <2>2. Planned(D, b, cs, items, size, 0, merge)
    BY <2>1, SlicesSound
  <2> QED BY <1>1, <2>2
<1>2. CASE budget # 0
  <2>1. cs = Pack(b, items, size, budget, merge)
    BY <1>2 DEF Cut
  <2> QED BY <2>1, PackSound
<1> QED BY <1>1, <1>2

-------------------------------------------------------------------------------
(* The plans of every bundle.                                                *)

LEMMA WholeBundle ==
  ASSUME NEW b \in Bundles
  PROVE  /\ b \in [DOMAIN b -> Items]
         /\ Whole(b) \in Seq(DOMAIN b) /\ IsInjective(Whole(b))
<1>1. PICK n \in 1 .. MaxBundle : b \in [1 .. n -> Items]
  BY DEF Bundles
<1>2. n \in Nat /\ DOMAIN b = 1 .. n
  BY <1>1
<1>3. Whole(b) \in [1 .. n -> 1 .. n] /\ \A i \in 1 .. n : Whole(b)[i] = i
  BY <1>2 DEF Whole
<1>4. Whole(b) \in Seq(1 .. n)
  BY <1>2, <1>3, FunctionIsSeq
<1>5. IsInjective(Whole(b))
  BY <1>3 DEF IsInjective
<1> QED BY <1>1, <1>2, <1>4, <1>5

LEMMA BudgetOfPlan ==
  ASSUME NEW budget \in {0, TokenBudget}
  PROVE  budget \in Nat /\ SubBudget(budget) \in Nat
<1>1. TokenBudget \in Nat /\ MinBudget \in Nat
  BY ChunkPlanAssumption DEF ChunkPlanAssumption
<1>2. budget \in Nat /\ budget \div 2 \in Nat
  BY <1>1
<1> QED BY <1>1, <1>2 DEF SubBudget

\* What the plan of a bundle is, in one predicate.
LEMMA PlanSound ==
  ASSUME NEW b \in Bundles, NEW budget \in {0, TokenBudget}, NEW merge \in BOOLEAN,
         NEW cs, cs = Plan(b, budget, merge)
  PROVE  Planned(DOMAIN b, b, cs, Whole(b), ChunkSize, budget, merge)
<1> DEFINE D == DOMAIN b
           items == Whole(b)
<1>1. b \in [D -> Items] /\ items \in Seq(D) /\ IsInjective(items)
  BY WholeBundle
<1>2. ChunkSize \in Nat \ {0} /\ budget \in Nat
  BY BudgetOfPlan, ChunkPlanAssumption DEF ChunkPlanAssumption
<1>3. cs = Cut(b, items, ChunkSize, budget, merge)
  BY DEF Plan
<1> HIDE DEF D, items
<1>4. Planned(D, b, cs, items, ChunkSize, budget, merge)
  BY <1>1, <1>2, <1>3, CutSound
<1> QED BY <1>4 DEF D, items

\* Every item of a bundle is in one place of one chunk of its plan, every chunk keeps the
\* limits, and no neighbours of one bucket (of any when small chunks are merged) fit in
\* one call: of every bundle and all limits (_pack_evidence_items_by_semantic_token_budget,
\* _merge_adjacent_small_chunks).
THEOREM PlansAreSound == PlanKeepsLimits
<1> SUFFICES ASSUME NEW b \in Bundles, NEW budget \in {0, TokenBudget},
                    NEW merge \in BOOLEAN
             PROVE  LET chunks == Plan(b, budget, merge)
                        InOneCall(c, d) == budget # 0 /\ Fits(b, c, d, ChunkSize, budget)
                    IN  /\ Partitions(chunks, Whole(b))
                        /\ \A n \in DOMAIN chunks : Within(b, chunks[n], ChunkSize, budget)
                        /\ \A n \in 1 .. Len(chunks) - 1 :
                              merge \/ b[chunks[n][1]].bucket = b[chunks[n + 1][1]].bucket
                                  => ~ InOneCall(chunks[n], chunks[n + 1])
  BY DEF PlanKeepsLimits, Plans
<1> DEFINE cs == Plan(b, budget, merge)
<1>1. Planned(DOMAIN b, b, cs, Whole(b), ChunkSize, budget, merge)
  <2>1. cs = Plan(b, budget, merge)
    OBVIOUS
  <2> HIDE DEF cs
  <2> QED BY <2>1, PlanSound
<1> HIDE DEF cs
<1>2. /\ Partitions(cs, Whole(b))
      /\ \A n \in DOMAIN cs : Within(b, cs[n], ChunkSize, budget)
      /\ \A n \in 1 .. Len(cs) - 1 :
            merge \/ b[cs[n][1]].bucket = b[cs[n + 1][1]].bucket =>
                ~ (budget # 0 /\ Fits(b, cs[n], cs[n + 1], ChunkSize, budget))
  BY <1>1 DEF Planned
<1> QED BY <1>2 DEF cs

LEMMA TwoChunks ==
  ASSUME NEW left, NEW right, NEW two, two = <<left, right>>
  PROVE  DOMAIN two = {1, 2} /\ two[1] = left /\ two[2] = right
OBVIOUS

LEMMA TwoChunksSound ==
  ASSUME NEW two, NEW left, NEW right, NEW items,
         DOMAIN two = {1, 2}, two[1] = left, two[2] = right,
         Range(items) = Range(left) \cup Range(right), Range(left) \cap Range(right) = {},
         IsInjective(left), IsInjective(right), left # <<>>, right # <<>>
  PROVE  Partitions(two, items)
<1>1. Covered(two) = Range(items)
  BY DEF Covered
<1>2. \A i \in DOMAIN left : left[i] \in Range(left)
  BY DEF Range
<1>3. \A i \in DOMAIN right : right[i] \in Range(right)
  BY DEF Range
<1>4. Separate(two)
  BY <1>2, <1>3 DEF Separate, IsInjective
<1>5. \A n \in DOMAIN two : two[n] # <<>>
  OBVIOUS
<1> QED BY <1>1, <1>4, <1>5 DEF Partitions

\* What is before a place and what is after it is all there is, and nothing twice.
LEMMA PartsSplit ==
  ASSUME NEW D, NEW items \in Seq(D), IsInjective(items), NEW H \in Nat, H < Len(items),
         NEW left, IsPart(D, items, 0, H, left),
         NEW right, IsPart(D, items, H, Len(items), right)
  PROVE  /\ Range(items) = Range(left) \cup Range(right)
         /\ Range(left) \cap Range(right) = {}
         /\ IsInjective(left) /\ IsInjective(right)
<1> DEFINE L == Len(items)
<1>1. L \in Nat /\ DOMAIN items = 1 .. L
  BY LenProperties
<1>2. DOMAIN left = 1 .. H /\ \A i \in 1 .. H : i \in DOMAIN items /\ left[i] = items[i]
  <2>1. /\ DOMAIN left = 1 .. H - 0
        /\ \A i \in 1 .. H - 0 : 0 + i \in DOMAIN items /\ left[i] = items[0 + i]
    BY DEF IsPart
  <2>2. H - 0 = H /\ \A i \in 1 .. H : 0 + i = i
    OBVIOUS
  <2> QED BY <2>1, <2>2
<1>3. /\ DOMAIN right = 1 .. L - H
      /\ \A i \in 1 .. L - H : H + i \in DOMAIN items /\ right[i] = items[H + i]
  BY DEF IsPart
<1> HIDE DEF L
<1>4. Range(left) \subseteq Range(items) /\ Range(right) \subseteq Range(items)
  BY <1>2, <1>3 DEF Range
<1>5. ASSUME NEW i \in DOMAIN items
      PROVE  items[i] \in Range(left) \cup Range(right)
  <2>1. CASE i <= H
    <3>1. i \in DOMAIN left /\ left[i] = items[i]
      BY <1>1, <1>2, <2>1
    <3> QED BY <3>1 DEF Range
  <2>2. CASE ~ (i <= H)
    <3>1. i - H \in 1 .. L - H /\ H + (i - H) = i
      BY <1>1, <2>2
    <3>2. i - H \in DOMAIN right /\ right[i - H] = items[i]
      BY <1>3, <3>1
    <3> QED BY <3>2 DEF Range
  <2> QED BY <2>1, <2>2
<1>6. Range(items) = Range(left) \cup Range(right)
  BY <1>4, <1>5 DEF Range
<1>7. ASSUME NEW i \in DOMAIN left, NEW j \in DOMAIN right, left[i] = right[j]
      PROVE  FALSE
  <2>1. i = H + j
    <3>1. /\ i \in DOMAIN items /\ left[i] = items[i]
          /\ H + j \in DOMAIN items /\ right[j] = items[H + j]
      BY <1>2, <1>3
    <3> QED BY <1>7, <3>1 DEF IsInjective
  <2>2. i \in 1 .. H /\ j \in 1 .. L - H
    BY <1>2, <1>3
  <2> QED BY <1>1, <2>1, <2>2
<1>8. Range(left) \cap Range(right) = {}
  BY <1>7 DEF Range
<1>9. IsInjective(left)
  BY <1>2 DEF IsInjective
<1>10. ASSUME NEW i \in DOMAIN right, NEW j \in DOMAIN right, right[i] = right[j]
       PROVE  i = j
  <2>1. H + i = H + j
    <3>1. /\ H + i \in DOMAIN items /\ right[i] = items[H + i]
          /\ H + j \in DOMAIN items /\ right[j] = items[H + j]
      BY <1>3
    <3> QED BY <1>10, <3>1 DEF IsInjective
  <2>2. i \in 1 .. L - H /\ j \in 1 .. L - H
    BY <1>3
  <2> QED BY <1>1, <2>1, <2>2
<1> QED BY <1>6, <1>8, <1>9, <1>10 DEF IsInjective

\* Pieces of a chunk as a split must make them: two or more.
SplitSoundly(pieces, chunk) ==
    /\ Partitions(pieces, chunk)
    /\ \A n \in DOMAIN pieces : Len(pieces[n]) < Len(chunk) /\ Range(pieces[n]) # {}
    /\ {1, 2} \subseteq DOMAIN pieces /\ DOMAIN pieces = 1 .. Len(pieces)

\* The two halves of a chunk, when its pieces would be the chunk itself.
LEMMA HalvesSplit ==
  ASSUME NEW D, NEW items \in Seq(D), IsInjective(items), Len(items) > 1,
         NEW H, H = Half(Len(items)),
         NEW two, two = <<SubSeq(items, 1, H), SubSeq(items, H + 1, Len(items))>>
  PROVE  SplitSoundly(two, items)
<1> DEFINE L == Len(items)
           left == SubSeq(items, 1, H)
           right == SubSeq(items, H + 1, L)
<1>1. L \in Nat /\ L > 1
  BY LenProperties
<1>2. H \in Nat /\ 0 < H /\ H < L
  <2> HIDE DEF L
  <2>1. (L + 1) \div 2 \in Nat /\ 0 < (L + 1) \div 2 /\ (L + 1) \div 2 < L
    BY <1>1
  <2> QED BY <2>1 DEF L, Half
<1>3. DOMAIN two = {1, 2} /\ two[1] = left /\ two[2] = right
  <2>1. two = <<left, right>>
    OBVIOUS
  <2> HIDE DEF left, right
  <2> QED BY <2>1, TwoChunks
<1>4. IsPart(D, items, 0, H, left)
  <2> DEFINE lo == 0
  <2>1. lo \in Nat /\ lo < H /\ H <= Len(items) /\ left = SubSeq(items, lo + 1, H)
    BY <1>1, <1>2
  <2> HIDE DEF lo, left
  <2>2. IsPart(D, items, lo, H, left)
    BY <1>2, <2>1, SubSeqFacts
  <2> QED BY <2>2 DEF lo
<1>5. IsPart(D, items, H, Len(items), right)
  BY <1>1, <1>2, SubSeqFacts
<1> HIDE DEF left, right
<1>6. /\ Range(items) = Range(left) \cup Range(right)
      /\ Range(left) \cap Range(right) = {}
      /\ IsInjective(left) /\ IsInjective(right)
  BY <1>2, <1>4, <1>5, PartsSplit
<1>7. /\ left # <<>> /\ Len(left) < L
      /\ right # <<>> /\ Len(right) < L
  <2> HIDE DEF L
  <2>1. left # <<>> /\ Len(left) = H - 0 /\ right # <<>> /\ Len(right) = L - H
    BY <1>4, <1>5 DEF IsPart, L
  <2>2. H - 0 < L /\ L - H < L
    BY <1>1, <1>2
  <2> QED BY <2>1, <2>2
<1>8. Partitions(two, items)
  BY <1>3, <1>6, <1>7, TwoChunksSound
<1>9. Range(left) # {} /\ Range(right) # {}
  <2>1. left \in Seq(D) /\ right \in Seq(D)
    BY <1>4, <1>5 DEF IsPart
  <2>2. left[1] \in Range(left) /\ right[1] \in Range(right)
    BY <1>7, <2>1, FirstOf
  <2> QED BY <2>2
<1>10. \A n \in DOMAIN two : Len(two[n]) < L /\ Range(two[n]) # {}
  BY <1>3, <1>7, <1>9
<1>11. DOMAIN two = 1 .. Len(two)
  <2>1. Len(two) = 2
    OBVIOUS
  <2>2. 1 .. 2 = {1, 2}
    OBVIOUS
  <2> HIDE DEF left, right
  <2> QED BY <1>3, <2>1, <2>2
<1> QED BY <1>3, <1>8, <1>10, <1>11 DEF SplitSoundly

\* The pieces of a chunk of a plan.
LEMMA PiecesSound ==
  ASSUME NEW b \in Bundles, NEW budget \in {0, TokenBudget}, NEW merge \in BOOLEAN,
         NEW chunk \in Range(Plan(b, budget, merge)), Len(chunk) > 1,
         NEW pieces, pieces = Subchunks(b, chunk, budget, merge)
  PROVE  SplitSoundly(pieces, chunk)
<1> DEFINE D == DOMAIN b
           L == Len(chunk)
           cs == Plan(b, budget, merge)
<1>1. b \in [D -> Items]
  BY WholeBundle
<1>2. chunk \in Seq(D) /\ IsInjective(chunk)
  <2>1. Planned(D, b, cs, Whole(b), ChunkSize, budget, merge)
    <3>1. cs = Plan(b, budget, merge)
      OBVIOUS
    <3> HIDE DEF cs
    <3> QED BY <3>1, PlanSound
  <2>2. PICK n \in DOMAIN cs : chunk = cs[n]
    BY DEF Range
  <2> HIDE DEF cs, D
  <2>3. cs \in Seq(Seq(D)) /\ Separate(cs)
    BY <2>1 DEF Planned, Partitions
  <2>4. chunk \in Seq(D)
    BY <2>2, <2>3, ElementOfSeq
  <2>5. IsInjective(chunk)
    BY <2>2, <2>3 DEF Separate, IsInjective
  <2> QED BY <2>4, <2>5
<1> HIDE DEF D
<1>3. L \in Nat /\ L > 1
  BY <1>2, LenProperties
<1> DEFINE size == IF ChunkSize < Half(L) THEN ChunkSize ELSE Half(L)
           cut == Cut(b, chunk, size, SubBudget(budget), merge)
<1>4. size \in Nat \ {0} /\ size < L
  <2> HIDE DEF L
  <2>1. Half(L) \in Nat \ {0} /\ Half(L) < L
    BY <1>3 DEF Half
  <2>2. ChunkSize \in Nat \ {0}
    BY ChunkPlanAssumption DEF ChunkPlanAssumption
  <2> QED BY <1>3, <2>1, <2>2
<1>5. pieces = IF Len(cut) = 1 THEN <<SubSeq(chunk, 1, Half(L)),
                                      SubSeq(chunk, Half(L) + 1, L)>>
                               ELSE cut
  BY DEF Subchunks
<1> HIDE DEF size
<1>6. Planned(D, b, cut, chunk, size, SubBudget(budget), merge)
  <2> DEFINE sub == SubBudget(budget)
  <2>1. sub \in Nat
    BY BudgetOfPlan
  <2>2. cut = Cut(b, chunk, size, sub, merge)
    OBVIOUS
  <2> HIDE DEF sub, cut
  <2>3. Planned(D, b, cut, chunk, size, sub, merge)
    BY <1>1, <1>2, <1>4, <2>1, <2>2, CutSound
  <2> QED BY <2>3 DEF sub
<1> HIDE DEF cut
<1>7. CASE Len(cut) = 1
  <2> DEFINE H == Half(L)
  <2>1. H = Half(Len(chunk))
        /\ pieces = <<SubSeq(chunk, 1, H), SubSeq(chunk, H + 1, Len(chunk))>>
    BY <1>5, <1>7
  <2> HIDE DEF H
  <2> QED BY <1>2, <1>3, <2>1, HalvesSplit
<1>8. CASE Len(cut) # 1
  <2>1. pieces = cut
    BY <1>5, <1>8
  <2>2. /\ Partitions(cut, chunk) /\ cut \in Seq(Seq(D))
        /\ \A n \in DOMAIN cut : Len(cut[n]) <= size
    BY <1>6 DEF Planned, Within
  <2>3. ASSUME NEW n \in DOMAIN cut
        PROVE  Len(cut[n]) < L /\ Range(cut[n]) # {}
    <3>1. cut[n] \in Seq(D) /\ cut[n] # <<>>
      BY <2>2, ElementOfSeq DEF Partitions
    <3>2. Len(cut[n]) \in Nat /\ Len(cut[n]) <= size
      BY <2>2, <3>1, LenProperties
    <3>3. cut[n][1] \in Range(cut[n])
      BY <3>1, FirstOf
    <3> HIDE DEF L
    <3> QED BY <1>3, <1>4, <3>2, <3>3
  <2>4. {1, 2} \subseteq DOMAIN cut
    <3>1. DOMAIN cut = 1 .. Len(cut) /\ Len(cut) \in Nat /\ 1 \in DOMAIN chunk
      BY <1>2, <1>3, <2>2, LenProperties
    <3>2. DOMAIN cut # {}
      <4>1. chunk[1] \in Range(chunk)
        BY <3>1 DEF Range
      <4>2. chunk[1] \in Covered(cut)
        BY <2>2, <4>1 DEF Partitions
      <4> QED BY <4>2 DEF Covered
    <3>3. 2 <= Len(cut)
      BY <1>8, <3>1, <3>2
    <3> QED BY <3>1, <3>3
  <2>5. DOMAIN cut = 1 .. Len(cut)
    BY <2>2, LenProperties
  <2> QED BY <2>1, <2>2, <2>3, <2>4, <2>5 DEF SplitSoundly
<1> QED BY <1>7, <1>8

\* The pieces of a chunk that failed for its size lose no item of it, and each of them is
\* smaller: of every chunk of every plan (_adaptive_subchunks_for_failed_chunk).
THEOREM PiecesAreSmaller == SplitShrinks
<1>1. ASSUME NEW b \in Bundles, NEW budget \in {0, TokenBudget}, NEW merge \in BOOLEAN,
             NEW chunk \in Range(Plan(b, budget, merge)), Len(chunk) > 1
      PROVE  SplitSoundly(Subchunks(b, chunk, budget, merge), chunk)
  BY <1>1, PiecesSound
<1>2. \A pieces, chunk : SplitSoundly(pieces, chunk) =>
         Partitions(pieces, chunk) /\ \A n \in DOMAIN pieces : Len(pieces[n]) < Len(chunk)
  BY DEF SplitSoundly
<1> QED BY <1>1, <1>2 DEF SplitShrinks, Plans

-------------------------------------------------------------------------------
(* The scheduler on the plan of its bundle.                                  *)

\* The chunks of the run, and the evidence in them.
LEMMA ChunksOfBundle ==
  /\ \A c \in Chunks : SentPlan[c] \in Range(SentPlan) /\ SentPlan[c] # <<>>
                       /\ Len(SentPlan[c]) \in Nat /\ 1 \in DOMAIN SentPlan[c]
  /\ UNION {Range(SentPlan[c]) : c \in Chunks} = DOMAIN Bundle
  /\ \A c, d \in Chunks : c # d => Range(SentPlan[c]) \cap Range(SentPlan[d]) = {}
<1> DEFINE cs == SentPlan
           D == DOMAIN Bundle
<1>1. /\ Bundle \in Bundles /\ Budget \in {0, TokenBudget} /\ MergeSmall \in BOOLEAN
      /\ Chunks = DOMAIN cs
  BY SendingAssumption DEF SendingAssumption
<1>2. Planned(D, Bundle, cs, Whole(Bundle), ChunkSize, Budget, MergeSmall)
  <2>1. cs = Plan(Bundle, Budget, MergeSmall)
    BY DEF SentPlan
  <2> HIDE DEF cs
  <2> QED BY <1>1, <2>1, PlanSound
<1> HIDE DEF cs, D
<1>3. /\ cs \in Seq(Seq(D)) /\ Separate(cs) /\ Covered(cs) = Range(Whole(Bundle))
      /\ \A n \in DOMAIN cs : cs[n] # <<>>
  BY <1>2 DEF Planned, Partitions
<1>4. Range(Whole(Bundle)) = D
  BY DEF Whole, Range, D
<1>5. \A c \in Chunks : cs[c] \in Range(cs) /\ cs[c] \in Seq(D)
  BY <1>1, <1>3, ElementOfSeq DEF Range
<1>6. \A c \in Chunks : Len(cs[c]) \in Nat /\ 1 \in DOMAIN cs[c]
  BY <1>1, <1>3, <1>5, FirstOf, LenProperties
<1>7. UNION {Range(cs[c]) : c \in Chunks} = D
  BY <1>1, <1>3, <1>4 DEF Covered
<1>8. \A c, d \in Chunks : c # d => Range(cs[c]) \cap Range(cs[d]) = {}
  BY <1>1, <1>3 DEF Separate, Range
<1> QED BY <1>1, <1>3, <1>5, <1>6, <1>7, <1>8 DEF cs, D

\* The evidence of the pieces of a chunk: of those that are not the whole, nothing twice,
\* and together everything.
LEMMA EvidenceOfChunk ==
  ASSUME NEW c \in Chunks
  PROVE  /\ Evidence[<<c, 0>>] = Range(SentPlan[c])
         /\ \A i \in 1 .. Cuts[c] :
               Evidence[<<c, i>>] # {} /\ Evidence[<<c, i>>] \subseteq Range(SentPlan[c])
         /\ \A i, j \in 1 .. Cuts[c] :
               i # j => Evidence[<<c, i>>] \cap Evidence[<<c, j>>] = {}
         /\ Cuts[c] > 0 =>
               UNION {Evidence[<<c, i>>] : i \in 1 .. Cuts[c]} = Range(SentPlan[c])
<1> DEFINE chunk == SentPlan[c]
           sub == Subplan(c)
<1>1. /\ Evidence[<<c, 0>>] = Range(chunk)
      /\ \A i \in 1 .. Cuts[c] : Evidence[<<c, i>>] = Range(sub[i])
  <2>1. \A i \in 0 .. Cuts[c] : <<c, i>> \in Pieces /\ <<c, i>>[1] = c /\ <<c, i>>[2] = i
    BY PieceFacts
  <2>2. 0 \in 0 .. Cuts[c] /\ \A i \in 1 .. Cuts[c] : i \in 0 .. Cuts[c] /\ i # 0
    BY CutFacts
  <2> HIDE DEF Subplan, Pieces
  <2> QED BY <2>1, <2>2 DEF Evidence
<1>2. chunk \in Range(SentPlan) /\ chunk # <<>> /\ Len(chunk) \in Nat /\ 1 \in DOMAIN chunk
  BY ChunksOfBundle
<1>3. Cuts[c] = Len(sub)
  <2> HIDE DEF Subplan
  <2> QED BY SendingAssumption DEF SendingAssumption
<1> HIDE DEF chunk
<1>4. CASE Len(chunk) > 1
  <2>1. SplitSoundly(sub, chunk)
    <3>1. sub = Subchunks(Bundle, chunk, Budget, MergeSmall)
      BY <1>4 DEF Subplan, chunk
    <3>2. chunk \in Range(Plan(Bundle, Budget, MergeSmall))
      BY <1>2 DEF SentPlan
    <3>3. Bundle \in Bundles /\ Budget \in {0, TokenBudget} /\ MergeSmall \in BOOLEAN
      BY SendingAssumption DEF SendingAssumption
    <3> HIDE DEF sub
    <3> QED BY <1>4, <3>1, <3>2, <3>3, PiecesSound
  <2> HIDE DEF sub
  <2>2. DOMAIN sub = 1 .. Cuts[c]
    BY <1>3, <2>1 DEF SplitSoundly
  <2>3. /\ Covered(sub) = Range(chunk) /\ Separate(sub)
        /\ \A n \in DOMAIN sub : Range(sub[n]) # {}
    BY <2>1 DEF SplitSoundly, Partitions
  <2>4. UNION {Range(sub[n]) : n \in 1 .. Cuts[c]} = Range(chunk)
    BY <2>2, <2>3 DEF Covered
  <2>5. \A m, n \in 1 .. Cuts[c] : m # n => Range(sub[m]) \cap Range(sub[n]) = {}
    BY <2>2, <2>3 DEF Separate, Range
  <2>6. \A n \in 1 .. Cuts[c] : Range(sub[n]) # {} /\ Range(sub[n]) \subseteq Range(chunk)
    BY <2>2, <2>3, <2>4
  <2>7. \A i \in 1 .. Cuts[c] : Evidence[<<c, i>>] = Range(sub[i])
    BY <1>1
  <2>8. UNION {Evidence[<<c, i>>] : i \in 1 .. Cuts[c]} = Range(chunk)
    BY <2>4, <2>7
  <2> DEFINE E(i) == Evidence[<<c, i>>]
  <2>9. \A i \in 1 .. Cuts[c] : E(i) # {} /\ E(i) \subseteq Range(chunk)
    BY <2>6, <2>7
  <2>10. \A i, j \in 1 .. Cuts[c] : i # j => E(i) \cap E(j) = {}
    BY <2>5, <2>7
  <2> QED BY <1>1, <2>8, <2>9, <2>10 DEF chunk
<1>5. CASE ~ (Len(chunk) > 1)
  <2>1. sub = <<>>
    BY <1>5 DEF Subplan, chunk
  <2>2. Cuts[c] = 0
    BY <1>3, <2>1
  <2>3. 1 .. Cuts[c] = {}
    BY <2>2
  <2> QED BY <1>1, <2>2, <2>3 DEF chunk
<1> QED BY <1>4, <1>5

\* No piece is about more than its chunk.
LEMMA EvidenceOfPiece ==
  ASSUME NEW p \in Pieces
  PROVE  Evidence[p] \subseteq Range(SentPlan[p[1]])
<1>1. p[1] \in Chunks /\ p = <<p[1], p[2]>> /\ p[2] \in 0 .. Cuts[p[1]]
  BY PieceFacts
<1> DEFINE c == p[1]
           i == p[2]
<1>2. c \in Chunks /\ p = <<c, i>> /\ (i = 0 \/ i \in 1 .. Cuts[c])
  BY <1>1, PieceFacts
<1> HIDE DEF c, i
<1>3. Evidence[<<c, i>>] \subseteq Range(SentPlan[c])
  BY <1>2, EvidenceOfChunk
<1> QED BY <1>2, <1>3 DEF c

\* The scheduler sends what is soundly planned, whatever the bundle, the limits, the pool
\* and the answers, and no item in two calls at once (_run_provider_chunks_parallel,
\* _run_adaptive_subchunk_retry).
THEOREM SentIsPlanned == Spec => []SentAsPlanned
<1>1. SchedulerInd /\ SplitMeant => SentAsPlanned
  <2> SUFFICES ASSUME SchedulerInd, SplitMeant
               PROVE  SentAsPlanned
    OBVIOUS
  <2>1. ASSUME NEW p \in Pieces, at[p] = "calling"
        PROVE  p \in PiecesOf(p[1]) /\ p[1] \in Chunks /\ p = <<p[1], p[2]>>
               /\ p[2] \in 0 .. Cuts[p[1]]
    BY <2>1, PieceFacts DEF SchedulerInd, PiecesRun
  <2>2. ASSUME NEW p \in Pieces
        PROVE  Evidence[p] \subseteq Range(SentPlan[p[1]])
    BY EvidenceOfPiece
  <2>3. CallsDisjoint
    <3> SUFFICES ASSUME NEW p \in Pieces, NEW q \in Pieces,
                        at[p] = "calling", at[q] = "calling", p # q
                 PROVE  Evidence[p] \cap Evidence[q] = {}
      BY DEF CallsDisjoint
    <3>1. p \in PiecesOf(p[1]) /\ q \in PiecesOf(q[1]) /\ p[1] \in Chunks /\ q[1] \in Chunks
          /\ p = <<p[1], p[2]>> /\ q = <<q[1], q[2]>>
      BY <2>1
    <3>2. CASE p[1] # q[1]
      <4>1. Range(SentPlan[p[1]]) \cap Range(SentPlan[q[1]]) = {}
        BY <3>1, <3>2, ChunksOfBundle
      <4> QED BY <2>2, <4>1
    <3>3. CASE p[1] = q[1]
      <4> DEFINE c == p[1]
                 i == p[2]
                 j == q[2]
      <4>1. c \in Chunks /\ p \in PiecesOf(c) /\ q \in PiecesOf(c) /\ p = <<c, i>>
            /\ q = <<c, j>> /\ i # j
        BY <3>1, <3>3
      <4>2. split[c]
        BY <4>1, PiecesOfFacts
      <4>3. i \in 1 .. Cuts[c] /\ j \in 1 .. Cuts[c]
        BY <4>1, <4>2, PiecesOfFacts
      <4> HIDE DEF c, i, j
      <4>4. Evidence[<<c, i>>] \cap Evidence[<<c, j>>] = {}
        BY <4>1, <4>3, EvidenceOfChunk
      <4> QED BY <4>1, <4>4
    <3> QED BY <3>2, <3>3
  <2>4. PiecesPartial
    <3> SUFFICES ASSUME NEW p \in Pieces, at[p] = "calling", p[2] # 0
                 PROVE  Evidence[p] # {} /\ Evidence[p] \subseteq Evidence[<<p[1], 0>>]
                                         /\ Evidence[p] # Evidence[<<p[1], 0>>]
      BY DEF PiecesPartial
    <3> DEFINE c == p[1]
               i == p[2]
               j == IF i = 1 THEN 2 ELSE 1
    <3>1. c \in Chunks /\ p = <<c, i>> /\ i \in 0 .. Cuts[c] /\ i # 0
      BY <2>1
    <3> HIDE DEF c, i
    <3>2. i \in 1 .. Cuts[c] /\ j \in 1 .. Cuts[c] /\ i # j
      BY <3>1, CutFacts
    <3> HIDE DEF j
    <3>3. /\ Evidence[<<c, 0>>] = Range(SentPlan[c])
          /\ Evidence[<<c, i>>] # {} /\ Evidence[<<c, i>>] \subseteq Range(SentPlan[c])
          /\ Evidence[<<c, j>>] # {} /\ Evidence[<<c, j>>] \subseteq Range(SentPlan[c])
          /\ Evidence[<<c, i>>] \cap Evidence[<<c, j>>] = {}
      BY <3>1, <3>2, EvidenceOfChunk
    <3>4. Evidence[<<c, i>>] # Evidence[<<c, 0>>]
      BY <3>3
    <3> QED BY <3>1, <3>3, <3>4 DEF c
  <2> QED BY <2>3, <2>4, PlansAreSound, PiecesAreSmaller DEF SentAsPlanned
<1> QED BY <1>1, IndHolds, SplitsAreMeant, PTL

\* A chunk that is said to be ok has been answered item by item, and the bundle when all
\* are, through retries, splits and merges (_merge_adaptive_subchunk_envelopes).
THEOREM OkIsCovered == Spec => []OkCoversEvidence
<1>1. SchedulerInd => OkCoversEvidence
  <2> SUFFICES ASSUME SchedulerInd
               PROVE  OkCoversEvidence
    OBVIOUS
  <2>1. ASSUME NEW c \in Chunks, res[c] = "ok"
        PROVE  Range(SentPlan[c]) \subseteq AnsweredItems
    <3>1. Answered(c)
      BY <2>1 DEF SchedulerInd, AnswersKept
    <3>2. <<c, 0>> \in Pieces /\ \A i \in 1 .. Cuts[c] : <<c, i>> \in Pieces
      BY PieceFacts
    <3>3. \A p \in Pieces : got[p] = "ok" => Evidence[p] \subseteq AnsweredItems
      BY DEF AnsweredItems
    <3>4. CASE got[<<c, 0>>] = "ok"
      BY <3>2, <3>3, <3>4, EvidenceOfChunk
    <3>5. CASE Cuts[c] > 0 /\ \A i \in 1 .. Cuts[c] : got[<<c, i>>] = "ok"
      <4>1. \A i \in 1 .. Cuts[c] : Evidence[<<c, i>>] \subseteq AnsweredItems
        BY <3>2, <3>3, <3>5
      <4>2. UNION {Evidence[<<c, i>>] : i \in 1 .. Cuts[c]} = Range(SentPlan[c])
        BY <3>5, EvidenceOfChunk
      <4> QED BY <4>1, <4>2
    <3> QED BY <3>1, <3>4, <3>5 DEF Answered
  <2>2. AnsweredItems \subseteq DOMAIN Bundle
    <3>1. ASSUME NEW p \in Pieces
          PROVE  Evidence[p] \subseteq DOMAIN Bundle
      <4>1. p[1] \in Chunks
        BY PieceFacts
      <4> QED BY <4>1, EvidenceOfPiece, ChunksOfBundle
    <3> QED BY <3>1 DEF AnsweredItems
  <2>3. ASSUME \A c \in Chunks : res[c] = "ok"
        PROVE  DOMAIN Bundle \subseteq AnsweredItems
    BY <2>1, <2>3, ChunksOfBundle
  <2> QED BY <2>1, <2>2, <2>3 DEF OkCoversEvidence
<1> QED BY <1>1, IndHolds, PTL

\* What is sent is planned soundly, and what is said to be ok was sent and answered
\* (_run_provider_chunks_parallel and its retries).
THEOREM SendingIsSound == Spec => []SendingInv
<1>1. SentAsPlanned /\ OkCoversEvidence => SendingInv
  BY DEF SendingInv
<1> QED BY <1>1, SentIsPlanned, OkIsCovered, PTL
===============================================================================
