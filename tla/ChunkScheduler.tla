----------------------------- MODULE ChunkScheduler -----------------------------
(***************************************************************************)
(* How one provider's chunks are run inside run_multi_ai                   *)
(* (synthesis/multi_ai.py): the first pass through a thread pool, the      *)
(* start pacer, the retry rounds with their own pool, the split of a chunk *)
(* that was too large or too slow into subchunks with a nested pool, and   *)
(* the merge of the chunk results.                                         *)
(*                                                                         *)
(* A piece is what one provider call is made for: <<c, 0>> is chunk c,     *)
(* <<c, i>> its subchunk i.  The plan has more than one chunk              *)
(* (a single chunk is called once and not retried).  The ledger is taken   *)
(* from ChunkLedger: a piece answered ok earlier in the run is not called  *)
(* again.  Time is kept as countdowns; the delay before a retry round is   *)
(* an unbounded wait.                                                      *)
(***************************************************************************)
EXTENDS Integers, FiniteSets

CONSTANTS
    Chunks,      \* the chunks of the provider's plan
    Cuts,        \* how many subchunks a chunk is split into, 0 for one that cannot be
    Requested,   \* OES_MULTI_AI_CHUNK_MAX_WORKERS
    Rounds,      \* OES_MULTI_AI_CHUNK_RETRY_ATTEMPTS
    Interval,    \* least time between two starts
    Cooldown,    \* provider cooldown after a rate limit
    Outcomes,    \* the execution statuses the provider answers with
    Free         \* the pacer's lock is free

\* The order in which _artifact_execution_status recognises a failure.
Precedence ==
    [s \in {"safety_filter", "context_length", "rate_limited", "timeout",
            "schema_invalid", "provider_error", "skipped_not_configured"} |->
        CASE s = "safety_filter" -> 1 [] s = "context_length" -> 2
          [] s = "rate_limited" -> 3  [] s = "timeout" -> 4
          [] s = "schema_invalid" -> 5 [] OTHER -> 6]

Pieces == UNION {{c} \X (0 .. Cuts[c]) : c \in Chunks}

ASSUME SchedulerAssumption ==
    /\ IsFiniteSet(Chunks) /\ Cardinality(Chunks) > 1
    /\ Cuts \in [Chunks -> Nat \ {1}]
    /\ Free \notin Pieces
    /\ Requested \in Nat \ {0}
    /\ Rounds \in 0 .. 5
    /\ Interval \in Nat /\ Cooldown \in Nat
    /\ Outcomes \subseteq DOMAIN Precedence \cup {"ok"}

VARIABLES
    job,       \* state of each chunk's future in the current pool
    split,     \* whether the chunk is being run as subchunks
    at,        \* where the thread of each piece is
    nap,       \* how long a piece still sleeps in the pacer
    got,       \* the last answer for each piece
    res,       \* the status of each chunk's envelope (by_index)
    slots,     \* size of the current pool
    rounds,    \* retry rounds left
    lock,      \* who holds the pacer's lock
    gap,       \* time to last_started_at + interval
    blocked,   \* time to blocked_until
    merged     \* the provider's result

vars == <<job, split, at, nap, got, res, slots, rounds, lock, gap, blocked, merged>>

Larger(a, b) == IF a > b THEN a ELSE b
Smaller(a, b) == IF a < b THEN a ELSE b
LongestWait == Larger(Interval, Cooldown)

\* Mutant of WorkerCount: the setting is ignored.
WorkerPerPiece(n) == n

\* _chunk_worker_count
WorkerCount(n) == IF n <= 1 THEN 1 ELSE Larger(1, Smaller(n, Requested))

PiecesOf(c) == IF split[c] THEN {c} \X (1 .. Cuts[c]) ELSE {<<c, 0>>}
Active(ps) == {p \in ps : at[p] \in {"waiting", "sleeping", "calling", "noting"}}

TypeOK ==
    /\ job \in [Chunks -> {"queued", "running", "done"}]
    /\ split \in [Chunks -> BOOLEAN]
    /\ at \in [Pieces -> {"idle", "queued", "waiting", "sleeping", "calling",
                          "noting", "finished"}]
    /\ nap \in [Pieces -> 0 .. LongestWait]
    /\ got \in [Pieces -> Outcomes \cup {"none"}]
    /\ res \in [Chunks -> Outcomes \cup {"none", "provider_error"}]
    /\ slots \in 1 .. Larger(1, Requested)
    /\ rounds \in 0 .. Rounds
    /\ lock \in Pieces \cup {Free}
    /\ gap \in 0 .. Interval
    /\ blocked \in 0 .. Cooldown
    /\ merged \in {"none", "ok", "failed", "skipped_not_configured"}

Init ==
    /\ job = [c \in Chunks |-> "queued"]
    /\ split = [c \in Chunks |-> FALSE]
    /\ at = [p \in Pieces |-> "idle"]
    /\ nap = [p \in Pieces |-> 0]
    /\ got = [p \in Pieces |-> "none"]
    /\ res = [c \in Chunks |-> "none"]
    /\ slots = WorkerCount(Cardinality(Chunks))
    /\ rounds = Rounds
    /\ lock = Free
    /\ gap = 0
    /\ blocked = 0
    /\ merged = "none"

-------------------------------------------------------------------------------
(* Pools.                                                                    *)

\* A pool thread takes the chunk: it runs it whole, or submits its subchunks
\* to a nested pool and waits for them.
BeginJob(c) ==
    /\ job[c] = "queued"
    /\ Cardinality({d \in Chunks : job[d] = "running"}) < slots
    /\ job' = [job EXCEPT ![c] = "running"]
    /\ at' = [p \in Pieces |-> IF p \in PiecesOf(c) THEN "queued" ELSE at[p]]
    /\ UNCHANGED <<split, nap, got, res, slots, rounds, lock, gap, blocked, merged>>

\* Mutant of BeginPiece: subchunks wait for a thread of the pool their chunk runs in.
BeginPieceInSamePool(p) ==
    /\ at[p] = "queued"
    /\ \/ p[2] = 0
       \/ Cardinality({c \in Chunks : job[c] = "running"}) + Cardinality(Active(Pieces)) < slots
    /\ at' = [at EXCEPT ![p] = IF got[p] = "ok" THEN "finished"
                               ELSE IF Interval = 0 THEN "calling" ELSE "waiting"]
    /\ UNCHANGED <<job, split, nap, got, res, slots, rounds, lock, gap, blocked, merged>>

\* _run_provider_chunk_with_pacing: a success of this run is reused; without a
\* start interval the pacer is passed at once.
BeginPiece(p) ==
    /\ at[p] = "queued"
    /\ Cardinality(Active(PiecesOf(p[1]))) < WorkerCount(Cardinality(PiecesOf(p[1])))
    /\ at' = [at EXCEPT ![p] = IF got[p] = "ok" THEN "finished"
                               ELSE IF Interval = 0 THEN "calling" ELSE "waiting"]
    /\ UNCHANGED <<job, split, nap, got, res, slots, rounds, lock, gap, blocked, merged>>

\* Mutant of MergeSubchunks: one good subchunk makes the chunk good.
MergeAnyOk(c) ==
    IF \E p \in PiecesOf(c) : got[p] = "ok" THEN "ok"
    ELSE CHOOSE s \in {got[p] : p \in PiecesOf(c)} : TRUE

\* Mutant of MergeSubchunks: a failed subchunk is a provider error.
MergeToProviderError(c) ==
    IF \A p \in PiecesOf(c) : got[p] = "ok" THEN "ok" ELSE "provider_error"

\* _merge_adaptive_subchunk_envelopes: ok when every subchunk is (valid payloads
\* merge into a valid one), else what the collected failure texts are recognised
\* as.
MergeSubchunks(c) ==
    LET failures == {got[p] : p \in PiecesOf(c)} \ {"ok"} IN
    IF failures = {} THEN "ok"
    ELSE LET first == CHOOSE s \in failures :
                          \A t \in failures : Precedence[s] <= Precedence[t]
         IN IF first = "skipped_not_configured" THEN "provider_error" ELSE first

\* The future's result is stored in by_index.
EndJob(c) ==
    /\ job[c] = "running"
    /\ \A p \in PiecesOf(c) : at[p] = "finished"
    /\ job' = [job EXCEPT ![c] = "done"]
    /\ at' = [p \in Pieces |-> IF p \in PiecesOf(c) THEN "idle" ELSE at[p]]
    /\ res' = [res EXCEPT ![c] = IF split[c] THEN MergeSubchunks(c) ELSE got[<<c, 0>>]]
    /\ UNCHANGED <<split, nap, got, slots, rounds, lock, gap, blocked, merged>>

-------------------------------------------------------------------------------
(* The pacer and the call.                                                   *)

\* Mutant of Acquire: wait does not take the lock.
AcquireWithoutLock(p) ==
    /\ at[p] = "waiting"
    /\ nap' = [nap EXCEPT ![p] = Larger(blocked, gap)]
    /\ at' = [at EXCEPT ![p] = "sleeping"]
    /\ UNCHANGED <<job, split, got, res, slots, rounds, lock, gap, blocked, merged>>

\* wait takes the lock and computes its sleeps from what it reads.
Acquire(p) ==
    /\ at[p] = "waiting" /\ lock = Free
    /\ lock' = p
    /\ nap' = [nap EXCEPT ![p] = Larger(blocked, gap)]
    /\ at' = [at EXCEPT ![p] = "sleeping"]
    /\ UNCHANGED <<job, split, got, res, slots, rounds, gap, blocked, merged>>

\* The sleeps end: last_started_at is set, the lock released, the call made.
Start(p) ==
    /\ at[p] = "sleeping" /\ nap[p] = 0
    /\ lock' = Free
    /\ gap' = Interval
    /\ at' = [at EXCEPT ![p] = "calling"]
    /\ UNCHANGED <<job, split, nap, got, res, slots, rounds, blocked, merged>>

Answer(p, s) ==
    /\ at[p] = "calling"
    /\ got' = [got EXCEPT ![p] = s]
    /\ at' = [at EXCEPT ![p] = "noting"]
    /\ UNCHANGED <<job, split, nap, res, slots, rounds, lock, gap, blocked, merged>>

\* Mutant of NoteResult: the cooldown is added to the one that runs.
NoteResultAdds(p) ==
    /\ at[p] = "noting" /\ lock = Free
    /\ blocked' = IF got[p] = "rate_limited" THEN blocked + Cooldown ELSE blocked
    /\ at' = [at EXCEPT ![p] = "finished"]
    /\ UNCHANGED <<job, split, nap, got, res, slots, rounds, lock, gap, merged>>

\* Mutant of NoteResult: the cooldown is set without the lock.
NoteWithoutLock(p) ==
    /\ at[p] = "noting"
    /\ blocked' = IF got[p] = "rate_limited" THEN Larger(blocked, Cooldown) ELSE blocked
    /\ at' = [at EXCEPT ![p] = "finished"]
    /\ UNCHANGED <<job, split, nap, got, res, slots, rounds, lock, gap, merged>>

\* note_result waits for the lock, which a sleeping thread keeps.
NoteResult(p) ==
    /\ at[p] = "noting"
    /\ IF got[p] = "rate_limited" /\ Cooldown > 0
       THEN lock = Free /\ blocked' = Larger(blocked, Cooldown)
       ELSE UNCHANGED blocked
    /\ at' = [at EXCEPT ![p] = "finished"]
    /\ UNCHANGED <<job, split, nap, got, res, slots, rounds, lock, gap, merged>>

Less(n) == IF n = 0 THEN 0 ELSE n - 1

Tick ==
    /\ gap > 0 \/ blocked > 0 \/ \E p \in Pieces : nap[p] > 0
    /\ gap' = Less(gap)
    /\ blocked' = Less(blocked)
    /\ nap' = [p \in Pieces |-> Less(nap[p])]
    /\ UNCHANGED <<job, split, at, got, res, slots, rounds, lock, merged>>

-------------------------------------------------------------------------------
(* Retry rounds and the merge.                                               *)

PassDone == merged = "none" /\ \A c \in Chunks : job[c] = "done"

\* _chunk_envelope_retryable
Retryable ==
    {c \in Chunks : res[c] \notin {"ok", "safety_filter", "skipped_not_configured"}}

\* _adaptive_subchunk_retry_enabled
Adaptive(c) == Cuts[c] > 0 /\ res[c] \in {"context_length", "timeout"}

\* Mutant of RetryWorkers: a rate limit does not narrow the pool.
RetryWorkersSame == WorkerCount(Cardinality(Retryable))

\* _retry_chunk_worker_count
RetryWorkers ==
    LET statuses == {res[c] : c \in Retryable}
        count == WorkerCount(Cardinality(Retryable))
    IN IF "rate_limited" \in statuses THEN 1
       ELSE IF "timeout" \in statuses THEN Smaller(2, count) ELSE count

\* Mutant of RetryRound: the round is not counted.
RetryUncounted ==
    /\ PassDone /\ rounds > 0 /\ Retryable # {}
    /\ slots' = RetryWorkers
    /\ split' = [c \in Chunks |-> IF c \in Retryable THEN Adaptive(c) ELSE split[c]]
    /\ job' = [c \in Chunks |-> IF c \in Retryable THEN "queued" ELSE "done"]
    /\ UNCHANGED <<at, nap, got, res, rounds, lock, gap, blocked, merged>>

\* One iteration of _retry_failed_chunk_envelopes.
RetryRound ==
    /\ PassDone /\ rounds > 0 /\ Retryable # {}
    /\ rounds' = rounds - 1
    /\ slots' = RetryWorkers
    /\ split' = [c \in Chunks |-> IF c \in Retryable THEN Adaptive(c) ELSE split[c]]
    /\ job' = [c \in Chunks |-> IF c \in Retryable THEN "queued" ELSE "done"]
    /\ UNCHANGED <<at, nap, got, res, lock, gap, blocked, merged>>

\* Mutant of PartialUsable: skipped chunks are left out of the ratio.
PartialUsableOfRun(valid, schemaValid) ==
    /\ schemaValid /\ valid > 0
    /\ 10 * valid >= 8 * Cardinality({c \in Chunks : res[c] # "skipped_not_configured"})

\* _partial_chunk_result_usable, PARTIAL_CHUNK_SUCCESS_MIN_RATIO = 0.8
PartialUsable(valid, schemaValid) ==
    schemaValid /\ valid > 0 /\ 10 * valid >= 8 * Cardinality(Chunks)

\* _merge_chunked_provider_envelopes.  Whether the merged payload validates is
\* left open.
Merge ==
    /\ PassDone /\ (rounds = 0 \/ Retryable = {})
    /\ \E schemaValid \in BOOLEAN :
        LET valid == Cardinality({c \in Chunks : res[c] = "ok"}) IN
        merged' = IF \A c \in Chunks : res[c] = "skipped_not_configured"
                  THEN "skipped_not_configured"
                  ELSE IF \/ valid = Cardinality(Chunks) /\ schemaValid
                          \/ PartialUsable(valid, schemaValid)
                  THEN "ok" ELSE "failed"
    /\ UNCHANGED <<job, split, at, nap, got, res, slots, rounds, lock, gap, blocked>>

Piece(p) ==
    \/ BeginPiece(p)
    \/ Acquire(p)
    \/ Start(p)
    \/ \E s \in Outcomes : Answer(p, s)
    \/ NoteResult(p)

Ended == merged # "none" /\ UNCHANGED vars

Next ==
    \/ \E p \in Pieces : Piece(p)
    \/ \E c \in Chunks : BeginJob(c) \/ EndJob(c)
    \/ Tick
    \/ RetryRound
    \/ Merge
    \/ Ended

Spec == Init /\ [][Next]_vars

\* Calls return (adapters have timeouts), time passes, and while some thread can
\* go on one does.  No thread is promised the lock: there is no order to wait for.
Fairness == WF_vars(Next)

FairSpec == Spec /\ Fairness
-------------------------------------------------------------------------------
(* Properties.                                                               *)

\* Two paced calls never start closer than the interval, and none starts in the
\* cooldown of a rate limit that has been noted, however threads interleave.
StartsArePaced ==
    [][\A p \in Pieces : at[p] = "sleeping" /\ at'[p] = "calling"
           => gap = 0 /\ blocked = 0]_vars

Answered(c) ==
    \/ got[<<c, 0>>] = "ok"
    \/ Cuts[c] > 0 /\ \A i \in 1 .. Cuts[c] : got[<<c, i>>] = "ok"

\* A provider result of ok rests on successful calls for all the evidence of at
\* least four fifths of the chunks, through retries and splits.
OkRestsOnEvidence ==
    merged = "ok" =>
        5 * Cardinality({c \in Chunks : Answered(c)}) >= 4 * Cardinality(Chunks)

\* The pieces whose evidence a call for p sends.
Overlapping(p) == {q \in Pieces : q[1] = p[1] /\ (p[2] = 0 \/ q[2] \in {0, p[2]})}

\* Evidence the safety filter refused is not sent again, neither as the piece that
\* was refused nor inside the whole chunk, and a piece that was answered is not
\* asked again.
SettledIsNotSentAgain ==
    [][\A p \in Pieces : at[p] # "calling" /\ at'[p] = "calling"
           => /\ got[p] # "ok"
              /\ \A q \in Overlapping(p) : got[q] # "safety_filter"]_vars

InFlight == Cardinality({p \in Pieces : at[p] = "calling"})

\* The calls in flight are no more than the pool of the round, narrowed after a rate limit
\* or a timeout, times that of a split chunk, however many subchunks there are.  With one
\* worker the provider is called serially, in nested pools too.
CallsBounded ==
    InFlight <= slots * (IF \E c \in Chunks : job[c] = "running" /\ split[c]
                         THEN Requested ELSE 1)

\* While a chunk the provider refused for its rate limit is tried again, no other
\* chunk of that provider is being run.
RateLimitedRetriesAlone ==
    \A c, d \in Chunks :
        c # d /\ job[c] = "running" /\ job[d] = "running" => res[c] # "rate_limited"

\* The pools and the pacer keep their types, a rate-limited chunk is retried alone, and
\* what the provider is said to have answered rests on its calls.
SchedulerInv ==
    /\ TypeOK
    /\ RateLimitedRetriesAlone
    /\ OkRestsOnEvidence

\* The provider's part of the run ends: no pool waits for another for ever.
ProviderEnds == <>(merged # "none")
===============================================================================
