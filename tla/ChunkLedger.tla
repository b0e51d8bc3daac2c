------------------------------ MODULE ChunkLedger ------------------------------
(***************************************************************************)
(* The provider chunk ledger of run_multi_ai (synthesis/multi_ai.py) above *)
(* the chunk store: each run keeps an in-memory cache and a JSONL file in  *)
(* its output directory, looks a chunk up before it calls the provider,    *)
(* appends the answer to cache and file and then upserts it, retries       *)
(* failed chunks in rounds, and may crash and be started again with the    *)
(* same output directory.                                                  *)
(*                                                                         *)
(* Each chunk of a run is one thread; a plan of a single chunk, which is   *)
(* called once and not retried, is left out.  The store is taken by its    *)
(* promise, ChunkResult, with the record a row holds beside it.  A record  *)
(* is its execution status and the incarnation of the run that called.     *)
(***************************************************************************)
EXTENDS Integers, FiniteSets

CONSTANTS
    Contracts,     \* execution contracts, one per chunk of a plan of several
    CrossRun,      \* the contracts whose reuse policy allows other runs
    Runs,          \* runs over the same bundle, with the same providers
    Outcomes,      \* statuses the provider calls end with
    NotRetryable,  \* statuses _chunk_envelope_retryable leaves alone
    ReuseFailed,   \* OES_MULTI_AI_REUSE_FAILED_CHUNK_RECORDS
    Rounds,        \* OES_MULTI_AI_CHUNK_RETRY_ATTEMPTS
    MaxStarts      \* bound: MaxStarts[r] incarnations of run r

ASSUME LedgerAssumption ==
    /\ CrossRun \subseteq Contracts
    /\ IsFiniteSet(Contracts) /\ Cardinality(Contracts) > 1
    /\ "none" \notin Outcomes
    /\ NotRetryable \subseteq Outcomes \ {"ok"}
    /\ ReuseFailed \in BOOLEAN
    /\ Rounds \in Nat
    /\ MaxStarts \in [Runs -> Nat]

VARIABLES
    db,         \* the record of each row of the store
    file,       \* file[r][c]: what the last line for c in r's JSONL says
    cache,      \* the ledger's cache of each run
    current,    \* current_execution_contracts of each run
    pc,         \* where the thread of each chunk is
    env,        \* the envelope each chunk has, as its record
    phase,      \* state of the run
    start,      \* number of the run's incarnation
    rounds,     \* retry rounds left
    calls,      \* history: provider calls of this incarnation per chunk
    durable     \* history: what was stored as a success when it started

vars == <<db, file, cache, current, pc, env, phase, start, rounds, calls, durable>>

Record == [status : Outcomes, run : Runs, start : Nat]
None == [status |-> "none"]
Success(rec) == rec.status = "ok"

\* The row of the store as ChunkResult sees it.
RowResult ==
    [c \in Contracts |-> IF db[c] = None THEN "none"
                         ELSE IF Success(db[c]) THEN "ok" ELSE "failed"]
Store == INSTANCE ChunkResult WITH result <- RowResult

TypeOK ==
    /\ db \in [Contracts -> Record \cup {None}]
    /\ file \in [Runs -> [Contracts -> Record \cup {None}]]
    /\ cache \in [Runs -> [Contracts -> Record \cup {None}]]
    /\ current \in [Runs -> SUBSET Contracts]
    /\ pc \in [Runs -> [Contracts ->
                  {"queued", "pacing", "calling", "answered", "filed", "done"}]]
    /\ env \in [Runs -> [Contracts -> Record \cup {None}]]
    /\ phase \in [Runs -> {"down", "running", "finished", "failed"}]
    /\ start \in [Runs -> Nat]
    /\ rounds \in [Runs -> 0 .. Rounds]
    /\ calls \in [Runs -> [Contracts -> 0 .. Rounds + 1]]
    /\ durable \in [Runs -> SUBSET Contracts]

Init ==
    /\ db = [c \in Contracts |-> None]
    /\ file = [r \in Runs |-> [c \in Contracts |-> None]]
    /\ cache = file
    /\ current = [r \in Runs |-> {}]
    /\ pc = [r \in Runs |-> [c \in Contracts |-> "done"]]
    /\ env = file
    /\ phase = [r \in Runs |-> "down"]
    /\ start = [r \in Runs |-> 0]
    /\ rounds = [r \in Runs |-> 0]
    /\ calls = [r \in Runs |-> [c \in Contracts |-> 0]]
    /\ durable = [r \in Runs |-> {}]

-------------------------------------------------------------------------------
(* Looking a chunk up.                                                       *)

\* Mutant of CacheVisible: current_execution_contracts is not asked.
CacheVisibleAlways(r, c) == TRUE

\* A contract without cross-run reuse sees only what this run appended.
CacheVisible(r, c) == c \in CrossRun \/ c \in current[r]

\* Mutant of SuccessRecord: the cache alone is asked.
SuccessFromCache(r, c) ==
    IF Success(cache[r][c]) /\ CacheVisible(r, c) THEN cache[r][c] ELSE None

\* success_record: the store first, for cross-run contracts, then the cache.
SuccessRecord(r, c) ==
    IF c \in CrossRun /\ Success(db[c]) THEN db[c]
    ELSE IF Success(cache[r][c]) /\ CacheVisible(r, c) THEN cache[r][c]
    ELSE None

\* Mutant of ReusableRecord: a failed record is as good as a success.
ReusableAnything(r, c) == IF CacheVisible(r, c) THEN cache[r][c] ELSE None

\* reusable_record: failed records too when the operator asked for it.
ReusableRecord(r, c) ==
    IF SuccessRecord(r, c) # None \/ ~ReuseFailed THEN SuccessRecord(r, c)
    ELSE IF c \in CrossRun /\ db[c] # None THEN db[c]
    ELSE IF CacheVisible(r, c) THEN cache[r][c]
    ELSE None

\* A record found in the store is kept in the cache.
CacheAfterLookup(r, c) ==
    IF ReusableRecord(r, c) # None /\ ReusableRecord(r, c) = db[c] /\ c \in CrossRun
    THEN [cache EXCEPT ![r][c] = db[c]]
    ELSE cache

\* _cached_provider_chunk_envelope, before the pacer ("queued") and again after
\* it ("pacing"): a hit ends the chunk, a miss goes on.
Lookup(r, c) ==
    /\ pc[r][c] \in {"queued", "pacing"}
    /\ IF ReusableRecord(r, c) # None
       THEN /\ env' = [env EXCEPT ![r][c] = ReusableRecord(r, c)]
            /\ cache' = CacheAfterLookup(r, c)
            /\ pc' = [pc EXCEPT ![r][c] = "done"]
            /\ UNCHANGED calls
       ELSE /\ pc' = [pc EXCEPT ![r][c] =
                         IF pc[r][c] = "queued" THEN "pacing" ELSE "calling"]
            /\ calls' = IF pc[r][c] = "queued" THEN calls
                        ELSE [calls EXCEPT ![r][c] = @ + 1]
            /\ UNCHANGED <<env, cache>>
    /\ UNCHANGED <<db, file, current, phase, start, rounds, durable>>

-------------------------------------------------------------------------------
(* Calling the provider and recording the answer.                            *)

Answer(r, c, s) ==
    /\ pc[r][c] = "calling"
    /\ env' = [env EXCEPT ![r][c] = [status |-> s, run |-> r, start |-> start[r]]]
    /\ pc' = [pc EXCEPT ![r][c] = "answered"]
    /\ UNCHANGED <<db, file, cache, current, phase, start, rounds, calls, durable>>

\* Mutant of AppendToLedger: the ledger reports the chunk done before the upsert.
AppendAndFinish(r, c) ==
    /\ pc[r][c] = "answered"
    /\ cache' = [cache EXCEPT ![r][c] = env[r][c]]
    /\ current' = [current EXCEPT ![r] = @ \cup {c}]
    /\ file' = [file EXCEPT ![r][c] = env[r][c]]
    /\ pc' = [pc EXCEPT ![r][c] = "done"]
    /\ UNCHANGED <<db, env, phase, start, rounds, calls, durable>>

\* The part of append under the lock: cache, current contracts, JSONL line.
AppendToLedger(r, c) ==
    /\ pc[r][c] = "answered"
    /\ cache' = [cache EXCEPT ![r][c] = env[r][c]]
    /\ current' = [current EXCEPT ![r] = @ \cup {c}]
    /\ file' = [file EXCEPT ![r][c] = env[r][c]]
    /\ pc' = [pc EXCEPT ![r][c] = "filed"]
    /\ UNCHANGED <<db, env, phase, start, rounds, calls, durable>>

\* Mutant of AppendToStore: the newest record replaces the row.
OverwriteStore(r, c) ==
    /\ pc[r][c] = "filed"
    /\ db' = [db EXCEPT ![c] = env[r][c]]
    /\ pc' = [pc EXCEPT ![r][c] = "done"]
    /\ UNCHANGED <<file, cache, current, env, phase, start, rounds, calls, durable>>

\* The rest of append, outside the lock: the store keeps a success it has.
AppendToStore(r, c) ==
    /\ pc[r][c] = "filed"
    /\ db' = IF Success(db[c]) /\ ~Success(env[r][c])
             THEN db ELSE [db EXCEPT ![c] = env[r][c]]
    /\ pc' = [pc EXCEPT ![r][c] = "done"]
    /\ UNCHANGED <<file, cache, current, env, phase, start, rounds, calls, durable>>

\* upsert_record raises.  The envelope is lost; the pool still waits for the
\* other threads, then the exception ends the run.
StoreFails(r, c) ==
    /\ pc[r][c] = "filed"
    /\ env' = [env EXCEPT ![r][c] = None]
    /\ pc' = [pc EXCEPT ![r][c] = "done"]
    /\ phase' = [phase EXCEPT ![r] = "failed"]
    /\ UNCHANGED <<db, file, cache, current, start, rounds, calls, durable>>

-------------------------------------------------------------------------------
(* Runs.                                                                     *)

AllDone(r) == \A c \in Contracts : pc[r][c] = "done"

\* _chunk_envelope_retryable
Retryable(r) ==
    {c \in Contracts : ~Success(env[r][c]) /\ env[r][c].status \notin NotRetryable}

\* Mutant of RetryRound: the attempts are not counted.
RetryForever(r) ==
    /\ phase[r] = "running" /\ AllDone(r)
    /\ rounds[r] > 0 /\ Retryable(r) # {}
    /\ pc' = [pc EXCEPT ![r] = [c \in Contracts |->
                 IF c \in Retryable(r) THEN "queued" ELSE "done"]]
    /\ UNCHANGED <<db, file, cache, current, env, phase, start, rounds, calls, durable>>

\* One iteration of _retry_failed_chunk_envelopes.
RetryRound(r) ==
    /\ phase[r] = "running" /\ AllDone(r)
    /\ rounds[r] > 0 /\ Retryable(r) # {}
    /\ rounds' = [rounds EXCEPT ![r] = @ - 1]
    /\ pc' = [pc EXCEPT ![r] = [c \in Contracts |->
                 IF c \in Retryable(r) THEN "queued" ELSE "done"]]
    /\ UNCHANGED <<db, file, cache, current, env, phase, start, calls, durable>>

\* Mutant of Finish: a run with failed chunks waits for them.
FinishComplete(r) ==
    /\ phase[r] = "running" /\ AllDone(r)
    /\ Retryable(r) = {}
    /\ phase' = [phase EXCEPT ![r] = "finished"]
    /\ UNCHANGED <<db, file, cache, current, pc, env, start, rounds, calls, durable>>

Finish(r) ==
    /\ phase[r] = "running" /\ AllDone(r)
    /\ rounds[r] = 0 \/ Retryable(r) = {}
    /\ phase' = [phase EXCEPT ![r] = "finished"]
    /\ UNCHANGED <<db, file, cache, current, pc, env, start, rounds, calls, durable>>

\* _provider_chunk_ledger_for_output_dir: the cache is what the file says last;
\* nothing is current yet.
StartRun(r) ==
    /\ phase[r] # "running" /\ AllDone(r) /\ start[r] < MaxStarts[r]
    /\ phase' = [phase EXCEPT ![r] = "running"]
    /\ start' = [start EXCEPT ![r] = @ + 1]
    /\ cache' = [cache EXCEPT ![r] = file[r]]
    /\ current' = [current EXCEPT ![r] = {}]
    /\ pc' = [pc EXCEPT ![r] = [c \in Contracts |-> "queued"]]
    /\ env' = [env EXCEPT ![r] = [c \in Contracts |-> None]]
    /\ rounds' = [rounds EXCEPT ![r] = Rounds]
    /\ calls' = [calls EXCEPT ![r] = [c \in Contracts |-> 0]]
    /\ durable' = [durable EXCEPT ![r] =
                      {c \in CrossRun : Success(db[c]) \/ Success(file[r][c])}]
    /\ UNCHANGED <<db, file>>

\* The process dies: memory and threads are gone, the file and the store stay.
Crash(r) ==
    /\ phase[r] = "running" \/ ~AllDone(r)
    /\ phase' = [phase EXCEPT ![r] = "down"]
    /\ pc' = [pc EXCEPT ![r] = [c \in Contracts |-> "done"]]
    /\ env' = [env EXCEPT ![r] = [c \in Contracts |-> None]]
    /\ cache' = [cache EXCEPT ![r] = [c \in Contracts |-> None]]
    /\ current' = [current EXCEPT ![r] = {}]
    /\ rounds' = [rounds EXCEPT ![r] = 0]
    /\ calls' = [calls EXCEPT ![r] = [c \in Contracts |-> 0]]
    /\ durable' = [durable EXCEPT ![r] = {}]
    /\ UNCHANGED <<db, file, start>>

Thread(r, c) ==
    \/ Lookup(r, c)
    \/ \E s \in Outcomes : Answer(r, c, s)
    \/ AppendToLedger(r, c)
    \/ AppendToStore(r, c)
    \/ StoreFails(r, c)

Next ==
    \E r \in Runs :
        \/ \E c \in Contracts : Thread(r, c)
        \/ RetryRound(r)
        \/ Finish(r)
        \/ StartRun(r)
        \/ Crash(r)

\* Threads run and provider calls end (every adapter has a timeout), of some run
\* at a time: nothing orders them.  Nothing makes a run start or crash.
Fairness ==
    WF_vars(\E r \in Runs : \/ \E c \in Contracts : Thread(r, c)
                            \/ RetryRound(r) \/ Finish(r))

Spec == Init /\ [][Next]_vars

FairSpec == Spec /\ Fairness
-------------------------------------------------------------------------------
(* Properties.                                                               *)

\* A contract whose reuse policy is default-deny is answered only by a call of
\* this very incarnation, whatever the file, the store and other runs hold.
OwnAnswersOnly ==
    \A r \in Runs : \A c \in Contracts \ CrossRun :
        env[r][c] # None => env[r][c].run = r /\ env[r][c].start = start[r]

\* After a crash only unfinished work is called again: a chunk that may be
\* reused and was a stored or filed success at the start is not called.
ResumesOnlyUnfinished ==
    \A r \in Runs : \A c \in durable[r] : calls[r][c] = 0

\* A run that reports success for a chunk it called has it in the store.
FinishedIsStored ==
    \A r \in Runs : \A c \in Contracts :
        phase[r] = "finished" /\ Success(env[r][c]) /\ calls[r][c] > 0
            /\ env[r][c].run = r /\ env[r][c].start = start[r]
            => Success(db[c])

\* What a run holds, calls and reports agrees with what was stored, whatever the other
\* runs, the crashes and the store errors were.
LedgerInv ==
    /\ TypeOK
    /\ OwnAnswersOnly
    /\ ResumesOnlyUnfinished
    /\ FinishedIsStored

\* A run ends with a retryable failure only after every round really called the
\* provider again.
NoSilentGiveUp ==
    \A r \in Runs : \A c \in Contracts :
        phase[r] = "finished" /\ c \in Retryable(r) => calls[r][c] = Rounds + 1

\* Runs sharing the store never take a success back (ChunkResult).
StoreKeepsItsPromise == Store!Spec

\* Every started run ends: it finishes, fails on the store, or crashes, so that
\* after the last start none is running.
RunsEnd == <>[](\A r \in Runs : phase[r] # "running")
===============================================================================
