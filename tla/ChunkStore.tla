------------------------------ MODULE ChunkStore ------------------------------
(***************************************************************************)
(* The PostgreSQL provider chunk store (storage/provider_chunk_runs.py):   *)
(* one row per (provider, execution contract), an attempts table written   *)
(* in the same transaction, and lease-based claims of retryable rows.      *)
(*                                                                         *)
(* A worker reaches a row by a claim (claim_retryable_records) or directly, *)
(* as run_multi_ai does for every chunk of its plan.  Both end in          *)
(* upsert_record.  A worker may crash between the two.                     *)
(*                                                                         *)
(* Time is kept as countdowns: retryIn is next_retry_at - now(), lease is  *)
(* what is left of the 15 minutes after locked_at.  A claim asks for one   *)
(* row, the default of `limit`.  Rows due by next_retry_at are taken in    *)
(* any order; NULLS FIRST and updated_at are kept.                         *)
(***************************************************************************)
EXTENDS Integers, FiniteSets

CONSTANTS
    Contracts,   \* execution contracts, the key of a row
    CrossRun,    \* the contracts whose reuse policy allows other runs
    Runners,     \* run_multi_ai chunk threads, which never claim
    Claimers,    \* workers of a scheduler, which only run what they claim
    Scope,       \* Scope[w]: the rows of the provider claimer w asks for
    Outcomes,    \* the execution statuses the providers answer with
    LeaseTicks,  \* length of a lease
    MaxDelay,    \* longest retry-after (86400 s in the code)
    Nobody,      \* no worker, no task
    Null         \* SQL NULL of next_retry_at

\* Rows with one of these statuses are never claimed.
ClaimExcluded == {"ok", "retry_exhausted", "safety_filter", "context_length"}

Status == ClaimExcluded \cup
    {"rate_limited", "timeout", "schema_invalid", "deterministic_parse_failure",
     "empty_response", "provider_error", "skipped_not_configured"}

Workers == Runners \cup Claimers

ASSUME StoreAssumption ==
    /\ CrossRun \subseteq Contracts
    /\ Runners \cap Claimers = {}
    /\ Scope \in [Claimers -> SUBSET Contracts]
    /\ Outcomes \subseteq Status
    /\ LeaseTicks \in Nat \ {0}
    /\ MaxDelay \in Nat
    /\ Nobody \notin Contracts /\ Nobody \notin Workers
    /\ Null \notin Nat

VARIABLES
    status,    \* status of each row, "absent" when there is none
    retryIn,   \* ticks to next_retry_at, or Null
    lease,     \* ticks before the row can be claimed again
    worker,    \* worker_id of each row
    older,     \* pairs of rows, the first with the older updated_at
    attempts,  \* the statuses in the attempts table
    last,      \* the status of the newest attempt
    task,      \* the contract each worker is running
    left       \* what a worker's own claim has left by its clock

vars == <<status, retryIn, lease, worker, older, attempts, last, task, left>>
rowVars == <<status, retryIn, lease, worker, older>>

TypeOK ==
    /\ status \in [Contracts -> Status \cup {"absent"}]
    /\ retryIn \in [Contracts -> (0 .. MaxDelay) \cup {Null}]
    /\ lease \in [Contracts -> 0 .. LeaseTicks]
    /\ worker \in [Contracts -> Workers \cup {Nobody}]
    /\ older \subseteq Contracts \X Contracts
    /\ attempts \in [Contracts -> SUBSET Status]
    /\ last \in [Contracts -> Status \cup {"absent"}]
    /\ task \in [Workers -> Contracts \cup {Nobody}]
    /\ left \in [Workers -> 0 .. LeaseTicks]

Init ==
    /\ status = [c \in Contracts |-> "absent"]
    /\ retryIn = [c \in Contracts |-> Null]
    /\ lease = [c \in Contracts |-> 0]
    /\ worker = [c \in Contracts |-> Nobody]
    /\ older = {}
    /\ attempts = [c \in Contracts |-> {}]
    /\ last = [c \in Contracts |-> "absent"]
    /\ task = [w \in Workers |-> Nobody]
    /\ left = [w \in Workers |-> 0]

-------------------------------------------------------------------------------
(* The row, its timestamps and the order of a claim.                         *)

\* Mutant of Touched: a claim or an upsert leaves updated_at alone.
TouchedNever(c) == older

\* updated_at = now(): c becomes the newest row.
Touched(c) ==
    {p \in older : p[1] # c /\ p[2] # c}
        \cup {<<d, c>> : d \in {e \in Contracts \ {c} : status[e] # "absent"}}

\* Mutant of NextRetry: the delay is stored one second too long.
NextRetryTooLate(s, delay) == IF s = "ok" \/ delay <= 0 THEN Null ELSE delay + 1

\* _next_retry_at_sql: an ok record and a record without retry-after are due.
NextRetry(s, delay) == IF s = "ok" \/ delay <= 0 THEN Null ELSE delay

\* Mutant of Claimable: the lease is not looked at.
ClaimableWhileLeased(c) ==
    /\ status[c] \notin ClaimExcluded \cup {"absent"}
    /\ retryIn[c] \in {Null, 0}

\* The WHERE of the claim.
Claimable(c) ==
    /\ status[c] \notin ClaimExcluded \cup {"absent"}
    /\ retryIn[c] \in {Null, 0}
    /\ lease[c] = 0

\* The ORDER BY of the claim.
Before(c, d) ==
    /\ retryIn[c] = Null
    /\ retryIn[d] = Null => <<c, d>> \in older

\* Mutant of Replaces: a plain upsert, the newest answer wins.
ReplacesAlways(s, c) == TRUE

\* The guard of the upsert's DO UPDATE.
Replaces(s, c) == status[c] # "ok" \/ s = "ok"
-------------------------------------------------------------------------------
(* Operations.                                                               *)

\* claim_retryable_records(limit=1): lock the first claimable row in scope.
Claim(w) ==
    /\ task[w] = Nobody
    /\ \E c \in Scope[w] :
        /\ Claimable(c)
        /\ \A d \in Scope[w] \ {c} : Claimable(d) => ~Before(d, c)
        /\ lease' = [lease EXCEPT ![c] = LeaseTicks]
        /\ worker' = [worker EXCEPT ![c] = w]
        /\ older' = Touched(c)
        /\ task' = [task EXCEPT ![w] = c]
        /\ left' = [left EXCEPT ![w] = LeaseTicks]
    /\ UNCHANGED <<status, retryIn, attempts, last>>

\* A run takes a chunk of its plan.  success_record is asked only for the
\* contracts that allow reuse across runs; no row is claimed.
TakeDirectly(w, c) ==
    /\ task[w] = Nobody
    /\ c \in CrossRun => status[c] # "ok"
    /\ task' = [task EXCEPT ![w] = c]
    /\ left' = [left EXCEPT ![w] = 0]
    /\ UNCHANGED <<status, retryIn, lease, worker, older, attempts, last>>

\* upsert_record: the guarded upsert and the attempt insert, one transaction.
\* The lease columns are not among the updated ones.
Upsert(w, s, delay) ==
    LET c == task[w] IN
    /\ c # Nobody
    /\ IF Replaces(s, c)
       THEN /\ status' = [status EXCEPT ![c] = s]
            /\ retryIn' = [retryIn EXCEPT ![c] = NextRetry(s, delay)]
            /\ older' = Touched(c)
       ELSE UNCHANGED <<status, retryIn, older>>
    /\ attempts' = [attempts EXCEPT ![c] = @ \cup {s}]
    /\ last' = [last EXCEPT ![c] = s]
    /\ task' = [task EXCEPT ![w] = Nobody]
    /\ left' = [left EXCEPT ![w] = 0]
    /\ UNCHANGED <<lease, worker>>

\* The process dies before the answer is written; the lease stays.
Crash(w) ==
    /\ task[w] # Nobody
    /\ task' = [task EXCEPT ![w] = Nobody]
    /\ left' = [left EXCEPT ![w] = 0]
    /\ UNCHANGED <<rowVars, attempts, last>>

Less(n) == IF n = 0 THEN 0 ELSE n - 1

\* The database clock.
Tick ==
    /\ lease' = [c \in Contracts |-> Less(lease[c])]
    /\ retryIn' = [c \in Contracts |->
                      IF retryIn[c] = Null THEN Null ELSE Less(retryIn[c])]
    /\ left' = [w \in Workers |-> Less(left[w])]
    /\ <<lease, retryIn>> # <<lease', retryIn'>>
    /\ UNCHANGED <<status, worker, older, attempts, last, task>>

Next ==
    \/ \E w \in Claimers : Claim(w)
    \/ \E w \in Runners, c \in Contracts : TakeDirectly(w, c)
    \/ \E w \in Workers :
        \/ \E s \in Outcomes, delay \in 0 .. MaxDelay : Upsert(w, s, delay)
        \/ Crash(w)
    \/ Tick

\* A scheduler keeps claiming, providers answer or time out (every adapter has
\* a request timeout), and the clock runs.  Nothing makes a direct run start.
Fairness ==
    /\ WF_vars(\E w \in Claimers : Claim(w))
    /\ \A w \in Workers :
        WF_vars(\E s \in Outcomes, delay \in 0 .. MaxDelay : Upsert(w, s, delay))
    /\ WF_vars(Tick)

Spec == Init /\ [][Next]_vars

FairSpec == Spec /\ Fairness
-------------------------------------------------------------------------------
(* Properties.                                                               *)

\* The row can be rebuilt from the attempts table: a row exists when an attempt
\* does, it is ok when any attempt was, and otherwise it is the newest attempt
\* (the upsert and the insert of upsert_record commit together).
RowReflectsAttempts ==
    \A c \in Contracts :
        status[c] = IF "ok" \in attempts[c] THEN "ok" ELSE last[c]

\* At any time at most one worker runs a contract under a claim that has not
\* run out, crashes, late answers and runs that bypass the claim included.
LeasesExclusive ==
    \A v, w \in Workers :
        v # w /\ task[v] # Nobody /\ task[v] = task[w]
            => left[v] = 0 \/ left[w] = 0

Result ==
    [c \in Contracts |-> IF status[c] = "absent" THEN "none"
                         ELSE IF status[c] = "ok" THEN "ok" ELSE "failed"]

Abstract == INSTANCE ChunkResult WITH result <- Result

\* However claims, direct runs, crashes and late answers interleave, a stored
\* success is never replaced by a failure (the WHERE of the upsert).
SuccessIsFinal == Abstract!Spec

\* A row that waits for no retry-after is run again in the end, also when its
\* last worker died or failed under the lease (NULLS FIRST, updated_at).
ReadyRowIsServed ==
    \A c \in Contracts :
        Claimable(c) /\ retryIn[c] = Null ~> \E w \in Workers : task[w] = c
===============================================================================
