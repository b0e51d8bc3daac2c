------------------------------- MODULE FastReview -------------------------------
(***************************************************************************)
(* The public fast review (routes/api_routes.py): requests handled by      *)
(* threads of one or more service instances.  A request checks the disable *)
(* state of the budget guard (cached per instance), writes its status,     *)
(* waits for the instance's lock, is served from the instance's result     *)
(* cache or takes quota from the shared records and runs live.  The budget *)
(* guard's notification writes the shared disable state.                   *)
(*                                                                         *)
(* One variant of the review and one quota day are modelled, and a status  *)
(* write does not fail.                                                    *)
(***************************************************************************)
EXTENDS Integers, FiniteSets

CONSTANTS
    Instances,     \* service instances
    Requests,      \* the requests ever made
    Clients,       \* client quota keys
    Runs,          \* run ids
    InstanceOf,    \* the instance a request reaches
    ClientOf,      \* who makes it
    RunOf,         \* its run id, which a client may choose
    Forced,        \* requests with force
    Owners,        \* requests with the owner's token
    DailyLimit,
    ClientLimit,
    CacheTtl,      \* OES_PUBLIC_FAST_GCP_REVIEW_CACHE_SECONDS
    DisableTtl,    \* OES_PUBLIC_FAST_GCP_REVIEW_DISABLE_CACHE_SECONDS
    MaxClock,      \* bound of the clock
    Faulty,        \* whether the quota and disable storage may fail
    None

ASSUME FastReviewAssumption ==
    /\ InstanceOf \in [Requests -> Instances]
    /\ ClientOf \in [Requests -> Clients]
    /\ RunOf \in [Requests -> Runs]
    /\ Forced \subseteq Requests /\ Owners \subseteq Requests
    /\ DailyLimit \in Nat /\ ClientLimit \in Nat
    /\ CacheTtl \in Nat /\ DisableTtl \in Nat \ {0}
    /\ MaxClock \in Nat /\ Faulty \in BOOLEAN
    /\ None \notin Nat \cup Requests

VARIABLES
    clock,       \* time.monotonic()
    pc,          \* where each request is
    checkedAt,   \* when a request asked for the disable state
    seen,        \* what it read of it from the storage
    status,      \* stored status of each run
    lock,        \* _FAST_GCP_REVIEW_LOCK of each instance
    cache,       \* when the instance's cached result was stored
    total,       \* the day's quota record
    client,      \* the clients' quota records
    readTotal,   \* the counts a request has read
    readClient,
    live,        \* requests that were allowed to run live
    unread,      \* requests for which the quota could not be read
    guard,       \* the budget guard's progress on each instance
    disabledAt,  \* when the disable state was stored
    disable,     \* _FAST_GCP_REVIEW_DISABLE_CACHE of each instance
    misreads     \* when requests asked whose read failed, of each instance (history)

quota == <<total, client, readTotal, readClient>>
vars == <<clock, pc, checkedAt, seen, status, lock, cache, quota, live, unread,
          guard, disabledAt, disable, misreads>>

Times == 0 .. MaxClock
Settled == {"succeeded", "failed"}

TypeOK ==
    /\ clock \in Times
    /\ pc \in [Requests -> {"new", "reading", "read", "admitted", "waiting", "charging",
                            "totalling", "clienting", "running", "caching", "ended"}]
    /\ checkedAt \in [Requests -> Times \cup {None}]
    /\ seen \in [Requests -> BOOLEAN]
    /\ status \in [Runs -> Settled \cup {"none", "running"}]
    /\ lock \in [Instances -> Requests \cup {None}]
    /\ cache \in [Instances -> Times \cup {None}]
    /\ total \in 0 .. DailyLimit
    /\ client \in [Clients -> 0 .. ClientLimit]
    /\ readTotal \in [Requests -> 0 .. DailyLimit]
    /\ readClient \in [Requests -> 0 .. ClientLimit]
    /\ live \subseteq Requests
    /\ unread \subseteq Requests
    /\ guard \in [Instances -> {"idle", "stored", "done"}]
    /\ disabledAt \in Times \cup {None}
    /\ disable \in [Instances -> [at : Times, off : BOOLEAN] \cup {None}]
    /\ misreads \in [Instances -> SUBSET Times]

Init ==
    /\ clock = 0
    /\ pc = [r \in Requests |-> "new"]
    /\ checkedAt = [r \in Requests |-> None]
    /\ seen = [r \in Requests |-> FALSE]
    /\ status = [u \in Runs |-> "none"]
    /\ lock = [i \in Instances |-> None]
    /\ cache = [i \in Instances |-> None]
    /\ total = 0
    /\ client = [k \in Clients |-> 0]
    /\ readTotal = [r \in Requests |-> 0]
    /\ readClient = [r \in Requests |-> 0]
    /\ live = {}
    /\ unread = {}
    /\ guard = [i \in Instances |-> "idle"]
    /\ disabledAt = None
    /\ disable = [i \in Instances |-> None]
    /\ misreads = [i \in Instances |-> {}]

Goto(r, from, to) == pc[r] = from /\ pc' = [pc EXCEPT ![r] = to]
Record(r, s) == status' = [status EXCEPT ![RunOf[r]] = s]
ReleaseLock(r) == lock' = [lock EXCEPT ![InstanceOf[r]] = None]

-------------------------------------------------------------------------------
(* The budget guard and the disable state.                                   *)

\* budget_guard_fast_gcp_review with a notification over the threshold: the
\* stored state first,
Disable(i) ==
    /\ guard[i] = "idle"
    /\ guard' = [guard EXCEPT ![i] = "stored"]
    /\ disabledAt' = IF disabledAt = None THEN clock ELSE disabledAt
    /\ UNCHANGED <<clock, pc, checkedAt, seen, status, lock, cache, quota, live, unread,
                   disable, misreads>>

\* then the instance's copy.
Publish(i) ==
    /\ guard[i] = "stored"
    /\ guard' = [guard EXCEPT ![i] = "done"]
    /\ disable' = [disable EXCEPT ![i] = [at |-> clock, off |-> TRUE]]
    /\ UNCHANGED <<clock, pc, checkedAt, seen, status, lock, cache, quota, live, unread,
                   disabledAt, misreads>>

DisableFresh(i) == disable[i] # None /\ clock - disable[i].at < DisableTtl

\* _raise_if_public_fast_gcp_review_disabled: a refusal is recorded as failed.
Decide(r, off) ==
    IF off THEN pc' = [pc EXCEPT ![r] = "ended"] /\ Record(r, "failed")
    ELSE pc' = [pc EXCEPT ![r] = "admitted"] /\ UNCHANGED status

\* The time is taken before the stored state is read.
AskDisable(r) ==
    /\ pc[r] = "new"
    /\ checkedAt' = [checkedAt EXCEPT ![r] = clock]
    /\ IF DisableFresh(InstanceOf[r]) THEN Decide(r, disable[InstanceOf[r]].off)
       ELSE pc' = [pc EXCEPT ![r] = "reading"] /\ UNCHANGED status
    /\ UNCHANGED <<clock, seen, lock, cache, quota, live, unread, guard, disabledAt,
                   disable, misreads>>

ReadDisable(r) ==
    /\ Goto(r, "reading", "read")
    /\ seen' = [seen EXCEPT ![r] = disabledAt # None]
    /\ UNCHANGED <<clock, checkedAt, status, lock, cache, quota, live, unread, guard,
                   disabledAt, disable, misreads>>

\* A stored state that cannot be read is taken for none: not disabled.
ReadDisableFails(r) ==
    /\ Faulty /\ disabledAt # None
    /\ Goto(r, "reading", "read")
    /\ seen' = [seen EXCEPT ![r] = FALSE]
    /\ misreads' = [misreads EXCEPT ![InstanceOf[r]] = @ \cup {checkedAt[r]}]
    /\ UNCHANGED <<clock, checkedAt, status, lock, cache, quota, live, unread, guard,
                   disabledAt, disable>>

\* Mutant of KeepDisable: the copy is stamped when it is stored.
KeepDisableStampedLate(r) ==
    /\ pc[r] = "read"
    /\ disable' = [disable EXCEPT ![InstanceOf[r]] = [at |-> clock, off |-> seen[r]]]
    /\ Decide(r, seen[r])
    /\ UNCHANGED <<clock, checkedAt, seen, lock, cache, quota, live, unread, guard,
                   disabledAt, misreads>>

\* What was read becomes the instance's copy, whatever was published meanwhile.
KeepDisable(r) ==
    /\ pc[r] = "read"
    /\ disable' = [disable EXCEPT ![InstanceOf[r]] = [at |-> checkedAt[r], off |-> seen[r]]]
    /\ Decide(r, seen[r])
    /\ UNCHANGED <<clock, checkedAt, seen, lock, cache, quota, live, unread, guard,
                   disabledAt, misreads>>

-------------------------------------------------------------------------------
(* The review.                                                               *)

Accept(r) ==
    /\ Goto(r, "admitted", "waiting")
    /\ Record(r, "running")
    /\ UNCHANGED <<clock, checkedAt, seen, lock, cache, quota, live, unread, guard,
                   disabledAt, disable, misreads>>

CacheFresh(i) == cache[i] # None /\ clock - cache[i] < CacheTtl
Hit(r) == r \notin Forced /\ CacheFresh(InstanceOf[r])

\* Mutant of Enter: the lock is not waited for.
EnterUnlocked(r) ==
    /\ pc[r] = "waiting"
    /\ IF Hit(r) THEN pc' = [pc EXCEPT ![r] = "ended"] /\ Record(r, "succeeded")
       ELSE pc' = [pc EXCEPT ![r] = "charging"] /\ UNCHANGED status
    /\ UNCHANGED <<clock, checkedAt, seen, lock, cache, quota, live, unread, guard,
                   disabledAt, disable, misreads>>

\* Under the lock: served from the cache, or on to the quota, which an owner
\* passes.
Enter(r) ==
    /\ pc[r] = "waiting" /\ lock[InstanceOf[r]] = None
    /\ IF Hit(r)
       THEN /\ pc' = [pc EXCEPT ![r] = "ended"] /\ Record(r, "succeeded")
            /\ UNCHANGED <<lock, live>>
       ELSE /\ lock' = [lock EXCEPT ![InstanceOf[r]] = r]
            /\ IF r \in Owners
               THEN /\ pc' = [pc EXCEPT ![r] = "running"] /\ Record(r, "running")
                    /\ live' = live \cup {r}
               ELSE pc' = [pc EXCEPT ![r] = "charging"] /\ UNCHANGED <<status, live>>
    /\ UNCHANGED <<clock, checkedAt, seen, cache, quota, unread, guard, disabledAt,
                   disable, misreads>>

\* Mutant of Fail: the lock is kept.
FailLocked(r) == pc' = [pc EXCEPT ![r] = "ended"] /\ Record(r, "failed") /\ UNCHANGED lock

\* A refusal or a failure inside the lock: recorded, then raised.
Fail(r) == pc' = [pc EXCEPT ![r] = "ended"] /\ Record(r, "failed") /\ ReleaseLock(r)

\* Mutant of ReadQuota: the limits are passed by one.
ReadQuotaPastLimit(r) ==
    /\ pc[r] = "charging"
    /\ readTotal' = [readTotal EXCEPT ![r] = total]
    /\ readClient' = [readClient EXCEPT ![r] = client[ClientOf[r]]]
    /\ IF total > DailyLimit \/ client[ClientOf[r]] > ClientLimit THEN Fail(r)
       ELSE pc' = [pc EXCEPT ![r] = "totalling"] /\ UNCHANGED <<status, lock>>
    /\ UNCHANGED <<clock, checkedAt, seen, cache, total, client, live, unread, guard,
                   disabledAt, disable, misreads>>

\* Mutant of ReadQuota: a refusal is raised but not recorded.
ReadQuotaSilent(r) ==
    /\ pc[r] = "charging"
    /\ readTotal' = [readTotal EXCEPT ![r] = total]
    /\ readClient' = [readClient EXCEPT ![r] = client[ClientOf[r]]]
    /\ IF total >= DailyLimit \/ client[ClientOf[r]] >= ClientLimit
       THEN pc' = [pc EXCEPT ![r] = "ended"] /\ ReleaseLock(r)
       ELSE pc' = [pc EXCEPT ![r] = "totalling"] /\ UNCHANGED lock
    /\ UNCHANGED <<clock, checkedAt, seen, status, cache, total, client, live, unread,
                   guard, disabledAt, disable, misreads>>

ReadQuota(r) ==
    /\ pc[r] = "charging"
    /\ readTotal' = [readTotal EXCEPT ![r] = total]
    /\ readClient' = [readClient EXCEPT ![r] = client[ClientOf[r]]]
    /\ IF total >= DailyLimit \/ client[ClientOf[r]] >= ClientLimit THEN Fail(r)
       ELSE pc' = [pc EXCEPT ![r] = "totalling"] /\ UNCHANGED <<status, lock>>
    /\ UNCHANGED <<clock, checkedAt, seen, cache, total, client, live, unread, guard,
                   disabledAt, disable, misreads>>

\* A record that cannot be read raises a RuntimeError, which the handler does not
\* catch: no status is recorded.
QuotaUnreadable(r) ==
    /\ Faulty /\ Goto(r, "charging", "ended")
    /\ unread' = unread \cup {r}
    /\ ReleaseLock(r)
    /\ UNCHANGED <<clock, checkedAt, seen, status, cache, quota, live, guard,
                   disabledAt, disable, misreads>>

WriteTotal(r) ==
    /\ Goto(r, "totalling", "clienting")
    /\ total' = readTotal[r] + 1
    /\ UNCHANGED <<clock, checkedAt, seen, status, lock, cache, client, readTotal,
                   readClient, live, unread, guard, disabledAt, disable, misreads>>

WriteClient(r) ==
    /\ Goto(r, "clienting", "running")
    /\ client' = [client EXCEPT ![ClientOf[r]] = readClient[r] + 1]
    /\ live' = live \cup {r}
    /\ Record(r, "running")
    /\ UNCHANGED <<clock, checkedAt, seen, lock, cache, total, readTotal, readClient,
                   unread, guard, disabledAt, disable, misreads>>

\* Either write may fail; the total already written stays.
QuotaUnwritable(r) ==
    /\ Faulty /\ pc[r] \in {"totalling", "clienting"}
    /\ Fail(r)
    /\ UNCHANGED <<clock, checkedAt, seen, cache, quota, live, unread, guard,
                   disabledAt, disable, misreads>>

Succeed(r) ==
    /\ Goto(r, "running", "caching")
    /\ Record(r, "succeeded")
    /\ UNCHANGED <<clock, checkedAt, seen, lock, cache, quota, live, unread, guard,
                   disabledAt, disable, misreads>>

RunFails(r) ==
    /\ pc[r] = "running"
    /\ Fail(r)
    /\ UNCHANGED <<clock, checkedAt, seen, cache, quota, live, unread, guard,
                   disabledAt, disable, misreads>>

StoreResult(r) ==
    /\ Goto(r, "caching", "ended")
    /\ cache' = IF CacheTtl > 0 THEN [cache EXCEPT ![InstanceOf[r]] = clock] ELSE cache
    /\ ReleaseLock(r)
    /\ UNCHANGED <<clock, checkedAt, seen, status, quota, live, unread, guard,
                   disabledAt, disable, misreads>>

Tick ==
    /\ clock < MaxClock
    /\ clock' = clock + 1
    /\ UNCHANGED <<pc, checkedAt, seen, status, lock, cache, quota, live, unread, guard,
                   disabledAt, disable, misreads>>

Handle(r) ==
    \/ AskDisable(r) \/ ReadDisable(r) \/ ReadDisableFails(r) \/ KeepDisable(r)
    \/ Accept(r) \/ Enter(r)
    \/ ReadQuota(r) \/ QuotaUnreadable(r)
    \/ WriteTotal(r) \/ WriteClient(r) \/ QuotaUnwritable(r)
    \/ Succeed(r) \/ RunFails(r) \/ StoreResult(r)

Ended == (\A r \in Requests : pc[r] = "ended") /\ UNCHANGED vars

Next ==
    \/ \E r \in Requests : Handle(r)
    \/ \E i \in Instances : Disable(i) \/ Publish(i)
    \/ Tick
    \/ Ended

Spec == Init /\ [][Next]_vars

\* While some begun request can go on, one does: provider calls return, and the
\* lock promises no order to the threads that wait for it.
FairSpec ==
    Spec /\ WF_vars(\E r \in Requests : pc[r] # "new" /\ Handle(r))

-------------------------------------------------------------------------------
(* Properties.                                                               *)

\* With one instance, every live run that is not an owner's is in the day's record
\* and in its client's, so the limits bound the runs, whatever the order of the
\* requests and with one of the two writes failing.
RunsAreCounted ==
    LET paid == live \ Owners IN
    /\ Cardinality(paid) <= total
    /\ \A k \in Clients : Cardinality({r \in paid : ClientOf[r] = k}) <= client[k]

\* From DisableTtl after the budget guard stored its decision, an instance admits a
\* request that asks only if a read of the decision failed on it, the request's own or
\* another one's less than DisableTtl before, whatever copies of the state replace
\* each other: each copy, wrong or late, deceives for one lifetime and no longer.
DisableIsHeeded ==
    \A r \in Requests :
        disabledAt # None /\ pc[r] \in {"admitted", "waiting", "charging", "running"}
            => \/ checkedAt[r] < disabledAt + DisableTtl
               \/ \E t \in misreads[InstanceOf[r]] :
                     t <= checkedAt[r] /\ checkedAt[r] < t + DisableTtl

\* No live run starts, unless forced, while its instance holds a fresh result.
FreshResultIsServed ==
    [][\A r \in Requests \ Forced :
           pc[r] # "running" /\ pc'[r] = "running" => ~ CacheFresh(InstanceOf[r])]_vars

\* When all the requests of a run have ended its status says so, except after a
\* quota record that could not be read.
StatusSettles ==
    \A u \in Runs :
        LET of == {r \in Requests : RunOf[r] = u} IN
        of # {} /\ (\A r \in of : pc[r] = "ended" /\ r \notin unread)
            => status[u] \in Settled

\* The quota records keep to their limits, and the status of a run whose requests have
\* all ended is settled.
FastReviewInv ==
    /\ TypeOK
    /\ StatusSettles

\* Every request that was begun ends: as requests are finitely many, there are always
\* times to come at which none is under way.
RequestsEnd == []<>(\A r \in Requests : pc[r] \in {"new", "ended"})
===============================================================================
