# Ops Evidence Synthesis: a verification project

TLA+ models of the stateful core of `ops_evidence_synthesis`, the TLC runs that
check them and the TLAPS proofs about them. Paths below are relative to
`src/src/ops_evidence_synthesis/` unless they begin with `src/`.

## The system

A bundle of sanitized log evidence is cut into chunks, each chunk is sent to several
model providers, the answers are validated against the evidence they cite, merged,
and arbitrated into one canonical review graph. The graph's targets are put before
a human, who accepts, rejects or asks for more data; no provider may decide.

```
  GCS flow script --profile page--> human --approved profile--> chunked review job
      (ReviewFlow: script, page, job)                                  |
  cloud workflow --stage routes--> handlers on shared tables           |
      (StagePipeline)                       |                          |
                                            v                          v
  public fast review endpoint ------>  run_multi_ai ----events----> pipeline_progress
  guard, lock, cache, quota                 |                       polled by the page
      (FastReview)                          |                       (PipelineProgress)
                                            |  chunks of the bundle (ChunkPlan)
                                            |  pool, pacer, retries, split (ChunkScheduler)
                                            |  look up / append     (ChunkLedger)
                                            v
  provider_chunk_runs  <---- claim_retryable_records by schedulers  (ChunkStore)
                                            |
                  claims -> groups -> candidates -> gates           (Promotion)
                                            |
  canonical_review_graphs -> review_targets <- human decisions      (ReviewGate)
                                            ^
  refresh and remote collection of a target, child bundles          (MoreData)
```

### Inventory

| Component (source) | State | Operations | What is hard | What makes it correct |
|---|---|---|---|---|
| Chunk store (`storage/provider_chunk_runs.py`) | a row per provider and execution contract, attempts, lease, retry time | `claim_retryable_records`, `success_record`, `upsert_record` | leases without fencing, late answers, dead workers | a success is final; one unexpired claim a row; ready rows are served |
| Chunk ledger (`synthesis/multi_ai.py`) | cache, JSONL file, store | look-up, append, upsert, retry rounds, resume | crash between file and store, several runs on one store, reuse policy | no reuse that the contract denies; nothing stored is called again; retries are real |
| Chunk scheduler (`synthesis/multi_ai.py`) | thread pools, pacer, retry round, split pieces | first pass, pacing, retry, split, two merges | nested pools, a lock held while sleeping, partial failure | paced starts, refused evidence is not sent again, an ok rests on evidence, no deadlock |
| Chunk planning (`synthesis/multi_ai.py`) | none | buckets, greedy packing, merging of neighbours, adaptive split | sizes at the limits, items larger than a chunk | a partition of the evidence within the limits |
| Fast review (`routes/api_routes.py`) | lock, result cache, quota records, run status, budget guard and its copies | the request handler, the guard's notification | waiting threads, stale copies, storage that fails halfway | quota bounds the runs, the guard bites within its cache time, requests end |
| Progress (`pipeline_progress.py`, its two writers, SQLite or BigQuery) | events, run snapshot, what the page shows | record, project, finish, poll | two writes a step, exceptions and crashes between them; snapshots told apart by the second | the snapshot can be rebuilt from the events; no false success |
| Arbitration (`synthesis/multi_ai.py`, `output_ingest.py`, `review_arbitration.py`) | none | grouping of claims, merge of candidates, score and its caps, class | several providers and legacy targets meet in one unit | a primary candidate is agreed, cited, unopposed, and shows impact or two families |
| Review gate (`synthesis/review_arbitration.py`, `storage/sqlite_store.py`, routes) | graph snapshots, groups, target rows, reviews | resolve with persist flags, decide | two-transaction saves, rows deleted and refilled under a decision | verdicts are human; answers about persistence are true; projections can be repaired |
| More-data loop (`routes/api_routes.py`, `storage/sqlite_store.py`, `collectors/remote.py`) | child bundles, review history, status of propositions | decide, refresh, remote collect, record result | a result that races a decision, a target found only through the newest bundle | a result has its child; target and propositions agree |
| Cloud workflow (`src/gcp/workflows`, stage routes) | executions, handlers, the tables of the bundle | create, Gemini, alternatives, validate, route, score, compare, refresh | calls given up that go on, retries that store again, generations told by the second | a finished execution shows its own runs; nothing shown is half written |
| GCS review flow and chunked job (`src/scripts/gcs_review_flow.py`, `gcp/chunked_review_job.py`) | run directories, drafts, the shared page, approved profiles, inputs, published objects | profile, publish the page, confirm, skip, resume, freeze, upload, run, publish | two flows over the same page and the same review; resume on a directory that moved on | a job runs on what was approved for it; no job sees profile and source together |
| Profile review (`profile_review.py`, its page script) | form, preview, confirmation, local storage | normalise, preview, approve, validate | answers out of order, edits that race a preview, a restored form | what is approved was on the page when it was confirmed |
| Provider clients (`ai/`) | none across calls | call with retries | a timeout that races the answer | bounded attempts (planned) |
| Citation validation, planner, signals (`synthesis/*`, `evidence_*`) | none | functions of text | wording | not modelled, or an outcome in the models |
| Bundles, sanitizer, source context, window policy | none | sequential transformations | patterns of text | not modelled: no control to speak of |
| BigQuery store (`gcp/bigquery.py`) | the same tables in a service | the same operations | appended rows, the streaming buffer, no transactions | the progress of a run is modelled, the rest is not: see the end |
| Other routes and the rate limit (`routes/api_routes.py`) | counters by address | validation, rendering, counting | | counts on the event loop (227-233), one request at a time |
| Pages, CLI, ADK agent, Terraform, scripts | none of their own | rendering, parsing, declarations | | not modelled; their limits are the constants of the models |

Components meet in three ways: calls inside one process (scheduler, ledger), shared
storage between processes (store, quota, tables of a bundle, snapshots, objects of the
bucket), and polling (the page). `PROJECT.json` lists every component with its status and
every hazard at its line.

## The modules

**ChunkResult** is the abstract specification of the store: one result per contract,
a failure may be replaced by anything, a success only by a success.

**ChunkStore** is the PostgreSQL store. `Claim` is the claim query (status, lease,
`next_retry_at`, `NULLS FIRST`, `updated_at`), `TakeDirectly` a thread of
`run_multi_ai`, which never claims, `Upsert` the insert of the attempt and the guarded
upsert in one transaction, `Crash` the end of a worker. Time is two countdowns a row.
A claim takes one row (the default `limit`). `SuccessIsFinal` says that it implements
`ChunkResult`.

**ChunkLedger** is the ledger of `run_multi_ai` over that promise: `db` is the store,
through which it instantiates `ChunkResult` again; `file` and `cache` are the JSONL and
the dictionary of a run. A run may crash anywhere and start again on its directory. The plan
has more than one chunk (`LedgerAssumption`): a single one is called once, outside of the retry
rounds.

**ChunkScheduler** is one provider's share of a run. A piece `<<c, 0>>` is a chunk and
`<<c, i>>` its `i`-th subchunk; `Cuts` says how many a chunk is split into, any number but one,
and the nested pool of a split chunk is as wide as their number and the setting allow. The
pacer's `wait` is `Acquire`, a sleep with the lock held, and `Start`; `note_result` takes the
same lock. Subchunk payloads that are valid are assumed to merge into a valid one.

**ChunkPlan** is how a bundle becomes chunks: `SemanticBuckets`, `Greedy`, `Pack`, the
slices without a token budget, and the pieces of an adaptive retry. A loop of the code is a
recursive function of its rounds (`AddPart` and `AddItem` are one round). `PlanKeepsLimits` and
`SplitShrinks` speak of every bundle within the bounds. What gives an item its bucket and how
tokens are estimated is data.

**ChunkSending** joins the two: with the run's bundle, budget and merge setting as constants, the
scheduler's chunks are those of `SentPlan`, cut as `Subplan` says (`SendingAssumption`), and
`Evidence` is the set of items of a piece: a chunk, or one of its subchunks. `SentAsPlanned` asks of
what is called and split that it was planned soundly, that no item is in two calls at once
(`CallsDisjoint`) and that after a split some but not all of the chunk is sent
(`PiecesPartial`); `OkCoversEvidence` that a chunk said to be ok was answered item by item, and
so was the bundle when all are.

**FastReview** is the public endpoint, one disjunct of `Handle` per step between which
another thread can run. One variant and one quota day are modelled, and status writes
succeed. Publishing of the guard's state may be late or not happen at all, which is how the
copies of other instances look to this one. A read of the state may fail: it then counts as
not disabled and is kept like any other; `misreads` remembers when that happened to a
decision that was stored.

**PipelineProgress** is the log of one run, written by the script of either `run_multi_ai`
or the synthesis pipeline; `operation` says which. Recording an event and projecting it
into the snapshot are two steps, work and writes may raise, and the page reads the
snapshot first and the events after. SQLite replaces the row of a run; BigQuery appends one,
under the key run and second, and readers take the latest second. `rows` is what a read may
get: one snapshot, or any of those of the latest second; `tie` and `shared` record that it
happened, which it never does on SQLite. `blind` is a finish that could not list the events.

**Promotion** computes the class of one review unit from claims and legacy targets:
`ClaimGroups`, agreement and disagreement, the candidates of a unit, their merge with the
convergence bonus, and the promotion gates with their score caps, in thousandths.
`BothSupport`, `Unopposed` and `PrimaryIsEarned` restate what a primary candidate needs in
terms of the claims and not of the candidates computed from them. `Valid` are the claims of
the groups that count: an unknown reference, or support that cites nothing, takes its whole
group out of review. The operators were also compared with the code: a sample of 3000 of the
run's inputs, put through `synthesize_multi_ai` and `arbitrate_review_targets`, gave the same
class every time.

**ReviewGate** is everything between an arbitrated graph and a human decision on its
targets, in SQLite. A graph stands for its input fingerprint. Each transaction is a
step: read the latest snapshot, look for the same one, insert, replace the groups,
delete the rows, fill them; look a target up, look again, commit the decision. Timestamps
are whole seconds, as `utc_now` makes them, and ties go by the hash in the id, `Rank`.
`alone` is an auxiliary field of a request: no other resolve has overlapped it.
`StoredReview` composes it with Promotion: any input is what the graphs were arbitrated
from, and `StoredIsEarned` asks of the stored graphs what `PrimaryIsEarned` asks of a unit.

**MoreData** is the loop of one incident: a decision, a refresh that builds a child bundle and
reruns the models, a remote collection, and the older route for a proposition. A child is its
content (target, status seen, data), as bundles are content addressed; `bundles` is the set of
them, and `newest` the one through which the incident's targets are looked up, so that after a
child is stored the parent's targets are no longer found unless they have a stored row. A
decision is one transaction for the review and the row and one for each proposition. `torn`
collects targets on which writers overlapped or broke off, until one whole decision has repaired
them. The steps of a run are places of its job, its events and its end among them (`Started`,
`Report`, `Finish`, `Answer`, `Fail`), and an exception may come from each: what records the
result swallows it (`NotRecorded`), the first event of a decision or a collection and the writes
of the except branch are outside any try and leave the run running (`Unguarded`), and everything
else fails the run, the event and the end that follow a recorded result included. `raised` is
the place that raised last.

**StagePipeline** is the cloud workflow with the stage routes behind it. An execution
sends calls, a call is a handler with its store transactions in order, and a call that
was given up goes on in its handler while the workflow retries or moves on. Results are
numbers; a proposition, target or graph is the set of results it rests on, so that a
property can ask what a graph took into account. Generations of a bundle are told apart
by `created_at` in whole seconds, as in the code; the claims of a result have one too, that
of the routing that stored them last. `Decide` is a human decision on propositions, on target
rows, or on both, whole or broken off: what it closes (`closed`, and `openRows` for the rows that
stay open) leaves the list of pending targets, from which a graph is given its targets. A
cache entry keeps beside its targets which executions had routed when they were read. `alone`,
`routed`, `fresh`, `onceClosed` and `overtaken` (results whose claims an older routing has stored
again) are auxiliary.

**ReviewFlow** composes the flow script, the profile page with its own script in the
browser, the profile review routes, and the chunked job. Two flows of one source share the
page (named after the source) and the published review (named after the evidence), while
run directories are their own. A profile is the number of its draft, and a hash is what it
is a hash of, so that "approved for this draft" and "confirmed on this patch" can be
compared. Files may be torn by a crash where the code writes them in place; properties
about a directory leave torn ones out, since a torn profile binds nothing (see below).

The `MC*` modules hold values for the constants. The `*Proofs` modules hold the theorems.
Operators introduced by "Mutant:" are plausible mistakes in the code; each one breaks the
property that `PROJECT.json` pairs it with, which shows that the property is about
the code and not about the shape of the model.

## What TLC checks

| Run | Bounds | What it shows |
|---|---|---|
| `chunk_store` | 2 contracts, one reusable across runs; 1 run thread, 2 claimers; 3 statuses; lease 1 tick, delay up to 1 | row and attempts agree, claims exclude each other, refinement of ChunkResult, ready rows are served |
| `chunk_ledger` | 2 contracts, 2 runs, one of them started twice; 1 retry round | reuse policy, resume, store and file, retries, the store's promise; a started run ends |
| `scheduler_safety` | 2 chunks, one cut in 3 when it fails and one that cannot be cut; 2 workers, 2 rounds, interval 1, cooldown 2; a bundle of 4 items in 2 interleaved buckets; plans of bundles of up to 4 items | pacing, retry policy, evidence behind an ok, item by item; no item is in two calls; what is sent is planned soundly |
| `scheduler_nested` | 2 chunks that are both cut in 3; 2 workers, 1 round, interval 1 | two nested pools of two threads beside each other contend for the pacer's lock: calls stay within the product of the pools, no pool waits for ever |
| `fast_review` | 1 instance, 3 requests (one forced), 2 clients, limits 2 and 1, storage and reads that fail, 2 instants, copies that live for one | quota, status, cache; the guard is heeded but for a copy's lifetime, of an old copy or of a failed read; requests end |
| `progress` | 2 providers, either operation, a crash and exceptions anywhere, up to 2 snapshots in the second of the one before, polls at any time | snapshot, display, failures |
| `review_gate` | 3 graphs (two share a target, one has none), 2 targets, 2 resolver threads, 3 resolves, 1 reviewer, 1 failure or crash, 2 seconds; up to 3 claims of 3 providers, up to 1 legacy target | verdicts, snapshots, repair of the rows, what a stored primary candidate rests on |
| `review_served` | 1 resolver, 3 graphs, no failure | a disagreement, see below |
| `more_data` | 1 target of 2 propositions, 2 threads, 3 requests, 1 batch of data, 1 exception or crash, 2 with a single request | results and their children, propositions follow their target; a failed refresh has no result unless its last event or its end failed, a run is left running only by a write outside any try; runs end, unless their process dies or such a write raises, the except branch's own included |
| `more_data_linked` | 1 target, 2 requests, no failure | a disagreement, see below |
| `stage_pipeline` | 1 execution, 1 alternative provider, 1 retry, 2 seconds, 1 failure or given-up call (2 within the first second), or 1 call of another client, or 1 human decision | what the graph of a finished execution rests on, nothing half written is shown; executions end |
| `review_flow` | 2 flows, 2 patches, 3 starts, 2 drafts, 2 reviews, 1 change of the source, 1 request of the page (2 in histories without jobs, changes and a third start) and 1 download | what is approved was confirmed, with answers out of order; on which profile a job runs, what its record says, what is published |

Invariants that belong together are one conjunction per run, its parts defined and commented on
their own: `LedgerInv` (`OwnAnswersOnly`, `ResumesOnlyUnfinished`, `FinishedIsStored`),
`SchedulerInv` (`RateLimitedRetriesAlone`, `OkRestsOnEvidence`), `SendingInv` (`SentAsPlanned`,
`OkCoversEvidence`), `FastReviewInv` (`StatusSettles`), `ProgressInv` (`NoFalseSuccess`,
`FailureIsKept`), `MoreDataInv` (`ResultHasItsChild`, `RunTellsTheTruth`,
`StoredHistoryIsKept`), `StageInv` (`FinishedWorkIsScored`, `ShownPropositionsResolve`),
`FlowInv` (`JobRunsOnItsProfile`, `SourceStaysOut`), each with the module's `TypeOK`.

Why the bounds are enough. Two contracts let one row wait behind another, and two claimers meet
on one row; a third of either repeats these. A lease of one tick already has a state inside and
a state after it. Two runs and two starts give every order of "stored by another", "stored
before the crash" and "filed but not stored". With two chunks a provider's part is complete,
half answered or refused, which tells the ratio of the planned chunks from that of the chunks
that ran; that four of five suffices is the theorem's. Two threads are enough for every race on
the pacer; two nested pools need two chunks that are cut, in three so that a pool has more
pieces than threads, and an interval so that its lock is contended. Four items are enough for
two buckets that overflow, a merge of small neighbours and an item that fills a chunk. Three
requests put two behind the lock that one holds; a copy that lives for one instant is stale at
the next. Two providers are the least with a mixed outcome, and two shared seconds let an older
snapshot be read by a projection and another by the page. Three resolves are the least in which
two overlap, or change the inputs back, and a third repairs. Three claims give agreement of two
and the objection or the broken claim of a third; `MCReviewGate` chooses them so that each gate
is met and missed. Two requests of one target meet in every transaction of each other, and a
third repairs or looks again; two propositions are the least that can disagree. One exception
reaches every handler of it, and the second that hits the except branch is left to histories of
one request (`MCBound` of `MCMoreData`); what a run says and targets list after two is the
theorem's. One execution meets its own late calls; the calls of another client stand for a
second execution, which shares every row with it. Time decides which rows are shown and not
whether an execution ends, so that a second failure is left to histories of one second
(`MCBound` of `MCStagePipeline`). Two flows are enough for one to write what the other reads,
and three starts for a resume after that. Two requests of the page are the least that can be
answered out of order; jobs and changes of the source, which do not touch a page that is open,
are explored with one (`MCBound` of `MCReviewFlow`), and their combination is left to the
theorem.

In `review_flow` some interleavings are left out to keep the run finite and short, and all of
them are guards of the module: the page is open only while a script waits at the
confirmation and until `MaxDownloads` profiles were downloaded; a human's steps on the page
and a change of the source are not interleaved with the steps of scripts under way,
which read neither until they look; and both come before the first review is made.

`MaxReviews` of the gate is one decision per target in the run; the theorem covers any
number. The bounds that only stop counters are `MaxClock`, `MaxStarts`, `MaxResolves`,
`MaxReviews`, `MaxRequests`, `MaxBatches`, `MaxCalls`, `MaxDrafts`, `MaxChanges`,
`MaxDownloads`, `MaxClaims`, `MaxBundle`, `MaxShared` and `MaxFaults`; `Rounds`, `MaxRetries`,
`LeaseTicks`, `MaxDelay` and the limits are settings of the code. `review_flow` is checked
up to the symmetry of flows and patches, which no definition tells apart; it has no
liveness property.

Runs that may really stop (ledger, gate, more data, flow: every run over, every counter used)
set `CHECK_DEADLOCK FALSE`; the others are checked for deadlock. `MCBound` is a
state constraint: a state beyond it is checked but not continued.

### Fairness

* ChunkStore: time passes, some scheduler claims when a row can be claimed, and a worker
  that keeps its row ends with an upsert, because the adapters set timeouts. A crash takes
  the row from the worker, and nothing forbids that it happens again; nothing makes a run
  take a row directly.
* ChunkLedger: while some chunk's thread or the main thread of a run can go on, with a retry
  round or its finish, one does. The pool joins all its threads.
* ChunkScheduler: while some thread can go on, one does, as calls return, because the adapters
  set timeouts. It is weak fairness of the whole next-state relation: no thread is promised its
  turn, and no order of those who wait for a lock. That is enough, since every step of the
  part is one towards its end.
* FastReview: while some begun request can go on, one does, again without a promise to any of
  them and without an order at the lock. Nothing makes a client send a request.
* PipelineProgress: the writer goes on unless it dies, and the page polls every five
  seconds without an end (`web/review_page.py:1505`).
* MoreData: each started request goes on, with a step or an exception, because calls time out
  and transactions end. Nothing makes a reviewer or a collector act, and a crash ends what runs.
* StagePipeline: while some execution or handler can go on, one does. Nothing is assumed of
  other clients, of humans, of the cache or of the clock.
* ReviewGate and ReviewFlow state no liveness: a resolve waits for nothing, and a flow waits
  for a human.

## What disagrees with the repository's own words

1. **Persisted, but not served** (`review_served`). `save_canonical_review_graph_snapshot`
   returns an older row of the same graph as it is, and the latest snapshot is the one with
   the greatest `created_at`. When the inputs change from A to B and back to A,
   the save of A is answered with "persisted", the rows are those of A, and the read routes
   go on serving B; the next resolve finds B again and repeats this.
   `src/tests/test_canonical_graph_persistence.py:263-264` expects the summary after such a
   request to be that of the graph in the answer. Two different graphs saved within one
   second show the same by the order of their ids; the property leaves that case out.
2. **Linked back, but to nothing** (`more_data_linked`). A refresh looks its target up again
   when it records the result. By then the child bundle is the newest of the incident, and a
   target that has no stored row is no longer found: the review is not written, and yet the
   run ends with "More data result linked back to the review target."
   `StoredHistoryIsKept` is what does hold: with a stored row the review is there.

Behaviour seen while modelling without a run of its own:

* *Promotion.* An objection can promote. Two providers agree on a group that cites one family
  of evidence, a validation target; when a third one's counter evidence in the same unit cites
  an item that shows impact, the merged unit becomes a primary candidate and the
  disagreement's own validation target disappears, where `src/docs/evidence_bundle.md:158-160`
  makes disagreement validation work. Caveats listed in claims do not reach claim groups
  (`synthesis/multi_ai.py` 3416-3620), so that of all blocking caveats (line 169 there) only
  those of legacy targets block. Support without evidence ids, or with an unknown one, takes the
  whole claim group with it, another provider's sound claim included.
* *Workflow.* `src/docs/architecture.md:282-283` calls Gemini required, but `run_gemini` answers
  200 with a failed result, and the workflow marks the stage ok. The graph's fingerprint leaves
  out legacy targets, and these may come from the cache: a graph can be found "the same" whose
  targets differ. `DoneShowsItsRouting` leaves out a graph found that way and one whose targets
  were cached before the execution's routing had answered; targets cached after it, and human
  decisions in between, it covers.
* *More data.* A refresh sets `more_data_collected` over a human verdict that came while it ran
  (`storage/sqlite_store.py:2263`). A store error at the event or the end that follow a recorded
  result fails a run whose result is stored (`routes/api_routes.py` 4989-5018, 5167-5197), and
  one at the first event of a collection (5068) or in the except branch (5088) leaves the run
  running.
* *Flow.* The page restores answers from the browser by their position under the page's id, so
  that answers to the questions of one draft may stand under those of another; a focused profile
  that was torn by a crash binds nothing when the approved one is checked
  (`src/scripts/gcs_review_flow.py:922`).
* *Chunks.* A row with a retry time can starve behind rows without one (`NULLS FIRST`); with
  `OES_MULTI_AI_REUSE_FAILED_CHUNK_RECORDS` the retry rounds find the failures they should
  retry; chunks whose contract denies reuse are called again after a crash; a provider without
  a start interval ignores a cooldown in `wait`; and a chunk split inside a retry round opens a
  pool of its own, so that calls exceed the "Maximum per-provider chunk worker count"
  (`src/infra/terraform/variables.tf:275`). `CallsBounded` bounds them by the size of the round's
  pool, times the setting while a split chunk runs, however many subchunks there are.
* *Requests.* A request admitted before the budget guard fired may start after it, having waited
  for the lock. Any exception of reading the guard's state means "not disabled", kept like an
  answer (`routes/api_routes.py` 1957-1992), so that while reads fail requests are admitted.
  Counters of the rate limit are purged with the window of whoever asks
  (`routes/api_routes.py:453`).
* *Progress.* A run whose process dies stays "running". On BigQuery a run that ended may be shown
  as running for ever: when its last snapshot falls in the second of the one before, it is
  dropped as a duplicate of its key (`gcp/bigquery.py:789`) or ties with it (805), as the steps
  that end a run do when nothing slow is between them; and counts projected in one second get
  lost until the finish counts the events. `EndIsShown`, `FailureIsKept` and
  `SnapshotIsRebuildable` name the case; `NoFalseSuccess` holds of what is shown in all of them,
  because the status shown is corrected by the events.
* *Gate.* A re-analysis puts decided targets back to pending although their reviews stay, since
  the DELETE comes before the upsert that would keep them; a graph without targets leaves the
  rows of the one before, although its groups replace theirs; two decisions in one second may be
  listed by the earlier.

## What is proved

The theorems hold for every value of the constants, under the named assumption of each module:
bounds are naturals, special values are not members of the sets beside them, maps have the
right domains. Those that say more say something of the code: that a plan has several chunks
and a split makes two pieces or more (ChunkScheduler, ChunkLedger), that a proposition is in
one target only, as the clusters of `review_quality.py` are disjoint (MoreData), that
scores are naturals, and that traces are shared by disjoint pairs of items (Promotion). The last
is stronger than the code, which takes the pairs in the order of a list
(`synthesis/review_arbitration.py` 2209-2221), so that an item that shares traces with two others
may link what one of them shows to what the other supports. Each module has one inductive invariant,
or a few that build on each other, written as a conjunction of named relations; most were
checked with TLC on the runs' instances before they were proved.

**DatabaseProofs**, of ChunkStore. `TypeCorrect`, `RowFollowsAttempts`, `ClaimsAreExclusive`,
`StoreImplementsResult`. `LastIsAttempt` says that the newest status is among the attempts, so
that the row follows from them. `ClaimIsHeld` ties a claim that has not run out by the
worker's clock to the row's lease and `worker_id`, so that a second claim finds the row
leased. The refinement maps initial states to initial states and every step to a step
of `ChunkResult` or a stutter.

**DatabaseProofs**, of PipelineProgress, for any number of providers and of snapshots in a
second. `EndsAreToldAsTheyWere` (`ProgressInv`): `EventsCounted` says how many of the providers'
events the script has recorded, so that a finish that claims success has an answer behind it;
`RowsBehind` that no snapshot counts more than the events, once the event under way is
projected, and `RowsExact` that none counts less while no two share a second. A finish that
could not read the events then counts right, or was misled (`SuccessesEarned`).
`EventsRebuildTheSnapshot` (`SnapshotIsRebuildable`): `RowsRebuilt` says exactly how many events
the snapshot lags behind at each place of the writer, `RowsNotAhead` that it never came further
than they did, and `EndsLast` that no event says the run is finished before a finish does. The two
proofs are beside those of ChunkStore because both are about records that a database keeps;
no constant is shared.

**ChunkLedgerProofs.** `LedgerIsSound` (`LedgerInv`): the invariant follows an answer from the
thread that has it through cache, file and store. `AnswerInHand` and `PrivateIsOwn` say whose call
a record is from, `DurableIsFound` that what was stored at the start is found before a call
is made, `CachedIsStored` and `ReportedIsStored` where a success may still be missing from
the store: only between the two halves of `append`. `NoChunkGivenUpEarly`: without
`OES_MULTI_AI_REUSE_FAILED_CHUNK_RECORDS`, which is off by default and with which it is false,
calls and rounds left add up. `SharedStoreImplementsResult`: the store keeps the promise of
`ChunkResult` with any number of runs on it.

**ChunkSchedulerProofs.** `SchedulerIsSound` (`SchedulerInv`), `PacingHolds`,
`NothingSettledIsSent` and `CallsAreBounded`. The sleeper holds the pacer's lock and sleeps
long enough (`SleeperPaced`); pieces run within a chunk that runs, in pools of their size
(`PiecesRun`, `Pooled`); an answer and a refusal settle their chunk (`AnswersKept`,
`RefusedSettles`). The bound on calls is a counting argument, for any number of subchunks: the
calls of a running chunk are injected into the slots of its nested pool, or into the one call
of a whole chunk, and all of them into those times the running chunks, which the outer pool
bounds.

The same module proves what the planning loops compute for every bundle, item size, chunk size
and token budget: `PlansAreSound` (`PlanKeepsLimits`), `PiecesAreSmaller` (`SplitShrinks`), and
from them `SentIsPlanned` and `OkIsCovered`, the two parts of `SendingInv` (`SendingIsSound`).
The library's induction theorems cannot be applied, as they take an operator; `LeastNumber` (from
the well-foundedness of `<`) and `CountingUp` state induction over a set of numbers instead, and
`LoopExists` that a loop of N rounds has a function of its rounds, so that the recursive
functions of ChunkPlan are what they say. Each loop then has its invariant. Packing
(`GreedyPacks`): the chunks closed so far and the one being filled are not empty, within the
limits, disjoint, cover what was read, and no two neighbours fit together, because a chunk is
closed only by a part that did not fit and only grows from there (`AddPartPacks`, `FitsLess`).
Buckets (`BucketsSorted`): one list per bucket, of what was read. Packing bucket by bucket
(`BucketsPacked`): neighbours across a border are of different buckets. Slices (`SliceNumbers`,
`SlicesApart`): the division rounds up, so every place is in one slice. A split (`HalvesSplit`):
where the smaller limits give one piece again, two halves are smaller. The only assumption about
plans is `ChunkPlanAssumption`: sizes and limits are natural numbers, and the chunk size, the
tokens of an item and the budget are not 0. The scheduler sends what was planned by
`SendingAssumption`: its chunks are the plan's, and each is cut into as many pieces as the
adaptive split of its items gives. A split has two pieces or more and they are a partition
(`PiecesSound`), so that the evidence of the subchunks in calls is apart
(`EvidenceOfChunk`, `EvidenceOfPiece`), and an ok of a split chunk has an answer of each part.

**FastReviewProofs.** Over `Shape` (types, and that a request read counts below its limits),
one invariant per question. `StatusFollows`: a run that says "running" has a request that owes it
a status. `CopiesArePast`, `AdmittedInTime`: a copy that says "not disabled" was taken before the
decision or by a read that failed, so that `DisableHeeded` bounds how long either deceives: for
one lifetime after the decision, or after that read. `HolderInside`, `StaysStale`: inside
the lock nobody else stores a result, which makes check and start one (`FreshResultServed`).
`CountsAreCurrent`: under the lock the counts that were read are still the records
(`RunsCounted`, and from it `LimitsBoundRuns`: the limits bound the live runs). The last two
assume `OneInstance`, one instance and finitely many requests: the lock is a lock of one
process, and with two instances the quota is lost, as its own read-modify-write allows.

**ReviewGateProofs.** `GateTypeCorrect`. `VerdictsAreHuman`: only `Clear`, `Fill` and `Commit`
write rows; the first two introduce no verdict, and the third appends the review in the same
step. `PersistedAnswersAreTrue`: `AllTruthful` adds that a resolver that projects has its graph
stored, and `OneSnapshot` that `Insert` refuses a stored graph. `ProjectionsAreExact`: of a
resolver that is alone, `Undisturbed` says that it is the only one running and that the
table is empty between its DELETE and its upsert, because a reviewer changes only rows that are
there. `StoredGraphsAreEarned`: whatever claims of however many providers and
whatever legacy target a unit has, what is promoted was earned. Its argument: an objection that
counts makes a candidate of its group (`ObjectionIsReviewed`); if it is about the same it is in
the group that agrees, which then is no primary candidate, and if it is about something else
the merged target diverges, which blocks (`NoObjection`); the merge takes the union of
what is missing and of the caveats, so that nothing that blocks is lost (`NothingLost`).

**MoreDataProofs.** `RunsTellTheTruth` (`MoreDataInv`): `RequestOK` says at each place of a
request what it has stored, and of a run that has failed or was left running which step raised
last: a refresh that failed with its result stored did so at its last event or its end, and a
run that is still "running" with nobody at it was left by a write outside any try. `ListsAgree`
(`PropositionsFollowTarget`): of the requests that write the propositions of a target, one that
began alone and was left alone knows which are still to be written (`WritesAlone`), any other
has marked the target as torn (`WritersOf`); a target nobody writes and nothing has torn follows
its latest review (`Follows`).

**ReviewFlowProofs.** `JobsRunOnWhatWasApproved` (`FlowInv`), `OnlyConfirmedIsApproved`,
`RecordsTellTheTruth`, `PublishedReviewIsWhole`. `TicksAreMeant`: a tick, wherever it is (form,
request on its way, approved profile), is for the interpretation beside it. `DraftsAreKnown`: a
draft a page ever showed has a payload and a record that tell its source. `JobsAreBound`: what
a job may read fits the directory of the script that waits for it. `PublishedAlone` counts the
parts the last publisher has written.

**StagePipelineProofs.** `IndHolds` (`StageInd`), and from it `TypeCorrect`, `WorkIsWhole`
(`StageInv`), `BaselineKept` and `RoutingShown`. The tables by themselves: `RunsNumbered`,
`PastOnly`, `OneResultPerRun`, `ClaimsFirst`. An execution: `CallsAwaited` says which handler it
waits for, `Underway` what that handler has already stored for it, `Behind` what the stages
behind it have; `Handle` carries the first into the second, and `Reply` that into the third.
Late handlers of calls given up and other clients keep both, because nothing they store is older
than the bundle they store it for. `TargetsRead` says of a cache entry that its targets have
what the executions it names routed, and of a proposition that is closed that a human closed it;
the routed proposition is on the list of pending targets until then, so that a graph has it
whether its targets came from the cache or not.

### What the proofs found

* `ShownPropositionsResolve` was false beyond the run's bounds: a routing that is slower than a
  newer one stores the claims of the same result again under its own, older `created_at`
  (`storage/sqlite_store.py` 1485-1518), so that the newer proposition is shown without claims.
  The model now dates claims by result, `overtaken` names the case, and `FinishedWorkIsScored`
  asks for the execution's own bundle.
* `PrimaryIsEarned` was false for a claim that supports, cites nothing but counter evidence
  and misses a core item: its group is unsupported and counts for nothing, so it does not block.
  What objects is now a claim of a group that counts (`Valid`), and the run has such a claim.
* `PropositionsFollowTarget` needs that no proposition is in two targets, which the one target
  of the run could not show; the code's clusters are disjoint, and the assumption says so.

### What is only model-checked

* Everything under fairness: `ReadyRowIsServed`, `RunsEnd`, `ProviderEnds`, `RequestsEnd`,
  `EndIsShown`, `ExecutionsEnd`. Liveness and ENABLED are out of the prover's reach.

### What the properties leave out

* `RunsAreCounted` holds of one instance. `src/scripts/deploy_public_demo.sh` deploys the
  service with one instance by default (`--max-instances`, lines 18 and 96); Terraform's default
  is 20, and with two instances the quota's read-modify-write loses runs.
* `PageIsWhole` is about a review whose job published alone: two overlapping jobs mix their
  objects, and nothing in the code prevents it. A job started by hand may also leave an optional
  prefix out (`gcp/chunked_review_job.py` 227-228, 241-242) and then does not write that object.
* `DisableIsHeeded` says nothing while reads of the guard's state fail, nor does the code then.

## Plan

Every module of the first plan is written: the chunk store, ledger, planning and scheduler,
fast review, progress, promotion and gate, more data, workflow, and the flow with its job. What
is left:

* ChunkScheduler over ChunkLedger, keyed by piece, for the records a split chunk leaves behind;
* the retry policy of the provider clients (`ai/runtime.py` 125-213);
* the evidence request planner.

Each module keeps parameters as constants with named assumptions, an action per operation
and no recursive operator, so that it can be proved about.

## Not modelled

* **BigQuery store**, but for the progress of a run. Its operations are those of the SQLite
  store, over a service whose visibility of writes the code does not describe. Read beside the
  models, it differs in that a delete that meets the streaming buffer is skipped
  (`_delete_ignoring_streaming_buffer`, `gcp/bigquery.py:2315`), so that a replace may leave the
  groups and targets of an older graph beside the new ones; that a snapshot of a graph is looked
  for and inserted without a key; and that a decision does not write the target's row, so that
  the list of pending targets takes them by a status that never changes (1576-1577). What
  the models of these tables say holds for SQLite and PostgreSQL.
* **Text.** Sanitizing, discovery of profiles, bundle building, citation checks, the planner
  and the classification of wording are functions of text by patterns: most of the lines of
  the repository, and no control that a model checker would reach. Where a model needs their
  verdict it is an input. Rendering of pages and precomputed reviews, the largest files, keeps no
  state.
* **The older profile drafts** and their gate, the owner session cookie, the canonical
  timeline of a run and its reason codes are left out of components that are modelled in part,
  as `PROJECT.json` says at each.
* **Provider clients, command line, the ADK agent, Terraform and scripts**: I/O, parsing and
  declarations. Their limits and outcomes are constants and inputs of the models.
