----------------------------- MODULE ReviewGate -----------------------------
(***************************************************************************)
(* Canonical review graph snapshots, the review_targets rows projected     *)
(* from them and the human decisions on those rows, for one evidence       *)
(* bundle in the SQLite store.  A resolver is a request that runs          *)
(* resolve_canonical_review_graph_snapshot (POST /review/graph/refresh,    *)
(* POST /review/arbitrate, GET /review/graph?recompute); a reviewer is a   *)
(* request that runs record_review_target (accept, reject,                 *)
(* needs-more-data).  Both run in server threads, so they interleave       *)
(* between transactions; a crash stops every request of the process.       *)
(*                                                                         *)
(* A graph stands for its input fingerprint: arbitration is a function of  *)
(* the inputs, so equal fingerprints have equal graphs, up to what they    *)
(* take from legacy targets, which the fingerprint leaves out              *)
(* (StagePipeline models that).  Time has the one second resolution of     *)
(* timeutils.utc_now.  The rows are the ones of canonical targets, which   *)
(* have no propositions of their own.                                      *)
(***************************************************************************)
EXTENDS Naturals, Sequences, FiniteSets

CONSTANTS
    Graphs,        \* canonical graphs the inputs can produce
    Targets,       \* review target ids
    TargetsOf,     \* the targets of each graph
    Rank,          \* the order of the snapshot ids, which are hashes
    Verdicts,      \* statuses a human decision gives a target
    Resolvers, Reviewers,
    NoGraph,
    MaxClock, MaxResolves, MaxReviews, MaxFaults

ASSUME GraphAssumption ==
    /\ Graphs # {} /\ Targets # {}
    /\ NoGraph \notin Graphs
    /\ TargetsOf \in [Graphs -> SUBSET Targets]
    /\ Rank \in [Graphs -> Nat]
    /\ \A g, h \in Graphs : Rank[g] = Rank[h] => g = h
ASSUME VerdictAssumption ==
    Verdicts # {} /\ {"absent", "pending"} \cap Verdicts = {}
ASSUME BoundAssumption ==
    {MaxClock, MaxResolves, MaxReviews, MaxFaults} \subseteq Nat

VARIABLES
    snapshots,     \* canonical_review_graphs: [graph, at]
    groups,        \* the graph whose canonical_observation_groups are stored
    rows,          \* review_targets: the status of each target, or "absent"
    reviews,       \* reviews of each target, in commit order: [status, at]
    resolver,      \* the request each resolver runs, or its last one
    reviewer,      \* the request each reviewer runs, or its last one
    clock,
    resolves, faults   \* counters that bound the model

vars == <<snapshots, groups, rows, reviews, resolver, reviewer, clock,
          resolves, faults>>

RowStatus == {"absent", "pending"} \cup Verdicts
Time == 0 .. MaxClock

\* The response of a resolve: canonical_graph_status, or none yet.
Answers == {"none", "persisted", "stale", "computed_on_request"}

(* "alone" is auxiliary: no other resolver has run since this one began.   *)
Resolve == [at: {"idle", "read", "look", "insert", "groups", "clear", "fill"},
            graph: Graphs, missing: BOOLEAN, stale: BOOLEAN,
            seen: Graphs \cup {NoGraph}, stamp: Time, answer: Answers,
            warned: BOOLEAN, alone: BOOLEAN]
Review == [at: {"idle", "reread", "commit"}, target: Targets,
           verdict: Verdicts, stamp: Time]

TypeOK ==
    /\ snapshots \subseteq [graph: Graphs, at: Time]
    /\ groups \in Graphs \cup {NoGraph}
    /\ rows \in [Targets -> RowStatus]
    /\ reviews \in [Targets -> Seq([status: Verdicts, at: Time])]
    /\ resolver \in [Resolvers -> Resolve]
    /\ reviewer \in [Reviewers -> Review]
    /\ clock \in Time
    /\ resolves \in 0 .. MaxResolves
    /\ faults \in 0 .. MaxFaults

-----------------------------------------------------------------------------
Newer(s, t) == s.at > t.at \/ (s.at = t.at /\ Rank[s.graph] > Rank[t.graph])

(* What GET /review/graph serves: the latest by created_at, then by id.    *)
Serves(g) ==
    \/ g = NoGraph /\ snapshots = {}
    \/ \E s \in snapshots :
          s.graph = g /\ \A t \in snapshots : ~ Newer(t, s)

Stored(g) == \E s \in snapshots : s.graph = g
Present == {t \in Targets : rows[t] # "absent"}

(* A resolver that answered; only the answer, its graph and its warning    *)
(* are kept.                                                               *)
Answered(answer, g, warned) ==
    [at |-> "idle", graph |-> g, missing |-> FALSE, stale |-> FALSE,
     seen |-> NoGraph, stamp |-> 0, answer |-> answer, warned |-> warned,
     alone |-> FALSE]

NoReview == [at |-> "idle", target |-> CHOOSE t \in Targets : TRUE,
             verdict |-> CHOOSE d \in Verdicts : TRUE, stamp |-> 0]

Init ==
    /\ snapshots = {}
    /\ groups = NoGraph
    /\ rows = [t \in Targets |-> "absent"]
    /\ reviews = [t \in Targets |-> <<>>]
    /\ resolver = [r \in Resolvers |->
                      Answered("none", CHOOSE g \in Graphs : TRUE, FALSE)]
    /\ reviewer = [v \in Reviewers |-> NoReview]
    /\ clock = 0
    /\ resolves = 0
    /\ faults = 0

-----------------------------------------------------------------------------
(* One resolve.                                                            *)

Idle(r) == resolver[r].at = "idle"

(* A request arrives with the graph its inputs give and its persist flags. *)
Request(r) ==
    /\ Idle(r)
    /\ resolves < MaxResolves
    /\ \E g \in Graphs, missing, stale \in BOOLEAN :
          resolver' = [o \in Resolvers |->
              IF o = r
              THEN [at |-> "read", graph |-> g, missing |-> missing,
                    stale |-> stale, seen |-> NoGraph, stamp |-> 0,
                    answer |-> "none", warned |-> FALSE,
                    alone |-> \A p \in Resolvers \ {r} : Idle(p)]
              ELSE [resolver[o] EXCEPT !.alone = FALSE]]
    /\ resolves' = resolves + 1
    /\ UNCHANGED <<snapshots, groups, rows, reviews, reviewer, clock,
                   faults>>

Goes(r, q) == resolver' = [resolver EXCEPT ![r] = q]

Projecting(q) == [q EXCEPT !.at = "groups", !.seen = NoGraph, !.stamp = 0]

(* The response when the snapshot is not saved: as if it had not been      *)
(* asked for.                                                              *)
Unsaved(q) ==
    Answered(IF q.seen = NoGraph THEN "computed_on_request" ELSE "stale",
             q.graph, FALSE)

(* Having read the latest snapshot, decide: same inputs, changed inputs or *)
(* none.  A snapshot to save gets its created_at before the store is asked.*)
Decided(q, seen) ==
    IF seen = q.graph
    THEN IF q.missing \/ q.stale THEN Projecting(q)
         ELSE Answered("persisted", q.graph, FALSE)
    ELSE IF IF seen = NoGraph THEN q.missing ELSE q.stale
         THEN [q EXCEPT !.at = "look", !.seen = seen, !.stamp = clock]
         ELSE Unsaved([q EXCEPT !.seen = seen])

ReadLatest(r) ==
    /\ resolver[r].at = "read"
    /\ \E g \in Graphs \cup {NoGraph} :
          Serves(g) /\ Goes(r, Decided(resolver[r], g))
    /\ UNCHANGED <<snapshots, groups, rows, reviews, reviewer, clock,
                   resolves, faults>>

(* An error of that read is taken for "no snapshot".                       *)
ReadFails(r) ==
    /\ resolver[r].at = "read"
    /\ faults < MaxFaults
    /\ faults' = faults + 1
    /\ Goes(r, Decided(resolver[r], NoGraph))
    /\ UNCHANGED <<snapshots, groups, rows, reviews, reviewer, clock,
                   resolves>>

(* save_canonical_review_graph_snapshot returns the row that has the same  *)
(* fingerprint and graph, with its old created_at; SELECT and INSERT are   *)
(* not one transaction.                                                    *)
LookForSame(r) ==
    /\ resolver[r].at = "look"
    /\ Goes(r, IF Stored(resolver[r].graph)
               THEN Projecting(resolver[r])
               ELSE [resolver[r] EXCEPT !.at = "insert"])
    /\ UNCHANGED <<snapshots, groups, rows, reviews, reviewer, clock,
                   resolves, faults>>

(* Mutant: a table without the key.                                        *)
InsertAgain(r) ==
    /\ resolver[r].at = "insert"
    /\ snapshots' = snapshots
          \cup {[graph |-> resolver[r].graph, at |-> resolver[r].stamp]}
    /\ Goes(r, Projecting(resolver[r]))
    /\ UNCHANGED <<groups, rows, reviews, reviewer, clock, resolves, faults>>

(* The key refuses a second row of one graph; the error is a "not saved".  *)
Insert(r) ==
    /\ resolver[r].at = "insert"
    /\ LET q == resolver[r]
       IN IF Stored(q.graph)
          THEN Goes(r, Unsaved(q)) /\ UNCHANGED snapshots
          ELSE /\ snapshots' = snapshots
                      \cup {[graph |-> q.graph, at |-> q.stamp]}
               /\ Goes(r, Projecting(q))
    /\ UNCHANGED <<groups, rows, reviews, reviewer, clock, resolves,
                   faults>>

SaveFails(r) ==
    /\ resolver[r].at \in {"look", "insert"}
    /\ faults < MaxFaults
    /\ faults' = faults + 1
    /\ Goes(r, Unsaved(resolver[r]))
    /\ UNCHANGED <<snapshots, groups, rows, reviews, reviewer, clock,
                   resolves>>

(* The groups have been refreshed, or not; a graph without targets leaves  *)
(* the rows as they are.                                                   *)
AfterGroups(q, warned) ==
    IF TargetsOf[q.graph] = {} THEN Answered("persisted", q.graph, warned)
    ELSE [q EXCEPT !.at = "clear", !.warned = warned]

(* replace_canonical_observation_groups: delete and insert in one          *)
(* transaction.  A graph without targets may have no groups either.        *)
SaveGroups(r) ==
    /\ resolver[r].at = "groups"
    /\ \/ groups' = resolver[r].graph
       \/ TargetsOf[resolver[r].graph] = {} /\ UNCHANGED groups
    /\ Goes(r, AfterGroups(resolver[r], FALSE))
    /\ UNCHANGED <<snapshots, rows, reviews, reviewer, clock, resolves, faults>>

(* Mutant: rows are only upserted, those of the last graph stay.           *)
ClearNothing(r) ==
    /\ resolver[r].at = "clear"
    /\ Goes(r, [resolver[r] EXCEPT !.at = "fill"])
    /\ UNCHANGED <<snapshots, groups, rows, reviews, reviewer, clock,
                   resolves, faults>>

(* replace_review_targets_for_evidence commits its DELETE first ...        *)
Clear(r) ==
    /\ resolver[r].at = "clear"
    /\ rows' = [t \in Targets |-> "absent"]
    /\ Goes(r, [resolver[r] EXCEPT !.at = "fill"])
    /\ UNCHANGED <<snapshots, groups, reviews, reviewer, clock, resolves, faults>>

(* Mutant: the projected row takes the target's class for its status.      *)
FilledAsClassified(g) ==
    [t \in Targets |->
        IF t \in TargetsOf[g] /\ rows[t] \notin Verdicts
        THEN "primary_candidate" ELSE rows[t]]

(* ... and upserts the graph's targets in a second transaction: pending,   *)
(* unless another request has put the row back and a human decided on it.  *)
Filled(g) ==
    [t \in Targets |->
        IF t \in TargetsOf[g] /\ rows[t] \notin Verdicts THEN "pending"
        ELSE rows[t]]

Fill(r) ==
    /\ resolver[r].at = "fill"
    /\ rows' = Filled(resolver[r].graph)
    /\ Goes(r, Answered("persisted", resolver[r].graph, resolver[r].warned))
    /\ UNCHANGED <<snapshots, groups, reviews, reviewer, clock, resolves, faults>>

(* A projection that fails only adds a warning to the answer.              *)
ProjectionFails(r) ==
    /\ resolver[r].at \in {"groups", "clear", "fill"}
    /\ faults < MaxFaults
    /\ faults' = faults + 1
    /\ Goes(r, IF resolver[r].at = "groups" THEN AfterGroups(resolver[r], TRUE)
               ELSE Answered("persisted", resolver[r].graph, TRUE))
    /\ UNCHANGED <<snapshots, groups, rows, reviews, reviewer, clock,
                   resolves>>

-----------------------------------------------------------------------------
(* One human decision.                                                     *)

(* The route looks the target up; an absent row is a 404.                  *)
Look(v) ==
    /\ reviewer[v].at = "idle"
    /\ \E t \in Present, verdict \in Verdicts :
          /\ Len(reviews[t]) < MaxReviews
          /\ reviewer' = [reviewer EXCEPT ![v] =
                [at |-> "reread", target |-> t, verdict |-> verdict,
                 stamp |-> 0]]
    /\ UNCHANGED <<snapshots, groups, rows, reviews, resolver, clock,
                   resolves, faults>>

(* record_review_target looks again; KeyError if the row has gone since.   *)
Reread(v) ==
    /\ reviewer[v].at = "reread"
    /\ reviewer' = [reviewer EXCEPT ![v] =
          IF @.target \in Present THEN [@ EXCEPT !.at = "commit", !.stamp = clock]
          ELSE NoReview]
    /\ UNCHANGED <<snapshots, groups, rows, reviews, resolver, clock,
                   resolves, faults>>

(* One transaction: the review is inserted and the row, if it is there,    *)
(* takes its status.                                                       *)
Commit(v) ==
    LET q == reviewer[v]
    IN /\ q.at = "commit"
       /\ Len(reviews[q.target]) < MaxReviews
       /\ reviews' = [reviews EXCEPT ![q.target] =
             Append(@, [status |-> q.verdict, at |-> q.stamp])]
       /\ rows' = [rows EXCEPT ![q.target] =
             IF @ = "absent" THEN @ ELSE q.verdict]
       /\ reviewer' = [reviewer EXCEPT ![v] = NoReview]
       /\ UNCHANGED <<snapshots, groups, resolver, clock, resolves,
                      faults>>

(* Mutant: the status is committed before the review is inserted.          *)
CommitHalf(v) ==
    /\ reviewer[v].at = "commit"
    /\ faults < MaxFaults
    /\ faults' = faults + 1
    /\ rows' = [rows EXCEPT ![reviewer[v].target] =
          IF @ = "absent" THEN @ ELSE reviewer[v].verdict]
    /\ reviewer' = [reviewer EXCEPT ![v] = NoReview]
    /\ UNCHANGED <<snapshots, groups, reviews, resolver, clock, resolves>>

(* The transaction raises: neither the review nor the status is stored.    *)
CommitFails(v) ==
    /\ reviewer[v].at = "commit"
    /\ faults < MaxFaults
    /\ faults' = faults + 1
    /\ reviewer' = [reviewer EXCEPT ![v] = NoReview]
    /\ UNCHANGED <<snapshots, groups, rows, reviews, resolver, clock,
                   resolves>>

-----------------------------------------------------------------------------
Tick ==
    /\ clock < MaxClock
    /\ clock' = clock + 1
    /\ UNCHANGED <<snapshots, groups, rows, reviews, resolver, reviewer,
                   resolves, faults>>

(* The process stops: its requests are gone, what was committed stays.     *)
Crash ==
    /\ faults < MaxFaults
    /\ faults' = faults + 1
    /\ resolver' = [r \in Resolvers |->
          IF Idle(r) THEN resolver[r]
          ELSE Answered("none", resolver[r].graph, FALSE)]
    /\ reviewer' = [v \in Reviewers |-> NoReview]
    /\ UNCHANGED <<snapshots, groups, rows, reviews, clock, resolves>>

Next ==
    \/ \E r \in Resolvers :
          \/ Request(r) \/ ReadLatest(r) \/ ReadFails(r)
          \/ LookForSame(r) \/ Insert(r) \/ SaveFails(r)
          \/ SaveGroups(r) \/ Clear(r) \/ Fill(r) \/ ProjectionFails(r)
    \/ \E v \in Reviewers : Look(v) \/ Reread(v) \/ Commit(v) \/ CommitFails(v)
    \/ Tick
    \/ Crash

Spec == Init /\ [][Next]_vars

-----------------------------------------------------------------------------
(* A row leaves "pending" only for what a human decided: it carries the    *)
(* status of the decision committed last for its target, whatever requests *)
(* re-project the rows, fail or crash meanwhile (README: the verdict on a  *)
(* cause is human-owned; agreement of providers cannot bypass the gate).   *)
DecisionFromHuman ==
    \A t \in Targets :
        rows[t] \in Verdicts =>
            /\ reviews[t] # <<>>
            /\ rows[t] = reviews[t][Len(reviews[t])].status

(* However requests race between the SELECT and the INSERT of a save,      *)
(* there is one snapshot of a graph, and a "persisted" answer names a      *)
(* graph that is stored.                                                   *)
PersistedIsStored ==
    /\ \A s, t \in snapshots : s.graph = t.graph => s = t
    /\ \A r \in Resolvers :
          resolver[r].answer = "persisted" => Stored(resolver[r].graph)

Ends(r) == ~ Idle(r) /\ resolver'[r].at = "idle"
Persists(r) ==
    /\ Ends(r)
    /\ resolver[r].missing \/ resolver[r].stale
    /\ resolver'[r].answer = "persisted" /\ ~ resolver'[r].warned

(* A resolve with persist flags that no other one overlaps and that        *)
(* answers "persisted" without a warning leaves exactly its graph's        *)
(* targets as rows, also after a crash, an error or a race of earlier      *)
(* requests left the rows cleared or mixed.  A graph without targets       *)
(* projects nothing and is left out.                                       *)
ProjectionIsExact ==
    [][\A r \in Resolvers :
          Persists(r) /\ resolver[r].alone
              /\ TargetsOf[resolver[r].graph] # {}
          => {t \in Targets : rows'[t] # "absent"}
                = TargetsOf[resolver[r].graph]]_vars

(* The graph such a resolve answers "persisted" for is the one that        *)
(* GET /review/graph and /ui/summary serve next, at least when no two      *)
(* snapshots were made in the same second.                                 *)
PersistedGraphIsServed ==
    [][\A r \in Resolvers :
          /\ Persists(r) /\ resolver[r].alone
          /\ \A s, t \in snapshots : s.at = t.at => s = t
          => Serves(resolver[r].graph)']_vars
=============================================================================
