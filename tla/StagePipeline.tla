--------------------------- MODULE StagePipeline ---------------------------
(***************************************************************************)
(* Executions of the cloud workflow (gcp/workflows/                        *)
(* ops-evidence-synthesis.yaml) for one incident: each calls the stage     *)
(* routes of routes/api_routes.py one after the other, and the handlers    *)
(* share the tables of the SQLite store.  A call the workflow has given up *)
(* goes on in its handler; readers fill the target cache; other clients,   *)
(* an execution for the same incident among them, call the same routes:    *)
(* the same logs have the same evidence_sha256, so all share every row.    *)
(*                                                                         *)
(* A result is its number.  A proposition, a target or a graph is the set  *)
(* of results it rests on: the claims of one routing form one proposition, *)
(* and the bundle has no rule candidates of its own.  Model runs and       *)
(* parsed results are stored apart; a handler reads several tables at      *)
(* once, and the snapshot's own transactions are in ReviewGate.            *)
(***************************************************************************)
EXTENDS Integers, Sequences, FiniteSets

CONSTANTS
    Executions,
    Alternatives,  \* the configured alternative providers, in order
    MaxRetries,    \* provider_max_retries
    Others,        \* the caller of every other client's calls
    MaxClock,      \* bound: seconds
    MaxFaults,     \* bound: failures and given-up calls
    MaxCalls       \* bound: calls of other clients, in a history without faults

ASSUME StageAssumption ==
    /\ Executions # {} /\ Others \notin Executions
    /\ {MaxRetries, MaxClock, MaxFaults, MaxCalls} \subseteq Nat
    /\ Alternatives \in Seq(STRING) /\ Alternatives # <<>>

VARIABLES
    clock,
    bundleAt,   \* created_at of the evidence bundle, Never before the first
    runs,       \* model_runs: [n, by, provider, at]
    results,    \* parsed_results: [n, valid, at]
    claims,     \* claims: [n, at], those of one result
    props,      \* propositions: [of, at]
    scored,     \* the propositions that have a score
    clusters,   \* proposition_clusters: [of, at]
    rows,       \* the results the review_targets rows rest on
    openRows,   \* those of the rows whose status is still to be reviewed
    closed,     \* the propositions whose latest user_reviews row closes them
    onceClosed, \* auxiliary: those that a human decision has ever closed
    graphs,     \* canonical review graphs, in the order they were saved
    cache,      \* _TARGET_SET_CACHE: at most one entry, [of, after]
    wf,         \* the executions
    calls,      \* the handlers that run
    overtaken,  \* auxiliary: results whose claims an older routing has rewritten
    faults, asked   \* counters that bound the model

reviews == <<closed, onceClosed>>
stored == <<bundleAt, runs, results, claims, overtaken, props, scored, clusters, rows,
            openRows, reviews, graphs>>
vars == <<clock, stored, cache, wf, calls, faults, asked>>

Never == -1
Time == 0 .. MaxClock
Gemini == "gemini"
Stages == {"create", "gemini", "alternatives", "validate", "route", "score",
           "compare", "refresh"}
Retried == {"gemini", "alternatives", "compare"}
Statuses == {"pending", "ok", "skipped", "error"}

Numbers == Nat \ {0}
Callers == Executions \cup {Others}
ProviderNames == {Gemini} \cup {Alternatives[i] : i \in DOMAIN Alternatives}

Graph == [synth : SUBSET Numbers, arts : SUBSET Numbers, legacy : SUBSET Numbers]
NoGraph == [synth |-> {}, arts |-> {}, legacy |-> {}]

(* "alone" to "fresh" are auxiliary: no other client has written the       *)
(* bundle since this one did; what its routing read; its graph was         *)
(* computed for it, from targets read after its routing had answered.      *)
Execution == [at : Stages \cup {"policy", "done", "failed"}, waiting : BOOLEAN,
              left : 0 .. MaxRetries, gemini : Statuses, alternatives : Statuses,
              compare : Statuses, skipAlternatives : BOOLEAN, skipCompare : BOOLEAN,
              graph : Graph, alone : BOOLEAN, routed : SUBSET Numbers,
              fresh : BOOLEAN]
Call == [by : Callers, stage : Stages,
         at : {"begin", "run", "result", "write", "more", "rows", "resolve", "end"},
         waited : BOOLEAN, todo : Seq(ProviderNames), n : Nat, stamp : Time,
         seen : SUBSET Numbers, of : SUBSET SUBSET Numbers,
         legacy : SUBSET Numbers, fresh : BOOLEAN]
Dated == [of : SUBSET Numbers, at : Time]

\* A cached target set; auxiliary: the executions that had routed when it was read.
Entry == [of : SUBSET Numbers, after : SUBSET Executions]

TypeOK ==
    /\ clock \in Time
    /\ bundleAt \in Time \cup {Never}
    /\ runs \subseteq [n : Numbers, by : Callers, at : Time, provider : ProviderNames]
    /\ \A r, s \in runs : r.n = s.n => r = s
    /\ results \subseteq [n : Numbers, valid : BOOLEAN, at : Time]
    /\ claims \subseteq [n : Numbers, at : Time] /\ overtaken \subseteq Numbers
    /\ props \subseteq Dated
    /\ \A p, q \in props : p.of = q.of => p = q
    /\ scored \subseteq {p.of : p \in props}
    /\ clusters \subseteq Dated
    /\ \A c \in clusters : c.of \in {p.of : p \in props}
    /\ rows \subseteq Numbers /\ openRows \subseteq rows
    /\ closed \subseteq SUBSET Numbers /\ onceClosed \subseteq SUBSET Numbers
    /\ graphs \in Seq(Graph)
    /\ cache \subseteq Entry /\ Cardinality(cache) <= 1
    /\ wf \in [Executions -> Execution]
    /\ calls \subseteq Call
    /\ faults \in 0 .. MaxFaults
    /\ asked \in 0 .. MaxCalls

Init ==
    /\ clock = 0
    /\ bundleAt = Never
    /\ runs = {} /\ results = {} /\ props = {} /\ scored = {} /\ clusters = {}
    /\ claims = {} /\ overtaken = {}
    /\ rows = {} /\ openRows = {} /\ closed = {} /\ onceClosed = {}
    /\ graphs = <<>> /\ cache = {} /\ calls = {}
    /\ wf = [e \in Executions |->
                [at |-> "policy", waiting |-> FALSE, left |-> MaxRetries,
                 gemini |-> "pending", alternatives |-> "pending",
                 compare |-> "pending", skipAlternatives |-> FALSE,
                 skipCompare |-> FALSE, graph |-> NoGraph, alone |-> FALSE,
                 routed |-> {}, fresh |-> FALSE]]
    /\ faults = 0
    /\ asked = 0

-----------------------------------------------------------------------------
(* What the store shows: rows older than the bundle are of an earlier      *)
(* generation.                                                             *)

\* Mutant of Current: strictly newer than the bundle.
CurrentStrictly(at) == at > bundleAt

Current(at) == at >= bundleAt

VisibleRuns == {r.n : r \in {s \in runs : Current(s.at)}}
ValidResults == {r.n : r \in {s \in results : s.valid /\ Current(s.at)}}
VisibleProps == {p.of : p \in {q \in props : Current(q.at)}}

PendingProps == VisibleProps \ closed

\* Mutant of Targets: the stored rows come first.
TargetsStored == IF openRows # {} THEN openRows ELSE UNION PendingProps

(* list_review_targets(pending_only=True): from the propositions that no   *)
(* decision has closed, else from the stored rows still to be reviewed.    *)
Targets == IF PendingProps # {} THEN UNION PendingProps ELSE openRows

-----------------------------------------------------------------------------
(* The workflow.                                                           *)

\* Where the workflow goes after a stage.
After(w) ==
    CASE w.at = "create" -> "gemini"
      [] w.at = "gemini" -> IF w.skipAlternatives THEN "validate" ELSE "alternatives"
      [] w.at = "alternatives" -> "validate"
      [] w.at = "validate" -> "route"
      [] w.at = "route" -> "score"
      [] w.at = "score" ->
            IF w.skipCompare \/ w.skipAlternatives \/ w.alternatives = "error"
            THEN "refresh" ELSE "compare"
      [] w.at = "compare" -> "refresh"
      [] w.at = "refresh" -> "done"

Arrived(w) ==
    [w EXCEPT !.at = After(w), !.waiting = FALSE, !.left = MaxRetries,
              !.compare = IF w.at = "score" /\ After(w) = "refresh" THEN "skipped" ELSE @]

(* provider_status once the call of a provider stage has an outcome.       *)
Marked(w, status) ==
    CASE w.at = "gemini" -> [w EXCEPT !.gemini = status]
      [] w.at = "alternatives" -> [w EXCEPT !.alternatives = status]
      [] w.at = "compare" -> [w EXCEPT !.compare = status]
      [] OTHER -> w

\* load_provider_policy and its fallback: what is skipped comes from the
\* arguments, the answer or both, and a failed request changes nothing else.
Policy(e) ==
    /\ wf[e].at = "policy"
    /\ \E alternatives, compare \in BOOLEAN :
          wf' = [wf EXCEPT ![e].at = "create",
                           ![e].skipAlternatives = alternatives,
                           ![e].alternatives = IF alternatives THEN "skipped" ELSE @,
                           ![e].skipCompare = compare]
    /\ UNCHANGED <<clock, stored, cache, calls, faults, asked>>

NewCall(e, stage) ==
    [by |-> e, stage |-> stage, at |-> "begin", waited |-> e \in Executions,
     todo |-> CASE stage = "gemini" -> <<Gemini>>
                [] stage = "alternatives" -> Alternatives
                [] OTHER -> <<>>,
     n |-> 0, stamp |-> clock, seen |-> {}, of |-> {}, legacy |-> {}, fresh |-> FALSE]

Send(e) ==
    /\ wf[e].at \in Stages /\ ~ wf[e].waiting
    /\ wf' = [wf EXCEPT ![e].waiting = TRUE]
    /\ calls' = calls \cup {NewCall(e, wf[e].at)}
    /\ UNCHANGED <<clock, stored, cache, faults, asked>>

\* Mutant of Refused: a retry is counted and not sent.
RefusedUnsent(w, transient) ==
    IF transient /\ w.at \in Retried /\ w.left > 0 THEN [w EXCEPT !.left = @ - 1]
    ELSE IF w.at \in {"alternatives", "compare"} THEN Arrived(Marked(w, "error"))
    ELSE [Marked(w, "error") EXCEPT !.at = "failed", !.waiting = FALSE]

(* A call failed: the provider stages retry a transient error; without the *)
(* required stages the execution fails.                                    *)
Refused(w, transient) ==
    IF transient /\ w.at \in Retried /\ w.left > 0
    THEN [w EXCEPT !.waiting = FALSE, !.left = @ - 1]
    ELSE IF w.at \in {"alternatives", "compare"} THEN Arrived(Marked(w, "error"))
    ELSE [Marked(w, "error") EXCEPT !.at = "failed", !.waiting = FALSE]

-----------------------------------------------------------------------------
(* The handlers.  Goes: the handler takes a step.                          *)

Goes(c, d) == calls' = (calls \ {c}) \cup {d}

Doing(c, stage, at) == c.stage = stage /\ c.at = at

\* EvidenceBundleBuilder.build stamps the bundle before it stores it.
CreateBegin(c) ==
    /\ Doing(c, "create", "begin")
    /\ Goes(c, [c EXCEPT !.at = "write", !.stamp = clock])
    /\ UNCHANGED <<clock, stored, cache, wf, faults, asked>>

InsertBundle(c) ==
    /\ Doing(c, "create", "write")
    /\ bundleAt' = c.stamp
    /\ wf' = [e \in Executions |-> [wf[e] EXCEPT !.alone = e = c.by]]
    /\ Goes(c, [c EXCEPT !.at = "end"])
    /\ UNCHANGED <<clock, runs, results, claims, overtaken, props, scored, clusters,
                   rows, openRows, reviews, graphs, cache, faults, asked>>

\* The providers are called at once and all answer before anything is stored;
\* one that fails or is not configured answers too.
ModelsAnswer(c) ==
    /\ c.stage \in {"gemini", "alternatives"} /\ c.at = "begin"
    /\ Goes(c, [c EXCEPT !.at = "run"])
    /\ UNCHANGED <<clock, stored, cache, wf, faults, asked>>

InsertModelRun(c) ==
    /\ c.at = "run"
    /\ LET n == Cardinality(runs) + 1
       IN /\ runs' = runs \cup {[n |-> n, by |-> c.by, provider |-> Head(c.todo),
                                 at |-> clock]}
          /\ Goes(c, [c EXCEPT !.at = "result", !.n = n])
    /\ UNCHANGED <<clock, bundleAt, results, claims, overtaken, props, scored, clusters,
                   rows, openRows, reviews, graphs, cache, wf, faults, asked>>

InsertParsedResult(c) ==
    /\ c.at = "result"
    /\ \E valid \in BOOLEAN :
          results' = results \cup {[n |-> c.n, valid |-> valid, at |-> clock]}
    /\ Goes(c, [c EXCEPT !.at = IF Len(c.todo) = 1 THEN "end" ELSE "run",
                         !.todo = Tail(c.todo), !.n = 0])
    /\ UNCHANGED <<clock, bundleAt, runs, claims, overtaken, props, scored, clusters,
                   rows, openRows, reviews, graphs, cache, wf, faults, asked>>

\* The stages that read and answer; /compare also stores its comparisons, which
\* no stage reads.
Reads(c) ==
    /\ c.stage \in {"validate", "compare"} /\ c.at = "begin"
    /\ Goes(c, [c EXCEPT !.at = "end"])
    /\ UNCHANGED <<clock, stored, cache, wf, faults, asked>>

\* route_claims stamps the claims and the propositions of a routing alike.
RouteClaims(c) ==
    /\ Doing(c, "route", "begin")
    /\ Goes(c, [c EXCEPT !.at = "write", !.seen = ValidResults, !.stamp = clock])
    /\ UNCHANGED <<clock, stored, cache, wf, faults, asked>>

InsertClaims(c) ==
    /\ Doing(c, "route", "write")
    /\ claims' = {k \in claims : k.n \notin c.seen}
                     \cup {[n |-> n, at |-> c.stamp] : n \in c.seen}
    /\ overtaken' = overtaken
                        \cup {k.n : k \in {h \in claims : h.n \in c.seen /\ h.at > c.stamp}}
    /\ Goes(c, [c EXCEPT !.at = "more"])
    /\ UNCHANGED <<clock, bundleAt, runs, results, props, scored, clusters, rows,
                   openRows, reviews, graphs, cache, wf, faults, asked>>

\* Mutant of Replaced: the propositions get a stamp of their own.
ReplacedNow(of, at) == {p \in props : p.of # of} \cup {[of |-> of, at |-> clock]}

\* Mutant of Replaced: a plain INSERT.
ReplacedNot(of, at) == props \cup {[of |-> of, at |-> at]}

\* INSERT OR REPLACE: the id of a proposition is a hash of its claims.
Replaced(of, at) == {p \in props : p.of # of} \cup {[of |-> of, at |-> at]}

InsertPropositions(c) ==
    /\ Doing(c, "route", "more")
    /\ props' = IF c.seen = {} THEN props ELSE Replaced(c.seen, c.stamp)
    /\ Goes(c, [c EXCEPT !.at = "end"])
    /\ UNCHANGED <<clock, bundleAt, runs, results, claims, overtaken, scored, clusters,
                   rows, openRows, reviews, graphs, cache, wf, faults, asked>>

ScoreRead(c) ==
    /\ Doing(c, "score", "begin")
    /\ Goes(c, [c EXCEPT !.at = "write", !.of = VisibleProps])
    /\ UNCHANGED <<clock, stored, cache, wf, faults, asked>>

\* Mutant of Scores: the loop returns after the proposition it scores first.
ScoresOne(of) ==
    scored \cup {p \in of : \A q \in of : Cardinality(p) <= Cardinality(q)}

Scores(of) == scored \cup of

InsertScores(c) ==
    /\ Doing(c, "score", "write")
    /\ scored' = Scores(c.of)
    /\ Goes(c, [c EXCEPT !.at = "more"])
    /\ UNCHANGED <<clock, bundleAt, runs, results, claims, overtaken, props, clusters,
                   rows, openRows, reviews, graphs, cache, wf, faults, asked>>

PersistClusters(c) ==
    /\ Doing(c, "score", "more")
    /\ clusters' = {k \in clusters : k.of \notin VisibleProps}
                       \cup {[of |-> p, at |-> clock] : p \in VisibleProps}
    /\ Goes(c, [c EXCEPT !.at = "rows"])
    /\ UNCHANGED <<clock, bundleAt, runs, results, claims, overtaken, props, scored,
                   rows, openRows, reviews, graphs, cache, wf, faults, asked>>

\* list_review_targets(persist=True): rows are added, none is removed, and a row
\* that was decided stays so (another row may rest on the same results).
PersistTargets(c) ==
    /\ Doing(c, "score", "rows")
    /\ rows' = rows \cup Targets
    /\ \E again \in SUBSET (Targets \cap rows) :
          openRows' = openRows \cup (Targets \ rows) \cup again
    /\ Goes(c, [c EXCEPT !.at = "end"])
    /\ UNCHANGED <<clock, bundleAt, runs, results, claims, overtaken, props, scored,
                   clusters, reviews, graphs, cache, wf, faults, asked>>

\* The executions whose call of /route has answered.
HaveRouted == {e \in Executions : wf[e].at \in {"score", "compare", "refresh", "done"}}

\* The entry of the cache, else one that is read now.
CachedTargets ==
    IF cache # {} THEN CHOOSE entry \in cache : TRUE
    ELSE [of |-> Targets, after |-> HaveRouted]

RefreshTargets(c) ==
    /\ Doing(c, "refresh", "begin")
    /\ cache' = {CachedTargets}
    /\ Goes(c, [c EXCEPT !.at = "more", !.legacy = CachedTargets.of,
                         !.fresh = c.by \in CachedTargets.after])
    /\ UNCHANGED <<clock, stored, wf, faults, asked>>

\* _multi_ai_synthesis_for_ui reads the results of its own.
RefreshSynthesis(c) ==
    /\ Doing(c, "refresh", "more")
    /\ Goes(c, [c EXCEPT !.at = "resolve", !.seen = ValidResults \cap VisibleRuns])
    /\ UNCHANGED <<clock, stored, cache, wf, faults, asked>>

(* The fingerprint of a graph covers its runs and the synthesis, not the   *)
(* targets it was given.                                                   *)
SameFingerprint(g, h) == g.arts = h.arts /\ g.synth = h.synth

Rests(g) == g.synth \cup g.legacy

\* resolve_canonical_review_graph_snapshot: the latest graph again if its
\* fingerprint is the same, else a new one; the rows are those of the graph, all
\* of them to be reviewed.
RefreshResolve(c) ==
    /\ Doing(c, "refresh", "resolve")
    /\ LET g == [synth |-> c.seen, arts |-> VisibleRuns, legacy |-> c.legacy]
           known == graphs # <<>> /\ SameFingerprint(g, graphs[Len(graphs)])
           answer == IF known THEN graphs[Len(graphs)] ELSE g
       IN /\ graphs' = IF known THEN graphs ELSE Append(graphs, g)
          /\ rows' = IF Rests(answer) = {} THEN rows ELSE Rests(answer)
          /\ openRows' = IF Rests(answer) = {} THEN openRows ELSE Rests(answer)
          /\ wf' = IF c.waited
                   THEN [wf EXCEPT ![c.by].graph = answer,
                                   ![c.by].fresh = c.fresh /\ ~ known]
                   ELSE wf
    /\ cache' = {}
    /\ Goes(c, [c EXCEPT !.at = "end"])
    /\ UNCHANGED <<clock, bundleAt, runs, results, claims, overtaken, props, scored,
                   clusters, reviews, faults, asked>>

Handle(c) ==
    \/ CreateBegin(c) \/ InsertBundle(c)
    \/ ModelsAnswer(c) \/ InsertModelRun(c) \/ InsertParsedResult(c)
    \/ Reads(c)
    \/ RouteClaims(c) \/ InsertClaims(c) \/ InsertPropositions(c)
    \/ ScoreRead(c) \/ InsertScores(c) \/ PersistClusters(c) \/ PersistTargets(c)
    \/ RefreshTargets(c) \/ RefreshSynthesis(c) \/ RefreshResolve(c)

-----------------------------------------------------------------------------
(* Answers and failures.                                                   *)

\* The answer of a waited call moves the workflow on; nobody hears another's.
Reply(c) ==
    /\ c.at = "end"
    /\ calls' = calls \ {c}
    /\ wf' = LET w == Arrived(Marked(wf[c.by], "ok"))
                 routed == IF c.stage = "route" THEN c.seen ELSE w.routed
             IN IF c.waited THEN [wf EXCEPT ![c.by] = [w EXCEPT !.routed = routed]] ELSE wf
    /\ UNCHANGED <<clock, stored, cache, faults, asked>>

\* The handler raises (500) or its instance goes away (503).
Break(c) ==
    /\ faults < MaxFaults /\ asked = 0
    /\ calls' = calls \ {c}
    /\ \E transient \in BOOLEAN :
          wf' = IF c.waited THEN [wf EXCEPT ![c.by] = Refused(@, transient)] ELSE wf
    /\ faults' = faults + 1
    /\ UNCHANGED <<clock, stored, cache, asked>>

\* The call takes longer than its timeout; the handler does not know.
GiveUp(c) ==
    /\ faults < MaxFaults /\ asked = 0
    /\ c.waited
    /\ Goes(c, [c EXCEPT !.waited = FALSE])
    /\ wf' = [wf EXCEPT ![c.by] = Refused(@, TRUE)]
    /\ faults' = faults + 1
    /\ UNCHANGED <<clock, stored, cache, asked>>

-----------------------------------------------------------------------------
(* Other clients.                                                          *)

\* Any stage of the same evidence.
Ask ==
    /\ asked < MaxCalls /\ faults = 0
    /\ \E stage \in Stages :
          /\ stage = "create" \/ bundleAt # Never
          /\ calls' = calls \cup {NewCall(Others, stage)}
    /\ asked' = asked + 1
    /\ UNCHANGED <<clock, stored, cache, wf, faults>>

\* GET /review/graph?recompute: the target set is cached for minutes.
ReadTargets ==
    /\ bundleAt # Never /\ cache = {}
    /\ cache' = {CachedTargets}
    /\ UNCHANGED <<clock, stored, wf, calls, faults, asked>>

\* Mutant of Decided: a request for more data takes the propositions off the list.
DecidedOff(ps, closes) == closed \cup ps

Decided(ps, closes) == IF closes THEN closed \cup ps ELSE closed \ ps

(* A human decides a proposition (record_review), or a target with the     *)
(* propositions it was made of (record_review_target): each transaction is *)
(* its own, and a call that stops short leaves the rest, and the cache, as *)
(* they are.  A decision closes, or it asks for more data and leaves open. *)
Decide ==
    /\ asked < MaxCalls /\ faults = 0
    /\ \E ps \in SUBSET {p.of : p \in props}, ns \in SUBSET rows, closes \in BOOLEAN :
          /\ ps # {} \/ ns # {}
          /\ closed' = Decided(ps, closes)
          /\ onceClosed' = IF closes THEN onceClosed \cup ps ELSE onceClosed
          /\ openRows' = IF closes THEN openRows \ ns ELSE openRows \cup ns
    /\ cache' \in {{}, cache}
    /\ asked' = asked + 1
    /\ UNCHANGED <<clock, bundleAt, runs, results, claims, overtaken, props, scored,
                   clusters, rows, graphs, wf, calls, faults>>

\* The cache expires, or an upload clears it.
ClearCache ==
    /\ cache # {}
    /\ cache' = {}
    /\ UNCHANGED <<clock, stored, wf, calls, faults, asked>>

Tick ==
    /\ clock < MaxClock
    /\ clock' = clock + 1
    /\ UNCHANGED <<stored, cache, wf, calls, faults, asked>>

Over(e) == wf[e].at \in {"done", "failed"}

Work ==
    \/ \E e \in Executions : Policy(e) \/ Send(e)
    \/ \E c \in calls : Handle(c) \/ Reply(c)

Ended == calls = {} /\ (\A e \in Executions : Over(e)) /\ UNCHANGED vars

Next ==
    \/ Work
    \/ \E c \in calls : Break(c) \/ GiveUp(c)
    \/ Ask \/ ReadTargets \/ Decide \/ ClearCache \/ Tick
    \/ Ended

Spec == Init /\ [][Next]_vars

\* Handlers run on and calls answer or time out: while some execution or handler
\* can go on, one does.
FairSpec == Spec /\ WF_vars(Work)

-----------------------------------------------------------------------------
(* Properties.                                                             *)

\* The graph a finished execution answers with takes its own Gemini run into
\* account, unless another client has written the bundle since: in the second of
\* the bundle too, after retries, and whatever was late.
DoneHasItsBaseline ==
    \A e \in Executions :
        wf[e].at = "done" /\ wf[e].alone =>
            \E r \in runs : r.by = e /\ r.provider = Gemini /\ r.n \in wf[e].graph.arts

\* The graph computed for an execution, from targets read after its routing, by its
\* own refresh or by the reader that filled the cache, was given the targets of every
\* result the execution has routed, unless a human decision has closed their
\* proposition.  (Not so a graph whose targets were cached before the routing, or a
\* stored one that has the same fingerprint.)
DoneShowsItsRouting ==
    \A e \in Executions :
        wf[e].at = "done" /\ wf[e].alone /\ wf[e].fresh =>
            wf[e].routed \subseteq wf[e].graph.legacy \/ wf[e].routed \in onceClosed

\* The proposition a finished execution routed is scored and clustered while the
\* bundle is its own.  (Another client's bundle may hide it from the score stage,
\* and a routing begun before that bundle bring it back.)
FinishedWorkIsScored ==
    \A e \in Executions :
        wf[e].at = "done" /\ wf[e].alone /\ wf[e].routed \in VisibleProps =>
            /\ wf[e].routed \in scored
            /\ \E c \in clusters : c.of = wf[e].routed /\ Current(c.at)

\* A proposition that is shown has its claims: a new generation of the bundle
\* between the two inserts of a routing hides both.  (Not so claims that an older
\* routing, slower than a newer one, has rewritten with its own stamp.)
ShownPropositionsResolve ==
    \A p \in props : Current(p.at) =>
        \A n \in p.of \ overtaken : \E k \in claims : k.n = n /\ Current(k.at)

\* What a finished execution leaves of its propositions is whole.
StageInv ==
    /\ TypeOK
    /\ FinishedWorkIsScored
    /\ ShownPropositionsResolve

\* Every execution ends.
ExecutionsEnd == <>(\A e \in Executions : Over(e))
=============================================================================
