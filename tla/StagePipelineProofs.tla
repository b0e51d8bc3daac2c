------------------------ MODULE StagePipelineProofs ------------------------
(***************************************************************************)
(* Proofs about StagePipeline: what an execution of the cloud workflow     *)
(* leaves behind (StageInv, DoneHasItsBaseline, DoneShowsItsRouting), for  *)
(* any number of executions, retries, failures and calls of other clients. *)
(* The invariant follows an execution whose bundle is still its own from   *)
(* stage to stage: what a stage has stored is stated of its call first and *)
(* of the execution once the call has answered.                            *)
(***************************************************************************)
EXTENDS StagePipeline, FiniteSetTheorems, SequenceTheorems, TLAPS

Ofs(S) == {p.of : p \in S}
Stored == {r.n : r \in runs}

AfterGemini == {"alternatives", "validate", "route", "score", "compare", "refresh", "done"}
AfterRoute == {"score", "compare", "refresh", "done"}
AfterScore == {"compare", "refresh", "done"}

-----------------------------------------------------------------------------
(* The tables.                                                             *)

\* Run numbers count the runs.
RunsNumbered ==
    /\ IsFiniteSet(runs)
    /\ \A r \in runs : r.n <= Cardinality(runs)

\* Nothing is dated in the future.
PastOnly ==
    /\ bundleAt <= clock
    /\ \A c \in calls : c.stamp <= clock
    /\ \A s \in results : s.at <= clock

\* A handler has what its next step needs.
CallsFormed ==
    \A c \in calls :
        /\ c.at \in {"run", "result"} => c.stage \in {"gemini", "alternatives"}
        /\ c.stage \in {"gemini", "alternatives"} /\ c.at \in {"begin", "run", "result"} =>
              c.todo # <<>>
        /\ c.stage = "gemini" /\ c.at \in {"begin", "run", "result"} => c.todo = <<Gemini>>
        /\ c.at = "result" => c.n \in Stored
        /\ c.of \subseteq Ofs(props)

\* A run has at most one parsed result, the one its handler has stored or will store.
OneResultPerRun ==
    /\ \A s, t \in results : s.n = t.n => s = t
    /\ \A s \in results : s.n \in Stored
    /\ \A c \in calls : c.at = "result" => \A s \in results : s.n # c.n
    /\ \A c, d \in calls : c.at = "result" /\ d.at = "result" /\ c.n = d.n => c = d

\* A routing is not older than the results it has read.
RoutingsRead ==
    \A c \in calls : c.stage = "route" /\ c.at # "begin" =>
        \A n \in c.seen : \E s \in results : s.n = n /\ s.at <= c.stamp

\* The claims of n are as new as at, but for an older routing that came later.
ClaimedSince(n, at) == n \in overtaken \/ \E k \in claims : k.n = n /\ k.at >= at

\* A proposition is stored after its claims.
ClaimsFirst ==
    /\ \A p \in props : p.of # {} /\ \A n \in p.of : ClaimedSince(n, p.at)
    /\ \A c \in calls : c.stage = "route" /\ c.at = "more" =>
          \A n \in c.seen : ClaimedSince(n, c.stamp)

-----------------------------------------------------------------------------
(* The executions.                                                         *)

\* The call e waits for.
Awaits(e, c) == c.waited /\ c.by = e

\* An execution waits for one call at most, that of its stage; the call that creates
\* the bundle is not repeated.
CallsAwaited ==
    /\ \A c \in calls : c.waited =>
          c.by \in Executions /\ wf[c.by].waiting /\ wf[c.by].at = c.stage
    /\ \A c, d \in calls : c.waited /\ d.waited /\ c.by = d.by => c = d
    /\ \A c \in calls : c.stage = "create" /\ c.by \in Executions =>
          c.waited \/ wf[c.by].at = "failed"

HasBaseline(e) == \E r \in runs : r.by = e /\ r.provider = Gemini /\ Current(r.at)

Readable(S) == \A n \in S : \E s \in results : s.n = n /\ Current(s.at)

IsShown(S) == S = {} \/ \E p \in props : p.of = S /\ Current(p.at)

IsScored(S) == S = {} \/ S \in scored

IsClustered(S) == S = {} \/ \E k \in clusters : k.of = S /\ Current(k.at)

\* Targets T have those of the results S, or a human has closed the proposition of S.
Shows(S, T) == S \subseteq T \/ S \in onceClosed

\* The graph e has been given is the one its own work calls for.
Answered(e) ==
    /\ \E r \in runs : r.by = e /\ r.provider = Gemini /\ r.n \in wf[e].graph.arts
    /\ wf[e].fresh => Shows(wf[e].routed, wf[e].graph.legacy)

\* What an execution has behind it.
Behind(e) ==
    /\ wf[e].at \in AfterGemini => HasBaseline(e)
    /\ wf[e].at \in AfterRoute => Readable(wf[e].routed) /\ IsShown(wf[e].routed)
    /\ wf[e].at \in AfterScore => IsScored(wf[e].routed) /\ IsClustered(wf[e].routed)
    /\ wf[e].at = "done" => Answered(e)

\* What the call e waits for has done for it.
Underway(e, c) ==
    /\ c.stage = "gemini" /\ c.at \in {"result", "end"} => HasBaseline(e)
    /\ c.stage = "route" /\ c.at \in {"write", "more", "end"} => Readable(c.seen)
    /\ c.stage = "route" /\ c.at = "end" => IsShown(c.seen)
    /\ c.stage = "score" /\ c.at = "write" => wf[e].routed \in c.of \cup {{}}
    /\ c.stage = "score" /\ c.at \in {"more", "rows", "end"} => IsScored(wf[e].routed)
    /\ c.stage = "score" /\ c.at \in {"rows", "end"} => IsClustered(wf[e].routed)
    /\ c.stage = "refresh" /\ c.at \in {"more", "resolve"} /\ c.fresh =>
          Shows(wf[e].routed, c.legacy)
    /\ c.stage = "refresh" /\ c.at = "end" => Answered(e)

\* An execution whose bundle is its own.
OwnWork ==
    \A e \in Executions : wf[e].alone =>
        /\ Behind(e)
        /\ \A c \in calls : Awaits(e, c) => Underway(e, c)

\* What is closed has been closed by a decision, and cached targets were read after the
\* routing of the executions the entry names.
TargetsRead ==
    /\ closed \subseteq onceClosed
    /\ \A entry \in cache : \A e \in entry.after :
          /\ wf[e].at \in AfterRoute \cup {"failed"}
          /\ wf[e].alone /\ wf[e].at # "failed" => Shows(wf[e].routed, entry.of)

StageInd ==
    /\ TypeOK /\ RunsNumbered /\ PastOnly /\ CallsFormed /\ OneResultPerRun
    /\ RoutingsRead /\ ClaimsFirst /\ CallsAwaited /\ OwnWork /\ TargetsRead

-----------------------------------------------------------------------------
(* What the functions of the workflow return.                              *)

\* A status is written down and nothing else.
LEMMA MarkedFacts ==
  ASSUME NEW w \in Execution, NEW status \in Statuses
  PROVE  /\ Marked(w, status) \in Execution
         /\ Marked(w, status).at = w.at /\ Marked(w, status).left = w.left
         /\ Marked(w, status).alone = w.alone /\ Marked(w, status).routed = w.routed
         /\ Marked(w, status).graph = w.graph /\ Marked(w, status).fresh = w.fresh
<1> DEFINE m == Marked(w, status)
<1>1. CASE w.at = "gemini"
  <2>1. m = [w EXCEPT !.gemini = status]
    BY <1>1 DEF Marked
  <2> QED BY <2>1 DEF Execution
<1>2. CASE w.at = "alternatives"
  <2>1. m = [w EXCEPT !.alternatives = status]
    BY <1>2 DEF Marked
  <2> QED BY <2>1 DEF Execution
<1>3. CASE w.at = "compare"
  <2>1. m = [w EXCEPT !.compare = status]
    BY <1>3 DEF Marked
  <2> QED BY <2>1 DEF Execution
<1>4. CASE w.at \notin {"gemini", "alternatives", "compare"}
  <2>1. m = w
    BY <1>4 DEF Marked
  <2> QED BY <2>1
<1> QED BY <1>1, <1>2, <1>3, <1>4

\* The order of the stages.
LEMMA AfterFacts ==
  ASSUME NEW w \in Execution, w.at \in Stages
  PROVE  /\ After(w) \in Stages \cup {"done"}
         /\ w.at \in {"create"} => After(w) = "gemini"
         /\ w.at = "gemini" => After(w) \in {"alternatives", "validate"}
         /\ w.at = "alternatives" => After(w) = "validate"
         /\ w.at = "validate" => After(w) = "route"
         /\ w.at = "route" => After(w) = "score"
         /\ w.at = "score" => After(w) \in {"compare", "refresh"}
         /\ w.at = "compare" => After(w) = "refresh"
         /\ w.at = "refresh" => After(w) = "done"
BY DEF After, Stages

\* The workflow moves on to the next stage with nothing to wait for.
LEMMA ArrivedFacts ==
  ASSUME NEW w \in Execution, w.at \in Stages
  PROVE  /\ Arrived(w) \in Execution
         /\ Arrived(w).at = After(w) /\ Arrived(w).waiting = FALSE
         /\ Arrived(w).alone = w.alone /\ Arrived(w).routed = w.routed
         /\ Arrived(w).graph = w.graph /\ Arrived(w).fresh = w.fresh
<1>1. After(w) \in Stages \cup {"done"} /\ MaxRetries \in 0 .. MaxRetries
  BY AfterFacts, StageAssumption
<1> DEFINE skip == IF w.at = "score" /\ After(w) = "refresh" THEN "skipped" ELSE w.compare
<1>2. skip \in Statuses
  BY DEF Execution, Statuses
<1>3. Arrived(w) = [w EXCEPT !.at = After(w), !.waiting = FALSE, !.left = MaxRetries,
                             !.compare = skip]
  BY DEF Arrived
<1> HIDE DEF skip
<1> QED BY <1>1, <1>2, <1>3 DEF Execution

\* After a failed call the stage is repeated or passed over, or the execution ends.
LEMMA RefusedFacts ==
  ASSUME NEW w \in Execution, w.at \in Stages, NEW r,
         \E transient \in BOOLEAN : r = Refused(w, transient)
  PROVE  /\ r \in Execution /\ r.waiting = FALSE
         /\ r.alone = w.alone /\ r.routed = w.routed
         /\ r.graph = w.graph /\ r.fresh = w.fresh
         /\ \/ r.at = w.at /\ w.at \in Retried
            \/ r.at = "failed"
            \/ w.at = "alternatives" /\ r.at = "validate"
            \/ w.at = "compare" /\ r.at = "refresh"
<1> PICK transient \in BOOLEAN : r = Refused(w, transient)
  OBVIOUS
<1>1. CASE transient /\ w.at \in Retried /\ w.left > 0
  <2>1. r = [w EXCEPT !.waiting = FALSE, !.left = w.left - 1]
    BY <1>1 DEF Refused
  <2>2. w.left - 1 \in 0 .. MaxRetries
    BY <1>1, StageAssumption DEF Execution
  <2> QED BY <1>1, <2>1, <2>2 DEF Execution
<1>2. CASE ~ (transient /\ w.at \in Retried /\ w.left > 0)
  <2> DEFINE m == Marked(w, "error")
  <2>1. /\ m \in Execution /\ m.at = w.at /\ m.alone = w.alone /\ m.routed = w.routed
        /\ m.graph = w.graph /\ m.fresh = w.fresh
    BY MarkedFacts DEF Statuses
  <2>2. CASE w.at \in {"alternatives", "compare"}
    <3>1. r = Arrived(m)
      BY <1>2, <2>2 DEF Refused
    <3> HIDE DEF m
    <3>2. m \in Execution /\ m.at \in Stages
      BY <2>1
    <3>3. /\ r \in Execution /\ r.at = After(m) /\ r.waiting = FALSE
          /\ r.alone = m.alone /\ r.routed = m.routed
          /\ r.graph = m.graph /\ r.fresh = m.fresh
      BY <3>1, <3>2, ArrivedFacts
    <3>4. /\ m.at = "alternatives" => After(m) = "validate"
          /\ m.at = "compare" => After(m) = "refresh"
      BY <3>2, AfterFacts
    <3> QED BY <2>1, <2>2, <3>3, <3>4
  <2>3. CASE w.at \notin {"alternatives", "compare"}
    <3>1. r = [m EXCEPT !.at = "failed", !.waiting = FALSE]
      BY <1>2, <2>3 DEF Refused
    <3> HIDE DEF m
    <3> QED BY <2>1, <3>1 DEF Execution
  <2> QED BY <2>2, <2>3
<1> QED BY <1>1, <1>2

\* A call as it is made.
LEMMA NewCallFacts ==
  ASSUME TypeOK, NEW e \in Callers, NEW stage \in Stages
  PROVE  /\ NewCall(e, stage) \in Call
         /\ NewCall(e, stage).by = e /\ NewCall(e, stage).stage = stage
         /\ NewCall(e, stage).at = "begin" /\ NewCall(e, stage).stamp = clock
         /\ NewCall(e, stage).of = {}
         /\ NewCall(e, stage).waited <=> e \in Executions
         /\ stage = "gemini" => NewCall(e, stage).todo = <<Gemini>>
         /\ stage = "alternatives" => NewCall(e, stage).todo = Alternatives
<1> DEFINE waited == e \in Executions
           todo == CASE stage = "gemini" -> <<Gemini>>
                     [] stage = "alternatives" -> Alternatives
                     [] OTHER -> <<>>
<1>1. waited \in BOOLEAN
  OBVIOUS
<1>2. todo \in Seq(ProviderNames)
  <2>1. Alternatives \in Seq(ProviderNames)
    <3>1. \A i \in 1 .. Len(Alternatives) : Alternatives[i] \in ProviderNames
      BY StageAssumption DEF ProviderNames
    <3>2. /\ Len(Alternatives) \in Nat
          /\ Alternatives = [i \in 1 .. Len(Alternatives) |-> Alternatives[i]]
      BY StageAssumption
    <3> QED BY <3>1, <3>2
  <2>2. <<Gemini>> \in Seq(ProviderNames) /\ <<>> \in Seq(ProviderNames)
    BY DEF ProviderNames
  <2> HIDE DEF ProviderNames
  <2> QED BY <2>1, <2>2
<1>3. NewCall(e, stage) =
        [by |-> e, stage |-> stage, at |-> "begin", waited |-> waited, todo |-> todo,
         n |-> 0, stamp |-> clock, seen |-> {}, of |-> {}, legacy |-> {}, fresh |-> FALSE]
  BY DEF NewCall
<1>4. waited <=> e \in Executions
  OBVIOUS
<1>5. /\ stage = "gemini" => todo = <<Gemini>>
      /\ stage = "alternatives" => todo = Alternatives
  OBVIOUS
<1>6. clock \in Time
  BY DEF TypeOK
<1> HIDE DEF waited, todo
<1> QED BY <1>1, <1>2, <1>3, <1>4, <1>5, <1>6 DEF Call, Callers

-----------------------------------------------------------------------------
(* What a step leaves alone.                                               *)

\* The tables an action of a handler does not write stay as they are.
LEMMA Frames ==
  ASSUME Next
  PROVE  /\ clock' # clock => Tick
         /\ bundleAt' # bundleAt => \E c \in calls : InsertBundle(c)
         /\ runs' # runs => \E c \in calls : InsertModelRun(c)
         /\ results' # results => \E c \in calls : InsertParsedResult(c)
         /\ claims' # claims \/ overtaken' # overtaken => \E c \in calls : InsertClaims(c)
         /\ props' # props => \E c \in calls : InsertPropositions(c)
         /\ scored' # scored => \E c \in calls : InsertScores(c)
         /\ clusters' # clusters => \E c \in calls : PersistClusters(c)
         /\ graphs' # graphs => \E c \in calls : RefreshResolve(c)
         /\ closed' # closed \/ onceClosed' # onceClosed => Decide
<1> USE DEF stored, reviews
<1>1. ASSUME NEW c \in calls, Handle(c) PROVE clock' = clock
  BY <1>1 DEF Handle, CreateBegin, InsertBundle, ModelsAnswer, InsertModelRun,
     InsertParsedResult, Reads, RouteClaims, InsertClaims, InsertPropositions, ScoreRead,
     InsertScores, PersistClusters, PersistTargets, RefreshTargets, RefreshSynthesis,
     RefreshResolve
<1>2. ASSUME NEW c \in calls, Handle(c), ~ InsertBundle(c) PROVE bundleAt' = bundleAt
  BY <1>2 DEF Handle, CreateBegin, ModelsAnswer, InsertModelRun,
     InsertParsedResult, Reads, RouteClaims, InsertClaims, InsertPropositions, ScoreRead,
     InsertScores, PersistClusters, PersistTargets, RefreshTargets, RefreshSynthesis,
     RefreshResolve
<1>3. ASSUME NEW c \in calls, Handle(c), ~ InsertModelRun(c) PROVE runs' = runs
  BY <1>3 DEF Handle, CreateBegin, InsertBundle, ModelsAnswer,
     InsertParsedResult, Reads, RouteClaims, InsertClaims, InsertPropositions, ScoreRead,
     InsertScores, PersistClusters, PersistTargets, RefreshTargets, RefreshSynthesis,
     RefreshResolve
<1>4. ASSUME NEW c \in calls, Handle(c), ~ InsertParsedResult(c) PROVE results' = results
  BY <1>4 DEF Handle, CreateBegin, InsertBundle, ModelsAnswer, InsertModelRun,
     Reads, RouteClaims, InsertClaims, InsertPropositions, ScoreRead,
     InsertScores, PersistClusters, PersistTargets, RefreshTargets, RefreshSynthesis,
     RefreshResolve
<1>5. ASSUME NEW c \in calls, Handle(c), ~ InsertClaims(c)
      PROVE  claims' = claims /\ overtaken' = overtaken
  BY <1>5 DEF Handle, CreateBegin, InsertBundle, ModelsAnswer, InsertModelRun,
     InsertParsedResult, Reads, RouteClaims, InsertPropositions, ScoreRead,
     InsertScores, PersistClusters, PersistTargets, RefreshTargets, RefreshSynthesis,
     RefreshResolve
<1>6. ASSUME NEW c \in calls, Handle(c), ~ InsertPropositions(c) PROVE props' = props
  BY <1>6 DEF Handle, CreateBegin, InsertBundle, ModelsAnswer, InsertModelRun,
     InsertParsedResult, Reads, RouteClaims, InsertClaims, ScoreRead,
     InsertScores, PersistClusters, PersistTargets, RefreshTargets, RefreshSynthesis,
     RefreshResolve
<1>7. ASSUME NEW c \in calls, Handle(c), ~ InsertScores(c) PROVE scored' = scored
  BY <1>7 DEF Handle, CreateBegin, InsertBundle, ModelsAnswer, InsertModelRun,
     InsertParsedResult, Reads, RouteClaims, InsertClaims, InsertPropositions, ScoreRead,
     PersistClusters, PersistTargets, RefreshTargets, RefreshSynthesis, RefreshResolve
<1>8. ASSUME NEW c \in calls, Handle(c), ~ PersistClusters(c) PROVE clusters' = clusters
  BY <1>8 DEF Handle, CreateBegin, InsertBundle, ModelsAnswer, InsertModelRun,
     InsertParsedResult, Reads, RouteClaims, InsertClaims, InsertPropositions, ScoreRead,
     InsertScores, PersistTargets, RefreshTargets, RefreshSynthesis, RefreshResolve
<1>9. ASSUME NEW c \in calls, Handle(c), ~ RefreshResolve(c) PROVE graphs' = graphs
  BY <1>9 DEF Handle, CreateBegin, InsertBundle, ModelsAnswer, InsertModelRun,
     InsertParsedResult, Reads, RouteClaims, InsertClaims, InsertPropositions, ScoreRead,
     InsertScores, PersistClusters, PersistTargets, RefreshTargets, RefreshSynthesis
<1>10. ASSUME ~ (\E c \in calls : Handle(c)), ~ Decide
       PROVE  stored' = stored /\ (clock' # clock => Tick)
  <2>1. ASSUME NEW e \in Executions, Policy(e) \/ Send(e)
        PROVE  stored' = stored /\ clock' = clock
    BY <2>1 DEF Policy, Send
  <2>2. ASSUME NEW c \in calls, Reply(c) \/ Break(c) \/ GiveUp(c)
        PROVE  stored' = stored /\ clock' = clock
    BY <2>2 DEF Reply, Break, GiveUp
  <2>3. CASE Ask \/ ReadTargets \/ ClearCache \/ Ended
    BY <2>3 DEF Ask, ReadTargets, ClearCache, Ended, vars
  <2>4. CASE Tick
    BY <2>4 DEF Tick
  <2> QED BY <1>10, <2>1, <2>2, <2>3, <2>4 DEF Next, Work
<1>11. ASSUME NEW c \in calls, Handle(c) PROVE closed' = closed /\ onceClosed' = onceClosed
  BY <1>11 DEF Handle, CreateBegin, InsertBundle, ModelsAnswer, InsertModelRun,
     InsertParsedResult, Reads, RouteClaims, InsertClaims, InsertPropositions, ScoreRead,
     InsertScores, PersistClusters, PersistTargets, RefreshTargets, RefreshSynthesis,
     RefreshResolve
<1> HIDE DEF stored, reviews
<1>12. stored' = stored =>
         /\ bundleAt' = bundleAt /\ runs' = runs /\ results' = results /\ claims' = claims
         /\ overtaken' = overtaken /\ props' = props /\ scored' = scored
         /\ clusters' = clusters /\ graphs' = graphs
         /\ closed' = closed /\ onceClosed' = onceClosed
  BY DEF stored, reviews
<1>13. Decide =>
         /\ bundleAt' = bundleAt /\ runs' = runs /\ results' = results /\ claims' = claims
         /\ overtaken' = overtaken /\ props' = props /\ scored' = scored
         /\ clusters' = clusters /\ graphs' = graphs /\ clock' = clock
  BY DEF Decide
<1> QED BY <1>1, <1>2, <1>3, <1>4, <1>5, <1>6, <1>7, <1>8, <1>9, <1>10, <1>11, <1>12, <1>13

-----------------------------------------------------------------------------
(* The handlers.                                                           *)

\* What the store shows are results.
LEMMA Readings ==
  ASSUME TypeOK
  PROVE  /\ ValidResults \in SUBSET Numbers /\ VisibleRuns \in SUBSET Numbers
         /\ VisibleProps \in SUBSET SUBSET Numbers /\ VisibleProps \subseteq Ofs(props)
         /\ Targets \in SUBSET Numbers /\ CachedTargets \in Entry
         /\ cache # {} => CachedTargets \in cache
         /\ cache = {} => CachedTargets = [of |-> Targets, after |-> HaveRouted]
<1>1. ValidResults \in SUBSET Numbers /\ VisibleRuns \in SUBSET Numbers
  BY DEF TypeOK, ValidResults, VisibleRuns
<1>2. VisibleProps \in SUBSET SUBSET Numbers /\ VisibleProps \subseteq Ofs(props)
  BY DEF TypeOK, VisibleProps, Dated, Ofs
<1>3. Targets \in SUBSET Numbers
  BY <1>2 DEF Targets, PendingProps, TypeOK
<1>4. cache # {} => CachedTargets \in cache
  BY DEF CachedTargets
<1>5. cache = {} => CachedTargets = [of |-> Targets, after |-> HaveRouted]
  BY DEF CachedTargets
<1>6. [of |-> Targets, after |-> HaveRouted] \in Entry
  BY <1>3 DEF Entry, HaveRouted
<1>7. CachedTargets \in Entry
  BY <1>4, <1>5, <1>6 DEF TypeOK
<1> QED BY <1>1, <1>2, <1>3, <1>4, <1>5, <1>7

\* The step of a handler that was at c and is then at d.
Moved(c, d) ==
    /\ d \in Call /\ Goes(c, d)
    /\ d.by = c.by /\ d.stage = c.stage /\ d.waited = c.waited
    /\ d.stamp \in {c.stamp, clock} /\ d.of \in {c.of, VisibleProps}
    /\ \/ /\ c.stage = "create"
          /\ \/ c.at = "begin" /\ d.at = "write"
             \/ c.at = "write" /\ d.at = "end" /\ InsertBundle(c)
       \/ /\ c.stage \in {"gemini", "alternatives"}
          /\ \/ c.at = "begin" /\ d.at = "run" /\ d.todo = c.todo
             \/ /\ c.at = "run" /\ d.at = "result" /\ d.todo = c.todo
                /\ InsertModelRun(c) /\ d.n = Cardinality(runs) + 1
             \/ /\ c.at = "result" /\ InsertParsedResult(c)
                /\ \/ d.at = "end"
                   \/ d.at = "run" /\ Len(c.todo) # 1 /\ d.todo = Tail(c.todo)
       \/ /\ c.stage \in {"validate", "compare"}
          /\ c.at = "begin" /\ d.at = "end"
       \/ /\ c.stage = "route"
          /\ \/ /\ c.at = "begin" /\ d.at = "write"
                /\ d.seen = ValidResults /\ d.stamp = clock
             \/ /\ c.at = "write" /\ d.at = "more" /\ InsertClaims(c)
                /\ d.seen = c.seen /\ d.stamp = c.stamp
             \/ /\ c.at = "more" /\ d.at = "end" /\ InsertPropositions(c)
                /\ d.seen = c.seen /\ d.stamp = c.stamp
       \/ /\ c.stage = "score"
          /\ \/ c.at = "begin" /\ d.at = "write" /\ d.of = VisibleProps
             \/ c.at = "write" /\ d.at = "more" /\ InsertScores(c)
             \/ c.at = "more" /\ d.at = "rows" /\ PersistClusters(c)
             \/ c.at = "rows" /\ d.at = "end"
       \/ /\ c.stage = "refresh"
          /\ \/ /\ c.at = "begin" /\ d.at = "more" /\ d.legacy = CachedTargets.of
                /\ d.fresh => c.by \in CachedTargets.after
             \/ /\ c.at = "more" /\ d.at = "resolve" /\ d.legacy = c.legacy
                /\ d.fresh => c.fresh
             \/ c.at = "resolve" /\ d.at = "end" /\ RefreshResolve(c)

\* Every step of a handler is of this form.
LEMMA HandlerMoves ==
  ASSUME TypeOK, RunsNumbered, CallsFormed, NEW c \in calls, Handle(c)
  PROVE  \E d \in Call : Moved(c, d)
<1>1. c.at \in {"run", "result"} => c.todo # <<>>
  BY DEF CallsFormed
<1>2. c \in Call /\ clock \in Time
  BY DEF TypeOK
<1>3. CASE CreateBegin(c)
  <2> DEFINE d == [c EXCEPT !.at = "write", !.stamp = clock]
  <2>1. /\ d \in Call /\ d.at = "write" /\ d.by = c.by /\ d.stage = c.stage
        /\ d.waited = c.waited /\ d.stamp = clock /\ d.of = c.of
    BY <1>2 DEF Call
  <2>2. Goes(c, d) /\ c.stage = "create" /\ c.at = "begin"
    BY <1>3 DEF CreateBegin, Doing
  <2> HIDE DEF d
  <2>3. Moved(c, d)
    BY <2>1, <2>2 DEF Moved
  <2> QED BY <2>1, <2>3
<1>4. CASE InsertBundle(c)
  <2> DEFINE d == [c EXCEPT !.at = "end"]
  <2>1. /\ d \in Call /\ d.at = "end" /\ d.by = c.by /\ d.stage = c.stage
        /\ d.waited = c.waited /\ d.stamp = c.stamp /\ d.of = c.of
    BY <1>2 DEF Call
  <2>2. Goes(c, d) /\ c.stage = "create" /\ c.at = "write"
    BY <1>4 DEF InsertBundle, Doing
  <2> HIDE DEF d
  <2>3. Moved(c, d)
    BY <1>4, <2>1, <2>2 DEF Moved
  <2> QED BY <2>1, <2>3
<1>5. CASE ModelsAnswer(c)
  <2> DEFINE d == [c EXCEPT !.at = "run"]
  <2>1. /\ d \in Call /\ d.at = "run" /\ d.by = c.by /\ d.stage = c.stage
        /\ d.waited = c.waited /\ d.stamp = c.stamp /\ d.of = c.of /\ d.todo = c.todo
    BY <1>2 DEF Call
  <2>2. Goes(c, d) /\ c.stage \in {"gemini", "alternatives"} /\ c.at = "begin"
    BY <1>5 DEF ModelsAnswer
  <2> HIDE DEF d
  <2>3. Moved(c, d)
    BY <2>1, <2>2 DEF Moved
  <2> QED BY <2>1, <2>3
<1>6. CASE InsertModelRun(c)
  <2> DEFINE n == Cardinality(runs) + 1
             d == [c EXCEPT !.at = "result", !.n = n]
  <2>1. n \in Nat
    BY FS_CardinalityType DEF RunsNumbered
  <2>2. Goes(c, d) /\ c.at = "run" /\ c.stage \in {"gemini", "alternatives"}
    BY <1>6 DEF InsertModelRun, CallsFormed
  <2>3. n = Cardinality(runs) + 1
    OBVIOUS
  <2> HIDE DEF n
  <2>4. /\ d \in Call /\ d.at = "result" /\ d.by = c.by /\ d.stage = c.stage
        /\ d.waited = c.waited /\ d.stamp = c.stamp /\ d.of = c.of /\ d.todo = c.todo
        /\ d.n = n
    BY <1>2, <2>1 DEF Call
  <2> HIDE DEF d
  <2>5. Moved(c, d)
    BY <1>6, <2>2, <2>3, <2>4 DEF Moved
  <2> QED BY <2>4, <2>5
<1>7. CASE InsertParsedResult(c)
  <2> DEFINE at == IF Len(c.todo) = 1 THEN "end" ELSE "run"
             d == [c EXCEPT !.at = at, !.todo = Tail(c.todo), !.n = 0]
  <2>1. Tail(c.todo) \in Seq(ProviderNames)
    <3>1. c.todo \in Seq(ProviderNames) /\ c.todo # <<>>
      BY <1>1, <1>2, <1>7 DEF InsertParsedResult, Call
    <3> HIDE DEF ProviderNames
    <3> QED BY <3>1, HeadTailProperties
  <2>2. Goes(c, d) /\ c.at = "result" /\ c.stage \in {"gemini", "alternatives"}
    BY <1>7 DEF InsertParsedResult, CallsFormed
  <2>3. at = "end" \/ (at = "run" /\ Len(c.todo) # 1)
    OBVIOUS
  <2> HIDE DEF at
  <2>4. /\ d \in Call /\ d.at = at /\ d.by = c.by /\ d.stage = c.stage
        /\ d.waited = c.waited /\ d.stamp = c.stamp /\ d.of = c.of
        /\ d.todo = Tail(c.todo)
    BY <1>2, <2>1, <2>3 DEF Call
  <2> HIDE DEF d
  <2>5. Moved(c, d)
    BY <1>7, <2>2, <2>3, <2>4 DEF Moved
  <2> QED BY <2>4, <2>5
<1>8. CASE Reads(c)
  <2> DEFINE d == [c EXCEPT !.at = "end"]
  <2>1. /\ d \in Call /\ d.at = "end" /\ d.by = c.by /\ d.stage = c.stage
        /\ d.waited = c.waited /\ d.stamp = c.stamp /\ d.of = c.of
    BY <1>2 DEF Call
  <2>2. Goes(c, d) /\ c.stage \in {"validate", "compare"} /\ c.at = "begin"
    BY <1>8 DEF Reads
  <2> HIDE DEF d
  <2>3. Moved(c, d)
    BY <2>1, <2>2 DEF Moved
  <2> QED BY <2>1, <2>3
<1>9. CASE RouteClaims(c)
  <2> DEFINE d == [c EXCEPT !.at = "write", !.seen = ValidResults, !.stamp = clock]
  <2>1. /\ d \in Call /\ d.at = "write" /\ d.by = c.by /\ d.stage = c.stage
        /\ d.waited = c.waited /\ d.stamp = clock /\ d.of = c.of /\ d.seen = ValidResults
    BY <1>2, Readings DEF Call
  <2>2. Goes(c, d) /\ c.stage = "route" /\ c.at = "begin"
    BY <1>9 DEF RouteClaims, Doing
  <2> HIDE DEF d
  <2>3. Moved(c, d)
    BY <2>1, <2>2 DEF Moved
  <2> QED BY <2>1, <2>3
<1>10. CASE InsertClaims(c)
  <2> DEFINE d == [c EXCEPT !.at = "more"]
  <2>1. /\ d \in Call /\ d.at = "more" /\ d.by = c.by /\ d.stage = c.stage
        /\ d.waited = c.waited /\ d.stamp = c.stamp /\ d.of = c.of /\ d.seen = c.seen
    BY <1>2 DEF Call
  <2>2. Goes(c, d) /\ c.stage = "route" /\ c.at = "write"
    BY <1>10 DEF InsertClaims, Doing
  <2> HIDE DEF d
  <2>3. Moved(c, d)
    BY <1>10, <2>1, <2>2 DEF Moved
  <2> QED BY <2>1, <2>3
<1>11. CASE InsertPropositions(c)
  <2> DEFINE d == [c EXCEPT !.at = "end"]
  <2>1. /\ d \in Call /\ d.at = "end" /\ d.by = c.by /\ d.stage = c.stage
        /\ d.waited = c.waited /\ d.stamp = c.stamp /\ d.of = c.of /\ d.seen = c.seen
    BY <1>2 DEF Call
  <2>2. Goes(c, d) /\ c.stage = "route" /\ c.at = "more"
    BY <1>11 DEF InsertPropositions, Doing
  <2> HIDE DEF d
  <2>3. Moved(c, d)
    BY <1>11, <2>1, <2>2 DEF Moved
  <2> QED BY <2>1, <2>3
<1>12. CASE ScoreRead(c)
  <2> DEFINE d == [c EXCEPT !.at = "write", !.of = VisibleProps]
  <2>1. /\ d \in Call /\ d.at = "write" /\ d.by = c.by /\ d.stage = c.stage
        /\ d.waited = c.waited /\ d.stamp = c.stamp /\ d.of = VisibleProps
    BY <1>2, Readings DEF Call
  <2>2. Goes(c, d) /\ c.stage = "score" /\ c.at = "begin"
    BY <1>12 DEF ScoreRead, Doing
  <2> HIDE DEF d
  <2>3. Moved(c, d)
    BY <2>1, <2>2 DEF Moved
  <2> QED BY <2>1, <2>3
<1>13. CASE InsertScores(c)
  <2> DEFINE d == [c EXCEPT !.at = "more"]
  <2>1. /\ d \in Call /\ d.at = "more" /\ d.by = c.by /\ d.stage = c.stage
        /\ d.waited = c.waited /\ d.stamp = c.stamp /\ d.of = c.of
    BY <1>2 DEF Call
  <2>2. Goes(c, d) /\ c.stage = "score" /\ c.at = "write"
    BY <1>13 DEF InsertScores, Doing
  <2> HIDE DEF d
  <2>3. Moved(c, d)
    BY <1>13, <2>1, <2>2 DEF Moved
  <2> QED BY <2>1, <2>3
<1>14. CASE PersistClusters(c)
  <2> DEFINE d == [c EXCEPT !.at = "rows"]
  <2>1. /\ d \in Call /\ d.at = "rows" /\ d.by = c.by /\ d.stage = c.stage
        /\ d.waited = c.waited /\ d.stamp = c.stamp /\ d.of = c.of
    BY <1>2 DEF Call
  <2>2. Goes(c, d) /\ c.stage = "score" /\ c.at = "more"
    BY <1>14 DEF PersistClusters, Doing
  <2> HIDE DEF d
  <2>3. Moved(c, d)
    BY <1>14, <2>1, <2>2 DEF Moved
  <2> QED BY <2>1, <2>3
<1>15. CASE PersistTargets(c)
  <2> DEFINE d == [c EXCEPT !.at = "end"]
  <2>1. /\ d \in Call /\ d.at = "end" /\ d.by = c.by /\ d.stage = c.stage
        /\ d.waited = c.waited /\ d.stamp = c.stamp /\ d.of = c.of
    BY <1>2 DEF Call
  <2>2. Goes(c, d) /\ c.stage = "score" /\ c.at = "rows"
    BY <1>15 DEF PersistTargets, Doing
  <2> HIDE DEF d
  <2>3. Moved(c, d)
    BY <2>1, <2>2 DEF Moved
  <2> QED BY <2>1, <2>3
<1>16. CASE RefreshTargets(c)
  <2> DEFINE of == CachedTargets.of
             fresh == c.by \in CachedTargets.after
             d == [c EXCEPT !.at = "more", !.legacy = of, !.fresh = fresh]
  <2>1. fresh \in BOOLEAN /\ (fresh => c.by \in CachedTargets.after)
    OBVIOUS
  <2>5. of \in SUBSET Numbers /\ of = CachedTargets.of
    BY Readings DEF Entry
  <2>2. Goes(c, d) /\ c.stage = "refresh" /\ c.at = "begin"
    BY <1>16 DEF RefreshTargets, Doing
  <2> HIDE DEF of, fresh
  <2>3. /\ d \in Call /\ d.at = "more" /\ d.by = c.by /\ d.stage = c.stage
        /\ d.waited = c.waited /\ d.stamp = c.stamp /\ d.of = c.of
        /\ d.legacy = of /\ (d.fresh => fresh)
    BY <1>2, <2>1, <2>5 DEF Call
  <2> HIDE DEF d
  <2>4. Moved(c, d)
    BY <2>1, <2>2, <2>3, <2>5 DEF Moved
  <2> QED BY <2>3, <2>4
<1>17. CASE RefreshSynthesis(c)
  <2> DEFINE seen == ValidResults \cap VisibleRuns
             d == [c EXCEPT !.at = "resolve", !.seen = seen]
  <2>1. seen \in SUBSET Numbers
    BY Readings
  <2>2. Goes(c, d) /\ c.stage = "refresh" /\ c.at = "more"
    BY <1>17 DEF RefreshSynthesis, Doing
  <2> HIDE DEF seen
  <2>3. /\ d \in Call /\ d.at = "resolve" /\ d.by = c.by /\ d.stage = c.stage
        /\ d.waited = c.waited /\ d.stamp = c.stamp /\ d.of = c.of
        /\ d.legacy = c.legacy /\ (d.fresh => c.fresh)
    BY <1>2, <2>1 DEF Call
  <2> HIDE DEF d
  <2>4. Moved(c, d)
    BY <2>2, <2>3 DEF Moved
  <2> QED BY <2>3, <2>4
<1>18. CASE RefreshResolve(c)
  <2> DEFINE d == [c EXCEPT !.at = "end"]
  <2>1. /\ d \in Call /\ d.at = "end" /\ d.by = c.by /\ d.stage = c.stage
        /\ d.waited = c.waited /\ d.stamp = c.stamp /\ d.of = c.of
    BY <1>2 DEF Call
  <2>2. Goes(c, d) /\ c.stage = "refresh" /\ c.at = "resolve"
    BY <1>18 DEF RefreshResolve, Doing
  <2> HIDE DEF d
  <2>3. Moved(c, d)
    BY <1>18, <2>1, <2>2 DEF Moved
  <2> QED BY <2>1, <2>3
<1> QED BY <1>3, <1>4, <1>5, <1>6, <1>7, <1>8, <1>9, <1>10, <1>11, <1>12, <1>13, <1>14,
           <1>15, <1>16, <1>17, <1>18 DEF Handle

-----------------------------------------------------------------------------
(* How the executions move.                                                *)

\* An execution that has not moved further than the fields its stage may set.
Same(e) ==
    /\ wf'[e].at = wf[e].at /\ wf'[e].alone = wf[e].alone /\ wf'[e].routed = wf[e].routed
    /\ wf'[e].graph = wf[e].graph /\ wf'[e].fresh = wf[e].fresh

\* The bundle of a create call is that of the execution that has made the call.
LEMMA BundleMoves ==
  ASSUME TypeOK, NEW c \in calls, InsertBundle(c)
  PROVE  /\ wf' \in [Executions -> Execution] /\ bundleAt' = c.stamp
         /\ \A e \in Executions : /\ wf'[e].alone <=> e = c.by
                                  /\ wf'[e].at = wf[e].at /\ wf'[e].waiting = wf[e].waiting
<1>1. wf \in [Executions -> Execution] /\ c \in Call
  BY DEF TypeOK
<1>2. bundleAt' = c.stamp
  BY DEF InsertBundle
<1>3. ASSUME NEW e \in Executions
      PROVE  /\ wf'[e] \in Execution /\ (wf'[e].alone <=> e = c.by)
             /\ wf'[e].at = wf[e].at /\ wf'[e].waiting = wf[e].waiting
  <2> DEFINE own == e = c.by
  <2>1. own \in BOOLEAN /\ (own <=> e = c.by)
    OBVIOUS
  <2>2. wf'[e] = [wf[e] EXCEPT !.alone = own]
    BY DEF InsertBundle
  <2> HIDE DEF own
  <2>3. wf'[e] \in Execution /\ wf'[e].alone = own /\ wf'[e].at = wf[e].at
        /\ wf'[e].waiting = wf[e].waiting
    BY <1>1, <2>1, <2>2 DEF Execution
  <2> QED BY <2>1, <2>3
<1>4. wf' = [e \in Executions |-> wf'[e]]
  BY DEF InsertBundle
<1> QED BY <1>2, <1>3, <1>4

\* The graph a refresh answers with has the runs that are shown, and its targets are those
\* the refresh was given if the graph was computed for it.
LEMMA GraphResolved ==
  ASSUME TypeOK, NEW c \in calls, RefreshResolve(c)
  PROVE  /\ graphs' \in Seq(Graph) /\ rows' \in SUBSET Numbers /\ openRows' \subseteq rows'
         /\ \E answer \in Graph, fresh \in BOOLEAN :
               /\ answer.arts = VisibleRuns
               /\ fresh => c.fresh /\ answer.legacy = c.legacy
               /\ wf' = IF c.waited
                        THEN [wf EXCEPT ![c.by].graph = answer, ![c.by].fresh = fresh]
                        ELSE wf
<1> DEFINE g == [synth |-> c.seen, arts |-> VisibleRuns, legacy |-> c.legacy]
           known == graphs # <<>> /\ SameFingerprint(g, graphs[Len(graphs)])
           answer == IF known THEN graphs[Len(graphs)] ELSE g
           fresh == c.fresh /\ ~ known
<1>1. c \in Call /\ graphs \in Seq(Graph) /\ rows \in SUBSET Numbers
      /\ openRows \subseteq rows
  BY DEF TypeOK
<1>2. g \in Graph /\ g.arts = VisibleRuns /\ g.legacy = c.legacy
  BY <1>1, Readings DEF Graph, Call
<1>3. known \in BOOLEAN
  OBVIOUS
<1>4. known => graphs[Len(graphs)] \in Graph /\ graphs[Len(graphs)].arts = g.arts
  <2>1. graphs # <<>> => graphs[Len(graphs)] \in Graph
    <3> HIDE DEF g
    <3> QED BY <1>1
  <2> QED BY <2>1 DEF SameFingerprint
<1>5. /\ graphs' = IF known THEN graphs ELSE Append(graphs, g)
      /\ rows' = IF Rests(answer) = {} THEN rows ELSE Rests(answer)
      /\ openRows' = IF Rests(answer) = {} THEN openRows ELSE Rests(answer)
      /\ wf' = IF c.waited
               THEN [wf EXCEPT ![c.by].graph = answer, ![c.by].fresh = fresh]
               ELSE wf
  BY DEF RefreshResolve
<1> HIDE DEF known, g
<1>6. answer \in Graph /\ answer.arts = VisibleRuns
  BY <1>2, <1>4
<1>7. fresh \in BOOLEAN /\ (fresh => c.fresh /\ answer.legacy = c.legacy)
  BY <1>1, <1>2, <1>3 DEF Call
<1>8. graphs' \in Seq(Graph)
  BY <1>1, <1>2, <1>5
<1> HIDE DEF answer, fresh
<1>9. rows' \in SUBSET Numbers /\ openRows' \subseteq rows'
  BY <1>1, <1>5, <1>6 DEF Rests, Graph
<1> QED BY <1>5, <1>6, <1>7, <1>8, <1>9

\* A handler sets the bundle's owner and the graph, and nothing else of an execution.
LEMMA HandlerWorkflows ==
  ASSUME TypeOK, CallsAwaited, NEW c \in calls, Handle(c)
  PROVE  /\ wf' \in [Executions -> Execution]
         /\ \A e \in Executions : wf'[e].at = wf[e].at /\ wf'[e].waiting = wf[e].waiting
         /\ ~ InsertBundle(c) =>
               \A e \in Executions :
                  \/ Same(e)
                  \/ /\ RefreshResolve(c) /\ Awaits(e, c)
                     /\ wf'[e].alone = wf[e].alone /\ wf'[e].routed = wf[e].routed
                     /\ wf'[e].graph.arts = VisibleRuns
                     /\ wf'[e].fresh => c.fresh /\ wf'[e].graph.legacy = c.legacy
<1>1. wf \in [Executions -> Execution]
  BY DEF TypeOK
<1>2. CASE InsertBundle(c)
  BY <1>2, BundleMoves
<1>3. CASE RefreshResolve(c)
  <2>1. PICK answer \in Graph, fresh \in BOOLEAN :
               /\ answer.arts = VisibleRuns
               /\ fresh => c.fresh /\ answer.legacy = c.legacy
               /\ wf' = IF c.waited
                        THEN [wf EXCEPT ![c.by].graph = answer, ![c.by].fresh = fresh]
                        ELSE wf
    BY <1>3, GraphResolved
  <2>2. CASE ~ c.waited
    BY <1>1, <2>1, <2>2 DEF Same
  <2>3. CASE c.waited
    <3>1. c.by \in Executions
      BY <2>3 DEF CallsAwaited
    <3> DEFINE w == [wf[c.by] EXCEPT !.graph = answer, !.fresh = fresh]
    <3>2. wf' = [wf EXCEPT ![c.by] = w]
      BY <1>1, <2>1, <2>3, <3>1
    <3>3. /\ w \in Execution /\ w.at = wf[c.by].at /\ w.waiting = wf[c.by].waiting
          /\ w.alone = wf[c.by].alone /\ w.routed = wf[c.by].routed
          /\ w.graph = answer /\ w.fresh = fresh
      <4>1. wf[c.by] \in Execution
        BY <1>1, <3>1
      <4>2. w \in Execution
        BY <4>1 DEF Execution
      <4>3. /\ w.at = wf[c.by].at /\ w.waiting = wf[c.by].waiting
            /\ w.alone = wf[c.by].alone /\ w.routed = wf[c.by].routed
            /\ w.graph = answer /\ w.fresh = fresh
        BY <4>1 DEF Execution
      <4> QED BY <4>2, <4>3
    <3> HIDE DEF w
    <3>4. wf'[c.by] = w /\ \A e \in Executions \ {c.by} : wf'[e] = wf[e]
      BY <1>1, <3>1, <3>2
    <3>5. wf' \in [Executions -> Execution]
      BY <1>1, <3>1, <3>2, <3>3
    <3>6. \A e \in Executions \ {c.by} : Same(e) /\ wf'[e].waiting = wf[e].waiting
      BY <3>4 DEF Same
    <3>7. Awaits(c.by, c)
      BY <2>3 DEF Awaits
    <3> QED BY <1>3, <2>1, <3>3, <3>4, <3>5, <3>6, <3>7
  <2> QED BY <2>2, <2>3
<1>4. CASE ~ InsertBundle(c) /\ ~ RefreshResolve(c)
  <2>1. wf' = wf
    BY <1>4 DEF Handle, CreateBegin, ModelsAnswer, InsertModelRun,
       InsertParsedResult, Reads, RouteClaims, InsertClaims, InsertPropositions, ScoreRead,
       InsertScores, PersistClusters, PersistTargets, RefreshTargets, RefreshSynthesis
  <2> QED BY <1>1, <2>1 DEF Same
<1> QED BY <1>2, <1>3, <1>4

\* The first step of an execution.
LEMMA PolicyMoves ==
  ASSUME TypeOK, NEW e \in Executions, Policy(e)
  PROVE  /\ wf' \in [Executions -> Execution] /\ wf[e].at = "policy" /\ wf'[e].at = "create"
         /\ \A f \in Executions \ {e} : wf'[f] = wf[f]
<1>1. wf \in [Executions -> Execution] /\ wf[e].at = "policy"
  BY DEF TypeOK, Policy
<1>2. PICK alternatives \in BOOLEAN, compare \in BOOLEAN :
          wf' = [wf EXCEPT ![e].at = "create",
                           ![e].skipAlternatives = alternatives,
                           ![e].alternatives = IF alternatives THEN "skipped" ELSE @,
                           ![e].skipCompare = compare]
  BY DEF Policy
<1> DEFINE status == IF alternatives THEN "skipped" ELSE wf[e].alternatives
           w == [wf[e] EXCEPT !.at = "create", !.skipAlternatives = alternatives,
                              !.alternatives = status, !.skipCompare = compare]
<1>3. status \in Statuses
  BY <1>1 DEF Execution, Statuses
<1>4. wf' = [wf EXCEPT ![e] = w]
  BY <1>1, <1>2
<1> HIDE DEF status
<1>5. w \in Execution /\ w.at = "create"
  <2>1. wf[e] \in Execution /\ "create" \in Stages \cup {"policy", "done", "failed"}
    BY <1>1 DEF Stages
  <2> QED BY <1>3, <2>1 DEF Execution
<1> HIDE DEF w
<1> QED BY <1>1, <1>4, <1>5

\* The workflow makes a call and waits.
LEMMA SendMoves ==
  ASSUME TypeOK, NEW e \in Executions, Send(e)
  PROVE  /\ wf' \in [Executions -> Execution] /\ wf[e].at \in Stages
         /\ ~ wf[e].waiting /\ wf'[e].waiting /\ Same(e)
         /\ \A f \in Executions \ {e} : wf'[f] = wf[f]
         /\ calls' = calls \cup {NewCall(e, wf[e].at)}
<1>1. wf \in [Executions -> Execution] /\ wf[e].at \in Stages /\ ~ wf[e].waiting
      /\ calls' = calls \cup {NewCall(e, wf[e].at)}
  BY DEF TypeOK, Send
<1> DEFINE w == [wf[e] EXCEPT !.waiting = TRUE]
<1>2. wf' = [wf EXCEPT ![e] = w]
  BY <1>1 DEF Send
<1>3. /\ w \in Execution /\ w.waiting = TRUE /\ w.at = wf[e].at /\ w.alone = wf[e].alone
      /\ w.routed = wf[e].routed /\ w.graph = wf[e].graph /\ w.fresh = wf[e].fresh
  BY <1>1 DEF Execution
<1> HIDE DEF w
<1> QED BY <1>1, <1>2, <1>3 DEF Same

\* An answer moves the execution that waits for it on.
LEMMA ReplyMoves ==
  ASSUME TypeOK, CallsAwaited, NEW c \in calls, Reply(c)
  PROVE  /\ wf' \in [Executions -> Execution] /\ calls' = calls \ {c} /\ c.at = "end"
         /\ \A e \in Executions :
               IF Awaits(e, c)
               THEN /\ wf[e].at = c.stage /\ wf'[e].at = After(wf[e])
                    /\ wf'[e].alone = wf[e].alone
                    /\ wf'[e].graph = wf[e].graph /\ wf'[e].fresh = wf[e].fresh
                    /\ wf'[e].routed = IF c.stage = "route" THEN c.seen ELSE wf[e].routed
               ELSE wf'[e] = wf[e]
<1>1. /\ wf \in [Executions -> Execution] /\ c \in Call
      /\ calls' = calls \ {c} /\ c.at = "end"
  BY DEF TypeOK, Reply
<1>2. CASE ~ c.waited
  BY <1>1, <1>2 DEF Reply, Awaits
<1>3. CASE c.waited
  <2>1. c.by \in Executions /\ wf[c.by].at = c.stage /\ c.stage \in Stages
    BY <1>1, <1>3 DEF CallsAwaited, Call
  <2> DEFINE m == Marked(wf[c.by], "ok")
             a == Arrived(m)
             routed == IF c.stage = "route" THEN c.seen ELSE a.routed
             w == [a EXCEPT !.routed = routed]
  <2>2. /\ m \in Execution /\ m.at = wf[c.by].at /\ m.alone = wf[c.by].alone
        /\ m.routed = wf[c.by].routed /\ m.graph = wf[c.by].graph /\ m.fresh = wf[c.by].fresh
    BY <1>1, <2>1, MarkedFacts DEF Statuses
  <2>3. After(m) = After(wf[c.by])
    <3>1. /\ m.skipAlternatives = wf[c.by].skipAlternatives
          /\ m.skipCompare = wf[c.by].skipCompare
      BY <1>1, <2>1 DEF Marked, Execution
    <3>2. m.at = "score" => m.alternatives = wf[c.by].alternatives
      BY <1>1, <2>1, <2>2 DEF Marked, Execution
    <3> HIDE DEF m
    <3> QED BY <2>2, <3>1, <3>2 DEF After
  <2> HIDE DEF m
  <2>4. /\ a \in Execution /\ a.at = After(wf[c.by]) /\ a.alone = wf[c.by].alone
        /\ a.routed = wf[c.by].routed /\ a.graph = wf[c.by].graph /\ a.fresh = wf[c.by].fresh
    BY <2>1, <2>2, <2>3, ArrivedFacts
  <2> HIDE DEF a
  <2>5. routed \in SUBSET Numbers
        /\ routed = IF c.stage = "route" THEN c.seen ELSE wf[c.by].routed
    BY <1>1, <2>4 DEF Call, Execution
  <2>6. wf' = [wf EXCEPT ![c.by] = w]
    BY <1>1, <1>3, <2>1 DEF Reply, a, m
  <2> HIDE DEF routed
  <2>7. /\ w \in Execution /\ w.at = a.at /\ w.alone = a.alone
        /\ w.routed = routed /\ w.graph = a.graph /\ w.fresh = a.fresh
    BY <2>4, <2>5 DEF Execution
  <2> HIDE DEF w
  <2>8. wf' \in [Executions -> Execution] /\ wf'[c.by] = w
        /\ \A e \in Executions \ {c.by} : wf'[e] = wf[e]
    BY <1>1, <2>1, <2>6, <2>7
  <2> QED BY <1>1, <1>3, <2>1, <2>4, <2>5, <2>7, <2>8 DEF Awaits
<1> QED BY <1>2, <1>3

\* A failed or given-up call leaves its execution at the stage, past it or at its end.
LEMMA FailMoves ==
  ASSUME TypeOK, CallsAwaited, NEW c \in calls, Break(c) \/ GiveUp(c)
  PROVE  /\ wf' \in [Executions -> Execution]
         /\ \A e \in Executions :
               IF Awaits(e, c)
               THEN /\ wf[e].at = c.stage
                    /\ wf'[e].alone = wf[e].alone /\ wf'[e].routed = wf[e].routed
                    /\ wf'[e].graph = wf[e].graph /\ wf'[e].fresh = wf[e].fresh
                    /\ \/ wf'[e].at = wf[e].at /\ wf[e].at \in Retried
                       \/ wf'[e].at = "failed"
                       \/ wf[e].at = "alternatives" /\ wf'[e].at = "validate"
                       \/ wf[e].at = "compare" /\ wf'[e].at = "refresh"
               ELSE wf'[e] = wf[e]
<1>1. wf \in [Executions -> Execution] /\ c \in Call
  BY DEF TypeOK
<1>2. \E transient \in BOOLEAN :
         wf' = IF c.waited THEN [wf EXCEPT ![c.by] = Refused(wf[c.by], transient)] ELSE wf
  BY DEF Break, GiveUp
<1>3. CASE ~ c.waited
  BY <1>1, <1>2, <1>3 DEF Awaits
<1>4. CASE c.waited
  <2>1. c.by \in Executions /\ wf[c.by].at = c.stage /\ c.stage \in Stages
    BY <1>1, <1>4 DEF CallsAwaited, Call
  <2> DEFINE w == wf'[c.by]
  <2>2. /\ \E transient \in BOOLEAN : w = Refused(wf[c.by], transient)
        /\ wf' = [wf EXCEPT ![c.by] = w]
    BY <1>1, <1>2, <1>4, <2>1
  <2> HIDE DEF w
  <2>3. /\ w \in Execution /\ w.alone = wf[c.by].alone /\ w.routed = wf[c.by].routed
        /\ w.graph = wf[c.by].graph /\ w.fresh = wf[c.by].fresh
        /\ \/ w.at = wf[c.by].at /\ wf[c.by].at \in Retried
           \/ w.at = "failed"
           \/ wf[c.by].at = "alternatives" /\ w.at = "validate"
           \/ wf[c.by].at = "compare" /\ w.at = "refresh"
    <3> DEFINE v == wf[c.by]
    <3>1. v \in Execution /\ v.at \in Stages
      BY <1>1, <2>1
    <3>2. \E transient \in BOOLEAN : w = Refused(v, transient)
      BY <2>2
    <3> HIDE DEF v
    <3>3. /\ w \in Execution /\ w.alone = v.alone /\ w.routed = v.routed
          /\ w.graph = v.graph /\ w.fresh = v.fresh
          /\ \/ w.at = v.at /\ v.at \in Retried
             \/ w.at = "failed"
             \/ v.at = "alternatives" /\ w.at = "validate"
             \/ v.at = "compare" /\ w.at = "refresh"
      BY <3>1, <3>2, RefusedFacts
    <3> QED BY <3>3 DEF v
  <2>4. wf' \in [Executions -> Execution] /\ wf'[c.by] = w
        /\ \A e \in Executions \ {c.by} : wf'[e] = wf[e]
    BY <1>1, <2>1, <2>2, <2>3
  <2> QED BY <1>4, <2>1, <2>3, <2>4 DEF Awaits
<1> QED BY <1>3, <1>4

-----------------------------------------------------------------------------
(* Types and the tables.                                                   *)

\* Where a handler that runs now was before: at the same place, not yet called, a step
\* behind, or waited for.
Came(x) ==
    \/ x \in calls
    \/ \E e \in Callers, stage \in Stages :
          x = NewCall(e, stage) /\ (e \in Executions => Send(e) /\ stage = wf[e].at)
    \/ \E c \in calls : Handle(c) /\ Moved(c, x)
    \/ \E c \in calls : GiveUp(c) /\ x = [c EXCEPT !.waited = FALSE]

LEMMA CallsCame ==
  ASSUME TypeOK, RunsNumbered, CallsFormed, Next
  PROVE  \A x \in calls' : Came(x)
<1>1. ASSUME NEW e \in Executions, Policy(e) PROVE calls' = calls
  BY <1>1 DEF Policy
<1>2. ASSUME NEW e \in Executions, Send(e) PROVE \A x \in calls' : Came(x)
  <2>1. calls' = calls \cup {NewCall(e, wf[e].at)} /\ wf[e].at \in Stages
    BY <1>2 DEF Send
  <2> QED BY <1>2, <2>1 DEF Came, Callers
<1>3. ASSUME NEW c \in calls, Handle(c) PROVE \A x \in calls' : Came(x)
  <2>1. PICK d \in Call : Moved(c, d)
    BY <1>3, HandlerMoves
  <2>2. calls' = (calls \ {c}) \cup {d}
    BY <2>1 DEF Moved, Goes
  <2> QED BY <1>3, <2>1, <2>2 DEF Came
<1>4. ASSUME NEW c \in calls, Reply(c) \/ Break(c) PROVE \A x \in calls' : x \in calls
  BY <1>4 DEF Reply, Break
<1>5. ASSUME NEW c \in calls, GiveUp(c) PROVE \A x \in calls' : Came(x)
  <2>1. calls' = (calls \ {c}) \cup {[c EXCEPT !.waited = FALSE]}
    BY <1>5 DEF GiveUp, Goes
  <2> QED BY <1>5, <2>1 DEF Came
<1>6. ASSUME Ask PROVE \A x \in calls' : Came(x)
  <2>1. PICK stage \in Stages : calls' = calls \cup {NewCall(Others, stage)}
    BY <1>6 DEF Ask
  <2> QED BY <2>1, StageAssumption DEF Came, Callers
<1>7. ReadTargets \/ Decide \/ ClearCache \/ Tick \/ Ended => calls' = calls
  BY DEF ReadTargets, Decide, ClearCache, Tick, Ended, vars
<1> QED BY <1>1, <1>2, <1>3, <1>4, <1>5, <1>6, <1>7 DEF Next, Work, Came

\* A call stays a call.
LEMMA CameFacts ==
  ASSUME TypeOK, NEW x, Came(x)
  PROVE  x \in Call
<1>1. ASSUME NEW c \in calls, x = [c EXCEPT !.waited = FALSE] PROVE x \in Call
  <2>1. c \in Call
    BY DEF TypeOK
  <2> QED BY <1>1, <2>1 DEF Call
<1> QED BY <1>1, NewCallFacts DEF Came, Moved, TypeOK

\* A new run has the next number.
LEMMA RunAdded ==
  ASSUME TypeOK, RunsNumbered, CallsFormed, NEW c \in calls, InsertModelRun(c)
  PROVE  \E r \in [n : Numbers, by : Callers, at : Time, provider : ProviderNames] :
            /\ r.n = Cardinality(runs) + 1 /\ r.by = c.by /\ r.provider = Head(c.todo)
            /\ r.at = clock /\ runs' = runs \cup {r} /\ r.n \notin Stored
<1> DEFINE n == Cardinality(runs) + 1
           r == [n |-> n, by |-> c.by, provider |-> Head(c.todo), at |-> clock]
<1>1. n \in Numbers /\ n \notin Stored
  <2>1. Cardinality(runs) \in Nat
    BY FS_CardinalityType DEF RunsNumbered
  <2>2. \A s \in runs : s.n \in Nat /\ s.n <= Cardinality(runs)
    BY DEF RunsNumbered, TypeOK, Numbers
  <2> QED BY <2>1, <2>2 DEF Numbers, Stored
<1>2. c \in Call /\ clock \in Time /\ c.at = "run"
  BY DEF TypeOK, InsertModelRun
<1>3. Head(c.todo) \in ProviderNames
  <2>1. c.todo \in Seq(ProviderNames) /\ c.todo # <<>>
    BY <1>2 DEF CallsFormed, Call
  <2> HIDE DEF ProviderNames
  <2> QED BY <2>1
<1>4. runs' = runs \cup {r} /\ n = Cardinality(runs) + 1
  BY DEF InsertModelRun
<1> HIDE DEF n
<1>5. r \in [n : Numbers, by : Callers, at : Time, provider : ProviderNames]
  BY <1>1, <1>2, <1>3 DEF Call
<1> QED BY <1>1, <1>4, <1>5

\* So do the numbers count the runs.
LEMMA RunsNumberedNext ==
  ASSUME TypeOK, RunsNumbered, CallsFormed, Next
  PROVE  /\ RunsNumbered' /\ runs \subseteq runs'
         /\ runs' \subseteq [n : Numbers, by : Callers, at : Time, provider : ProviderNames]
         /\ \A r, s \in runs' : r.n = s.n => r = s
<1>1. CASE runs' = runs
  BY <1>1 DEF RunsNumbered, TypeOK
<1>2. CASE runs' # runs
  <2>1. PICK c \in calls : InsertModelRun(c)
    BY <1>2, Frames
  <2>2. PICK r \in [n : Numbers, by : Callers, at : Time, provider : ProviderNames] :
            /\ r.n = Cardinality(runs) + 1
            /\ runs' = runs \cup {r} /\ r.n \notin Stored
    BY <2>1, RunAdded
  <2>3. r \notin runs
    BY <2>2 DEF Stored
  <2>4. IsFiniteSet(runs') /\ Cardinality(runs') = Cardinality(runs) + 1
    BY <2>2, <2>3, FS_AddElement DEF RunsNumbered
  <2>5. Cardinality(runs) \in Nat
    BY FS_CardinalityType DEF RunsNumbered
  <2>6. \A s \in runs : s.n \in Nat /\ s.n <= Cardinality(runs)
    BY DEF RunsNumbered, TypeOK, Numbers
  <2>7. RunsNumbered'
    <3>1. \A s \in runs' : s.n <= Cardinality(runs) + 1
      BY <2>2, <2>5, <2>6
    <3> QED BY <2>4, <3>1 DEF RunsNumbered
  <2>8. \A s, t \in runs' : s.n = t.n => s = t
    BY <2>2 DEF Stored, TypeOK
  <2> QED BY <2>2, <2>7, <2>8 DEF TypeOK
<1> QED BY <1>1, <1>2

\* Propositions keep their claims, and one has one row.
LEMMA PropsKept ==
  ASSUME TypeOK, Next
  PROVE  /\ props' \subseteq Dated /\ Ofs(props) \subseteq Ofs(props')
         /\ \A p, q \in props' : p.of = q.of => p = q
<1>1. CASE props' = props
  BY <1>1 DEF TypeOK
<1>2. CASE props' # props
  <2>1. PICK c \in calls : InsertPropositions(c)
    BY <1>2, Frames
  <2> DEFINE p == [of |-> c.seen, at |-> c.stamp]
  <2>2. props' = {q \in props : q.of # c.seen} \cup {p}
    BY <1>2, <2>1 DEF InsertPropositions, Replaced
  <2>3. p \in Dated /\ p.of = c.seen
    BY DEF TypeOK, Call, Dated
  <2> HIDE DEF p
  <2>4. \A q \in props : q \in Dated
    BY DEF TypeOK
  <2>5. \A q \in props : \E k \in props' : k.of = q.of
    BY <2>2, <2>3
  <2> QED BY <2>2, <2>3, <2>4, <2>5 DEF TypeOK, Ofs
<1> QED BY <1>1, <1>2

\* What a decision has ever closed is remembered.
LEMMA ReviewsNext ==
  ASSUME TypeOK, Next
  PROVE  /\ closed' \subseteq SUBSET Numbers /\ onceClosed' \subseteq SUBSET Numbers
         /\ onceClosed \subseteq onceClosed'
         /\ closed \subseteq onceClosed => closed' \subseteq onceClosed'
<1>1. closed \subseteq SUBSET Numbers /\ onceClosed \subseteq SUBSET Numbers
  BY DEF TypeOK
<1>2. CASE closed' = closed /\ onceClosed' = onceClosed
  BY <1>1, <1>2
<1>3. CASE ~ (closed' = closed /\ onceClosed' = onceClosed)
  <2>1. Decide
    BY <1>3, Frames
  <2>2. PICK ps \in SUBSET Ofs(props), closes \in BOOLEAN :
           /\ closed' = IF closes THEN closed \cup ps ELSE closed \ ps
           /\ onceClosed' = IF closes THEN onceClosed \cup ps ELSE onceClosed
    BY <2>1 DEF Decide, Decided, Ofs
  <2>3. ps \subseteq SUBSET Numbers
    BY <2>2 DEF TypeOK, Ofs, Dated
  <2> QED BY <1>1, <2>2, <2>3
<1> QED BY <1>2, <1>3

\* Every variable of the model keeps its type.
LEMMA TypeNext ==
  ASSUME TypeOK, RunsNumbered, CallsFormed, CallsAwaited, Next
  PROVE  TypeOK'
<1>1. clock' \in Time
  <2>1. CASE clock' = clock
    BY <2>1 DEF TypeOK
  <2>2. CASE clock' # clock
    BY <2>2, Frames, StageAssumption DEF Tick, TypeOK, Time
  <2> QED BY <2>1, <2>2
<1>2. bundleAt' \in Time \cup {Never}
  <2>1. CASE bundleAt' = bundleAt
    BY <2>1 DEF TypeOK
  <2>2. CASE bundleAt' # bundleAt
    <3>1. PICK c \in calls : InsertBundle(c)
      BY <2>2, Frames
    <3>2. bundleAt' = c.stamp /\ c \in Call
      BY <3>1 DEF InsertBundle, TypeOK
    <3> QED BY <3>2 DEF Call
  <2> QED BY <2>1, <2>2
<1>3. results' \subseteq [n : Numbers, valid : BOOLEAN, at : Time]
  <2>1. CASE results' = results
    BY <2>1 DEF TypeOK
  <2>2. CASE results' # results
    <3>1. PICK c \in calls : InsertParsedResult(c)
      BY <2>2, Frames
    <3>2. PICK valid \in BOOLEAN :
             results' = results \cup {[n |-> c.n, valid |-> valid, at |-> clock]}
      BY <3>1 DEF InsertParsedResult
    <3>3. c.n \in Numbers /\ clock \in Time
      BY <3>1 DEF InsertParsedResult, CallsFormed, Stored, TypeOK
    <3> QED BY <3>2, <3>3 DEF TypeOK
  <2> QED BY <2>1, <2>2
<1>4. claims' \subseteq [n : Numbers, at : Time] /\ overtaken' \subseteq Numbers
  <2>1. CASE claims' = claims /\ overtaken' = overtaken
    BY <2>1 DEF TypeOK
  <2>2. CASE ~ (claims' = claims /\ overtaken' = overtaken)
    <3>1. PICK c \in calls : InsertClaims(c)
      BY <2>2, Frames
    <3>2. c.seen \in SUBSET Numbers /\ c.stamp \in Time
      BY DEF TypeOK, Call
    <3>3. claims \subseteq [n : Numbers, at : Time] /\ overtaken \subseteq Numbers
      BY DEF TypeOK
    <3>4. claims' = {k \in claims : k.n \notin c.seen}
                       \cup {[n |-> n, at |-> c.stamp] : n \in c.seen}
      BY <3>1 DEF InsertClaims
    <3>5. overtaken' = overtaken
              \cup {k.n : k \in {h \in claims : h.n \in c.seen /\ h.at > c.stamp}}
      BY <3>1 DEF InsertClaims
    <3>6. overtaken' \subseteq Numbers
      BY <3>3, <3>5
    <3>7. claims' \subseteq [n : Numbers, at : Time]
      BY <3>2, <3>3, <3>4
    <3> QED BY <3>6, <3>7
  <2> QED BY <2>1, <2>2
<1>5. scored' \subseteq Ofs(props')
  <2>1. CASE scored' = scored
    BY <2>1, PropsKept DEF TypeOK, Ofs
  <2>2. CASE scored' # scored
    <3>1. PICK c \in calls : InsertScores(c)
      BY <2>2, Frames
    <3>2. c.of \subseteq Ofs(props) /\ scored' = scored \cup c.of
      BY <3>1 DEF InsertScores, Scores, CallsFormed
    <3> QED BY <3>2, PropsKept DEF TypeOK, Ofs
  <2> QED BY <2>1, <2>2
<1>6. clusters' \subseteq Dated /\ \A k \in clusters' : k.of \in Ofs(props')
  <2>1. CASE clusters' = clusters
    BY <2>1, PropsKept DEF TypeOK, Ofs
  <2>2. CASE clusters' # clusters
    <3>1. PICK c \in calls : PersistClusters(c)
      BY <2>2, Frames
    <3>2. clusters' = {k \in clusters : k.of \notin VisibleProps}
                         \cup {[of |-> p, at |-> clock] : p \in VisibleProps}
      BY <3>1 DEF PersistClusters
    <3>3. /\ VisibleProps \in SUBSET SUBSET Numbers /\ VisibleProps \subseteq Ofs(props)
          /\ clock \in Time
      BY Readings DEF TypeOK
    <3>4. clusters \subseteq Dated /\ \A k \in clusters : k.of \in Ofs(props)
      BY DEF TypeOK, Ofs
    <3>5. clusters' \subseteq Dated
      BY <3>2, <3>3, <3>4 DEF Dated
    <3>6. \A k \in clusters' : k.of \in Ofs(props)
      BY <3>2, <3>3, <3>4
    <3> QED BY <3>5, <3>6, PropsKept
  <2> QED BY <2>1, <2>2
<1>7. /\ graphs' \in Seq(Graph) /\ rows' \in SUBSET Numbers /\ openRows' \subseteq rows'
      /\ cache' \subseteq Entry /\ Cardinality(cache') <= 1
  <2>1. /\ graphs \in Seq(Graph) /\ rows \in SUBSET Numbers /\ openRows \subseteq rows
        /\ cache \subseteq Entry /\ Cardinality(cache) <= 1
    BY DEF TypeOK
  <2>2. Cardinality({}) = 0 /\ \A S : Cardinality({S}) = 1
    <3>1. Cardinality({}) = 0
      BY FS_EmptySet
    <3>2. \A S : Cardinality({S}) = 1
      BY FS_Singleton
    <3> QED BY <3>1, <3>2
  <2> DEFINE Kept == /\ graphs' \in Seq(Graph) /\ rows' \in SUBSET Numbers
                     /\ openRows' \subseteq rows'
                     /\ cache' \in {cache, {}, {CachedTargets}}
  <2>3. ASSUME graphs' = graphs, rows' = rows, openRows' = openRows,
               cache' \in {cache, {}, {CachedTargets}}
        PROVE  Kept
    BY <2>1, <2>3
  <2>4. ASSUME NEW c \in calls, Handle(c) PROVE Kept
    <3>1. CASE RefreshResolve(c)
      <4>1. cache' = {}
        BY <3>1 DEF RefreshResolve
      <4> QED BY <3>1, <4>1, GraphResolved
    <3>2. CASE RefreshTargets(c)
      <4>1. graphs' = graphs /\ rows' = rows /\ openRows' = openRows
            /\ cache' = {CachedTargets}
        BY <3>2 DEF RefreshTargets, stored
      <4> QED BY <2>3, <4>1
    <3>3. CASE PersistTargets(c)
      <4>1. PICK again \in SUBSET (Targets \cap rows) :
               openRows' = openRows \cup (Targets \ rows) \cup again
        BY <3>3 DEF PersistTargets
      <4>2. graphs' = graphs /\ rows' = rows \cup Targets /\ cache' = cache
        BY <3>3 DEF PersistTargets
      <4> QED BY <2>1, <4>1, <4>2, Readings
    <3>4. CASE ~ RefreshResolve(c) /\ ~ RefreshTargets(c) /\ ~ PersistTargets(c)
      <4>1. graphs' = graphs /\ rows' = rows /\ openRows' = openRows /\ cache' = cache
        BY <2>4, <3>4 DEF Handle, CreateBegin, InsertBundle, ModelsAnswer, InsertModelRun,
           InsertParsedResult, Reads, RouteClaims, InsertClaims, InsertPropositions,
           ScoreRead, InsertScores, PersistClusters, RefreshSynthesis, stored
      <4> QED BY <2>3, <4>1
    <3> QED BY <3>1, <3>2, <3>3, <3>4
  <2>5. ASSUME NEW c \in calls, Reply(c) \/ Break(c) \/ GiveUp(c) PROVE Kept
    <3>1. graphs' = graphs /\ rows' = rows /\ openRows' = openRows /\ cache' = cache
      BY <2>5 DEF Reply, Break, GiveUp, stored
    <3> QED BY <2>3, <3>1
  <2>6. ASSUME NEW e \in Executions, Policy(e) \/ Send(e) PROVE Kept
    <3>1. graphs' = graphs /\ rows' = rows /\ openRows' = openRows /\ cache' = cache
      BY <2>6 DEF Policy, Send, stored
    <3> QED BY <2>3, <3>1
  <2>7. ASSUME Ask \/ Tick \/ Ended PROVE Kept
    <3>1. graphs' = graphs /\ rows' = rows /\ openRows' = openRows /\ cache' = cache
      BY <2>7 DEF Ask, Tick, Ended, vars, stored
    <3> QED BY <2>3, <3>1
  <2>8. ASSUME ReadTargets \/ ClearCache PROVE Kept
    <3>1. graphs' = graphs /\ rows' = rows /\ openRows' = openRows
          /\ cache' \in {{}, {CachedTargets}}
      BY <2>8 DEF ReadTargets, ClearCache, stored
    <3> QED BY <2>3, <3>1
  <2>10. ASSUME Decide PROVE Kept
    <3>1. PICK ns \in SUBSET rows :
             openRows' = openRows \ ns \/ openRows' = openRows \cup ns
      BY <2>10 DEF Decide
    <3>2. graphs' = graphs /\ rows' = rows /\ cache' \in {{}, cache}
      BY <2>10 DEF Decide
    <3> QED BY <2>1, <3>1, <3>2
  <2> HIDE DEF Kept
  <2>9. Kept
    BY <2>4, <2>5, <2>6, <2>7, <2>8, <2>10 DEF Next, Work
  <2>11. /\ graphs' \in Seq(Graph) /\ rows' \in SUBSET Numbers /\ openRows' \subseteq rows'
         /\ cache' \in {cache, {}, {CachedTargets}}
    BY <2>9 DEF Kept
  <2>12. cache' \subseteq Entry
    BY <2>1, <2>11, Readings
  <2>13. Cardinality(cache') <= 1
    <3>1. CASE cache' = cache
      BY <2>1, <3>1
    <3>2. CASE cache' = {}
      BY <2>2, <3>2
    <3>3. CASE cache' = {CachedTargets}
      <4>1. Cardinality({CachedTargets}) = 1
        BY <2>2
      <4> QED BY <3>3, <4>1
    <3> QED BY <2>11, <3>1, <3>2, <3>3
  <2> QED BY <2>11, <2>12, <2>13
<1>8. wf' \in [Executions -> Execution]
  <2>1. CASE \E e \in Executions : Policy(e) \/ Send(e)
    BY <2>1, PolicyMoves, SendMoves
  <2>2. CASE \E c \in calls : Handle(c)
    BY <2>2, HandlerWorkflows
  <2>3. CASE \E c \in calls : Reply(c) \/ Break(c) \/ GiveUp(c)
    BY <2>3, ReplyMoves, FailMoves
  <2>4. CASE Ask \/ ReadTargets \/ Decide \/ ClearCache \/ Tick \/ Ended
    BY <2>4 DEF Ask, ReadTargets, Decide, ClearCache, Tick, Ended, vars, TypeOK
  <2> QED BY <2>1, <2>2, <2>3, <2>4 DEF Next, Work
<1>9. calls' \subseteq Call
  BY CallsCame, CameFacts
<1>10. faults' \in 0 .. MaxFaults /\ asked' \in 0 .. MaxCalls
  <2>1. faults \in 0 .. MaxFaults /\ asked \in 0 .. MaxCalls
        /\ MaxFaults \in Nat /\ MaxCalls \in Nat
    BY StageAssumption DEF TypeOK
  <2>2. ASSUME NEW c \in calls, Handle(c) PROVE faults' = faults /\ asked' = asked
    BY <2>2 DEF Handle, CreateBegin, InsertBundle, ModelsAnswer, InsertModelRun,
       InsertParsedResult, Reads, RouteClaims, InsertClaims, InsertPropositions, ScoreRead,
       InsertScores, PersistClusters, PersistTargets, RefreshTargets, RefreshSynthesis,
       RefreshResolve
  <2>3. ASSUME NEW c \in calls, Reply(c) \/ Break(c) \/ GiveUp(c)
        PROVE  faults' \in 0 .. MaxFaults /\ asked' = asked
    <3>1. CASE Reply(c)
      BY <2>1, <3>1 DEF Reply
    <3>2. CASE Break(c) \/ GiveUp(c)
      <4>1. faults < MaxFaults /\ faults' = faults + 1 /\ asked' = asked
        BY <3>2 DEF Break, GiveUp
      <4> QED BY <2>1, <4>1
    <3> QED BY <2>3, <3>1, <3>2
  <2>4. ASSUME NEW e \in Executions, Policy(e) \/ Send(e)
        PROVE  faults' = faults /\ asked' = asked
    BY <2>4 DEF Policy, Send
  <2>5. ReadTargets \/ ClearCache \/ Tick \/ Ended => faults' = faults /\ asked' = asked
    BY DEF ReadTargets, ClearCache, Tick, Ended, vars
  <2>6. Ask \/ Decide => faults' = faults /\ asked' \in 0 .. MaxCalls
    BY <2>1 DEF Ask, Decide
  <2> QED BY <2>1, <2>2, <2>3, <2>4, <2>5, <2>6 DEF Next, Work
<1> QED BY <1>1, <1>2, <1>3, <1>4, <1>5, <1>6, <1>7, <1>8, <1>9, <1>10, RunsNumberedNext,
           PropsKept, ReviewsNext DEF TypeOK, Ofs

-----------------------------------------------------------------------------
(* The parts about the calls and the tables.                               *)

\* A given-up call is what it was and not waited for.
LEMMA GivenUp ==
  ASSUME TypeOK, NEW c \in calls
  PROVE  LET x == [c EXCEPT !.waited = FALSE]
         IN /\ x.by = c.by /\ x.stage = c.stage /\ x.at = c.at /\ ~ x.waited
            /\ x.todo = c.todo /\ x.n = c.n /\ x.stamp = c.stamp /\ x.seen = c.seen
            /\ x.of = c.of /\ x.legacy = c.legacy
<1>1. c \in Call
  BY DEF TypeOK
<1> QED BY <1>1 DEF Call

\* Time does not go back, and neither do stamps lie ahead.
LEMMA PastOnlyNext ==
  ASSUME TypeOK, RunsNumbered, CallsFormed, PastOnly, Next
  PROVE  PastOnly' /\ clock <= clock'
<1>1. /\ clock \in Int /\ bundleAt \in Int /\ bundleAt <= clock
      /\ \A c \in calls : c.stamp \in Int /\ c.stamp <= clock
      /\ \A s \in results : s.at \in Int /\ s.at <= clock
  BY StageAssumption DEF TypeOK, Time, Never, PastOnly, Call
<1>2. clock' \in Int /\ clock <= clock'
  BY <1>1, Frames DEF Tick
<1>3. bundleAt' <= clock'
  <2>1. bundleAt' = bundleAt \/ \E c \in calls : bundleAt' = c.stamp
    BY Frames DEF InsertBundle
  <2> QED BY <1>1, <1>2, <2>1
<1>4. ASSUME NEW x \in calls' PROVE x.stamp <= clock'
  <2>1. Came(x)
    BY CallsCame
  <2>2. x.stamp = clock \/ \E c \in calls : x.stamp = c.stamp
    <3>1. ASSUME NEW c \in calls, Moved(c, x) PROVE x.stamp \in {c.stamp, clock}
      BY <3>1 DEF Moved
    <3>2. ASSUME NEW e \in Callers, NEW stage \in Stages, x = NewCall(e, stage)
          PROVE  x.stamp = clock
      BY <3>2, NewCallFacts
    <3>3. ASSUME NEW c \in calls, x = [c EXCEPT !.waited = FALSE] PROVE x.stamp = c.stamp
      BY <3>3, GivenUp
    <3> QED BY <2>1, <3>1, <3>2, <3>3 DEF Came
  <2> QED BY <1>1, <1>2, <2>2
<1>5. \A s \in results' : s.at <= clock'
  <2>1. \A s \in results' : s \in results \/ s.at = clock
    <3>1. ASSUME NEW c \in calls, InsertParsedResult(c)
          PROVE  \A s \in results' : s \in results \/ s.at = clock
      <4>1. PICK valid \in BOOLEAN :
               results' = results \cup {[n |-> c.n, valid |-> valid, at |-> clock]}
        BY <3>1 DEF InsertParsedResult
      <4> QED BY <4>1
    <3> QED BY <3>1, Frames
  <2> QED BY <1>1, <1>2, <2>1
<1> QED BY <1>2, <1>3, <1>4, <1>5 DEF PastOnly

\* A handler goes on with what its next step needs.
LEMMA CallsFormedNext ==
  ASSUME TypeOK, RunsNumbered, CallsFormed, Next
  PROVE  CallsFormed'
<1>1. Stored \subseteq Stored' /\ Ofs(props) \subseteq Ofs(props')
  BY RunsNumberedNext, PropsKept DEF Stored
<1> SUFFICES ASSUME NEW x \in calls'
             PROVE  /\ x.at \in {"run", "result"} => x.stage \in {"gemini", "alternatives"}
                    /\ x.stage \in {"gemini", "alternatives"}
                          /\ x.at \in {"begin", "run", "result"} => x.todo # <<>>
                    /\ x.stage = "gemini" /\ x.at \in {"begin", "run", "result"} =>
                          x.todo = <<Gemini>>
                    /\ x.at = "result" => x.n \in Stored'
                    /\ x.of \subseteq Ofs(props')
  BY DEF CallsFormed, Ofs
<1>2. Came(x)
  BY CallsCame
<1>3. CASE x \in calls
  BY <1>1, <1>3 DEF CallsFormed
<1>4. ASSUME NEW e \in Callers, NEW stage \in Stages, x = NewCall(e, stage)
      PROVE  /\ x.at = "begin" /\ x.stage = stage /\ x.of = {}
             /\ stage = "gemini" => x.todo = <<Gemini>>
             /\ stage \in {"gemini", "alternatives"} => x.todo # <<>>
  <2>1. <<Gemini>> # <<>> /\ Alternatives # <<>>
    BY StageAssumption
  <2>2. /\ x.at = "begin" /\ x.stage = stage /\ x.of = {}
        /\ stage = "gemini" => x.todo = <<Gemini>>
        /\ stage = "alternatives" => x.todo = Alternatives
    BY <1>4, NewCallFacts
  <2> QED BY <2>1, <2>2
<1>5. ASSUME NEW c \in calls, x = [c EXCEPT !.waited = FALSE]
      PROVE  /\ x.stage = c.stage /\ x.at = c.at /\ x.todo = c.todo /\ x.n = c.n
             /\ x.of = c.of
  BY <1>5, GivenUp
<1>6. ASSUME NEW c \in calls, Handle(c), Moved(c, x)
      PROVE  /\ x.at \in {"run", "result"} => x.stage \in {"gemini", "alternatives"}
             /\ x.stage \in {"gemini", "alternatives"}
                   /\ x.at \in {"begin", "run", "result"} => x.todo # <<>>
             /\ x.stage = "gemini" /\ x.at \in {"begin", "run", "result"} =>
                   x.todo = <<Gemini>>
             /\ x.at = "result" => x.n \in Stored'
             /\ x.of \subseteq Ofs(props')
  <2>1. x.of \subseteq Ofs(props')
    BY <1>1, <1>6, Readings DEF Moved, CallsFormed
  <2>2. x.at = "result" => x.n \in Stored'
    <3>1. x.at = "result" => InsertModelRun(c) /\ x.n = Cardinality(runs) + 1
      BY <1>6 DEF Moved
    <3>2. InsertModelRun(c) => \E r \in runs' : r.n = Cardinality(runs) + 1
      BY RunAdded
    <3> QED BY <3>1, <3>2 DEF Stored
  <2>3. x.at \in {"run", "result"} => x.stage \in {"gemini", "alternatives"}
    BY <1>6 DEF Moved
  <2>4. ASSUME x.stage \in {"gemini", "alternatives"}, x.at \in {"begin", "run", "result"}
        PROVE  x.todo # <<>> /\ (x.stage = "gemini" => x.todo = <<Gemini>>)
    <3>1. /\ c.stage = x.stage /\ c.at \in {"begin", "run", "result"}
          /\ \/ x.todo = c.todo
             \/ Len(c.todo) # 1 /\ x.todo = Tail(c.todo)
      BY <1>6, <2>4 DEF Moved
    <3>2. c.todo # <<>> /\ (c.stage = "gemini" => c.todo = <<Gemini>>)
      BY <2>4, <3>1 DEF CallsFormed
    <3>3. CASE x.todo = c.todo
      BY <3>1, <3>2, <3>3
    <3>4. CASE Len(c.todo) # 1 /\ x.todo = Tail(c.todo)
      <4>1. c.todo \in Seq(ProviderNames)
        BY DEF TypeOK, Call
      <4> HIDE DEF ProviderNames
      <4>2. Len(c.todo) \in Nat /\ Len(c.todo) # 0
        BY <3>2, <4>1, EmptySeq
      <4>3. Len(Tail(c.todo)) = Len(c.todo) - 1
        BY <3>2, <4>1, HeadTailProperties
      <4>4. x.todo # <<>>
        <5>1. Len(<<>>) = 0
          OBVIOUS
        <5>2. Len(Tail(c.todo)) # 0
          BY <3>4, <4>2, <4>3
        <5>3. x.todo = Tail(c.todo)
          BY <3>4
        <5> QED BY <5>1, <5>2, <5>3, Zenon
      <4>5. c.stage # "gemini"
        <5>1. Len(<<Gemini>>) = 1
          OBVIOUS
        <5> QED BY <3>2, <3>4, <5>1
      <4> QED BY <3>1, <4>4, <4>5
    <3> QED BY <3>1, <3>3, <3>4
  <2> QED BY <2>1, <2>2, <2>3, <2>4
<1>7. CASE \E e \in Callers, stage \in Stages : x = NewCall(e, stage)
  BY <1>4, <1>7
<1>8. CASE \E c \in calls : x = [c EXCEPT !.waited = FALSE]
  BY <1>1, <1>5, <1>8 DEF CallsFormed
<1>9. CASE \E c \in calls : Handle(c) /\ Moved(c, x)
  BY <1>6, <1>9
<1> QED BY <1>2, <1>3, <1>7, <1>8, <1>9 DEF Came

\* A run's result is stored once.
LEMMA OneResultNext ==
  ASSUME TypeOK, RunsNumbered, CallsFormed, OneResultPerRun, Next
  PROVE  OneResultPerRun' /\ results \subseteq results'
<1>1. Stored \subseteq Stored'
  BY RunsNumberedNext DEF Stored
<1>2. \A x \in calls' : x.at = "result" =>
         \/ \E c \in calls : c.at = "result" /\ x.n = c.n /\ (x = c \/ GiveUp(c))
         \/ \E c \in calls : Moved(c, x) /\ InsertModelRun(c) /\ x.n \notin Stored
  <2> SUFFICES ASSUME NEW x \in calls', x.at = "result"
               PROVE  \/ \E c \in calls : c.at = "result" /\ x.n = c.n /\ (x = c \/ GiveUp(c))
                      \/ \E c \in calls : Moved(c, x) /\ InsertModelRun(c) /\ x.n \notin Stored
    OBVIOUS
  <2>1. Came(x)
    BY CallsCame
  <2>2. ASSUME NEW c \in calls, Moved(c, x) PROVE InsertModelRun(c) /\ x.n \notin Stored
    <3>1. InsertModelRun(c) /\ x.n = Cardinality(runs) + 1
      BY <2>2 DEF Moved
    <3> QED BY <3>1, RunAdded
  <2>3. ASSUME NEW e \in Callers, NEW stage \in Stages, x = NewCall(e, stage) PROVE FALSE
    BY <2>3, NewCallFacts
  <2>4. ASSUME NEW c \in calls, x = [c EXCEPT !.waited = FALSE]
        PROVE  c.at = "result" /\ x.n = c.n
    BY <2>4, GivenUp
  <2> QED BY <2>1, <2>2, <2>3, <2>4 DEF Came
<1>3. ASSUME NEW x \in calls', NEW y \in calls', x.at = "result", y.at = "result", x.n = y.n
      PROVE  x = y
  <2>1. ASSUME NEW c \in calls, Moved(c, x), InsertModelRun(c), x.n \notin Stored
        PROVE  x = y
    <3>1. calls' = (calls \ {c}) \cup {x}
      BY <2>1 DEF Moved, Goes
    <3> QED BY <1>3, <2>1, <3>1 DEF CallsFormed
  <2>2. ASSUME NEW c \in calls, Moved(c, y), InsertModelRun(c), y.n \notin Stored
        PROVE  x = y
    <3>1. calls' = (calls \ {c}) \cup {y}
      BY <2>2 DEF Moved, Goes
    <3> QED BY <1>3, <2>2, <3>1 DEF CallsFormed
  <2>3. ASSUME NEW c \in calls, NEW d \in calls, c.at = "result", d.at = "result",
               x.n = c.n, y.n = d.n, x = c \/ GiveUp(c), y = d \/ GiveUp(d)
        PROVE  x = y
    <3>1. c = d
      BY <1>3, <2>3 DEF OneResultPerRun
    <3>2. CASE x = c /\ y = d
      BY <3>1, <3>2
    <3>3. CASE GiveUp(c)
      <4>1. calls' = (calls \ {c}) \cup {[c EXCEPT !.waited = FALSE]}
        BY <3>3 DEF GiveUp, Goes
      <4>2. ASSUME NEW z \in calls', z.at = "result", z.n = c.n
            PROVE  z = [c EXCEPT !.waited = FALSE]
        BY <2>3, <4>1, <4>2 DEF OneResultPerRun
      <4> QED BY <1>3, <2>3, <4>2
    <3> QED BY <2>3, <3>1, <3>2, <3>3
  <2> QED BY <1>2, <1>3, <2>1, <2>2, <2>3
<1>4. CASE results' = results
  <2>1. \A s \in results' : s.n \in Stored /\ s.n \in Stored'
    BY <1>1, <1>4 DEF OneResultPerRun
  <2>2. \A x \in calls' : x.at = "result" => \A s \in results' : s.n # x.n
    BY <1>2, <1>4, <2>1 DEF OneResultPerRun
  <2>3. \A s, t \in results' : s.n = t.n => s = t
    BY <1>4 DEF OneResultPerRun
  <2> QED BY <1>3, <1>4, <2>1, <2>2, <2>3 DEF OneResultPerRun, Stored
<1>5. CASE results' # results
  <2>1. PICK c \in calls : InsertParsedResult(c)
    BY <1>5, Frames
  <2>2. PICK s \in results' : s.n = c.n /\ results' = results \cup {s}
    <3>1. PICK valid \in BOOLEAN :
             results' = results \cup {[n |-> c.n, valid |-> valid, at |-> clock]}
      BY <2>1 DEF InsertParsedResult
    <3> QED BY <3>1
  <2>3. c.at = "result" /\ c.n \in Stored /\ \A t \in results : t.n # c.n
    BY <2>1 DEF InsertParsedResult, CallsFormed, OneResultPerRun
  <2>4. \A t \in results' : t.n \in Stored'
    BY <1>1, <2>2, <2>3 DEF OneResultPerRun
  <2>5. \A t, u \in results' : t.n = u.n => t = u
    BY <2>2, <2>3 DEF OneResultPerRun
  <2>6. \A x \in calls' : x.at = "result" => x \in calls \ {c}
    <3>1. PICK at \in {"end", "run"} :
             calls' = (calls \ {c}) \cup {[c EXCEPT !.at = at, !.todo = Tail(c.todo), !.n = 0]}
      BY <2>1 DEF InsertParsedResult, Goes
    <3>2. [c EXCEPT !.at = at, !.todo = Tail(c.todo), !.n = 0].at # "result"
      <4>1. c \in Call
        BY DEF TypeOK
      <4> QED BY <4>1 DEF Call
    <3> QED BY <3>1, <3>2
  <2>7. \A x \in calls' : x.at = "result" => \A t \in results' : t.n # x.n
    BY <2>2, <2>3, <2>6 DEF OneResultPerRun
  <2> QED BY <1>3, <2>2, <2>4, <2>5, <2>7 DEF OneResultPerRun, Stored
<1> QED BY <1>4, <1>5

\* A routing reads results that are there.
LEMMA RoutingsReadNext ==
  ASSUME TypeOK, RunsNumbered, CallsFormed, PastOnly, OneResultPerRun, RoutingsRead, Next
  PROVE  RoutingsRead'
<1>1. results \subseteq results'
  BY OneResultNext
<1> SUFFICES ASSUME NEW x \in calls', x.stage = "route", x.at # "begin", NEW n \in x.seen
             PROVE  \E s \in results' : s.n = n /\ s.at <= x.stamp
  BY DEF RoutingsRead
<1>2. Came(x)
  BY CallsCame
<1>3. CASE x \in calls
  BY <1>1, <1>3 DEF RoutingsRead
<1>4. ASSUME NEW e \in Callers, NEW stage \in Stages, x = NewCall(e, stage) PROVE FALSE
  BY <1>4, NewCallFacts
<1>5. ASSUME NEW c \in calls, x = [c EXCEPT !.waited = FALSE]
      PROVE  \E s \in results' : s.n = n /\ s.at <= x.stamp
  <2>1. c.stage = "route" /\ c.at # "begin" /\ c.seen = x.seen /\ c.stamp = x.stamp
    BY <1>5, GivenUp
  <2> QED BY <1>1, <2>1 DEF RoutingsRead
<1>6. ASSUME NEW c \in calls, Moved(c, x)
      PROVE  \E s \in results' : s.n = n /\ s.at <= x.stamp
  <2>1. CASE c.at = "begin"
    <3>1. x.seen = ValidResults /\ x.stamp = clock
      BY <1>6, <2>1 DEF Moved
    <3> QED BY <1>1, <3>1 DEF ValidResults, PastOnly
  <2>2. CASE c.at # "begin"
    <3>1. c.stage = "route" /\ x.seen = c.seen /\ x.stamp = c.stamp
      BY <1>6, <2>2 DEF Moved
    <3> QED BY <1>1, <2>2, <3>1 DEF RoutingsRead
  <2> QED BY <2>1, <2>2
<1> QED BY <1>2, <1>3, <1>4, <1>5, <1>6 DEF Came

\* Claims get older only where an older routing comes later.
LEMMA ClaimsStand ==
  ASSUME TypeOK, Next, NEW n \in Numbers, NEW at \in Time, ClaimedSince(n, at)
  PROVE  ClaimedSince(n, at)'
<1>1. CASE claims' = claims /\ overtaken' = overtaken
  BY <1>1 DEF ClaimedSince
<1>2. CASE ~ (claims' = claims /\ overtaken' = overtaken)
  <2>1. PICK c \in calls : InsertClaims(c)
    BY <1>2, Frames
  <2>2. claims' = {k \in claims : k.n \notin c.seen}
                     \cup {[n |-> m, at |-> c.stamp] : m \in c.seen}
    BY <2>1 DEF InsertClaims
  <2>3. overtaken' = overtaken
            \cup {k.n : k \in {h \in claims : h.n \in c.seen /\ h.at > c.stamp}}
    BY <2>1 DEF InsertClaims
  <2>4. CASE n \in overtaken
    BY <2>3, <2>4 DEF ClaimedSince
  <2>5. CASE n \notin overtaken
    <3>1. PICK k \in claims : k.n = n /\ k.at >= at
      BY <2>5 DEF ClaimedSince
    <3>2. CASE n \notin c.seen
      BY <2>2, <3>1, <3>2 DEF ClaimedSince
    <3>3. CASE n \in c.seen /\ k.at > c.stamp
      <4>1. k \in {h \in claims : h.n \in c.seen /\ h.at > c.stamp}
        BY <3>1, <3>3
      <4>2. k.n \in overtaken'
        BY <2>3, <4>1
      <4> QED BY <3>1, <4>2 DEF ClaimedSince
    <3>4. CASE n \in c.seen /\ ~ (k.at > c.stamp)
      <4>1. k.at \in Int /\ c.stamp \in Int /\ at \in Int
        BY StageAssumption DEF TypeOK, Call, Time
      <4>2. c.stamp >= at
        BY <3>1, <3>4, <4>1
      <4>3. [n |-> n, at |-> c.stamp] \in claims'
        BY <2>2, <3>4
      <4> QED BY <4>2, <4>3 DEF ClaimedSince
    <3> QED BY <3>2, <3>3, <3>4
  <2> QED BY <2>4, <2>5
<1> QED BY <1>1, <1>2

\* A proposition is stored when its claims are, with their stamp.
LEMMA ClaimsFirstNext ==
  ASSUME TypeOK, RunsNumbered, CallsFormed, ClaimsFirst, Next
  PROVE  ClaimsFirst'
<1>1. ASSUME NEW p \in props' PROVE p.of # {} /\ \A n \in p.of : ClaimedSince(n, p.at)'
  <2>1. CASE p \in props
    <3>1. p.of \in SUBSET Numbers /\ p.at \in Time
      BY <2>1 DEF TypeOK, Dated
    <3> QED BY <2>1, <3>1, ClaimsStand DEF ClaimsFirst
  <2>2. CASE p \notin props
    <3>1. PICK c \in calls : InsertPropositions(c)
      BY <2>2, Frames
    <3>2. p = [of |-> c.seen, at |-> c.stamp] /\ c.seen # {}
      BY <2>2, <3>1 DEF InsertPropositions, Replaced
    <3>3. \A n \in c.seen : n \in Numbers /\ c.stamp \in Time /\ ClaimedSince(n, c.stamp)
      BY <3>1 DEF InsertPropositions, Doing, ClaimsFirst, TypeOK, Call
    <3> QED BY <3>2, <3>3, ClaimsStand
  <2> QED BY <2>1, <2>2
<1>2. ASSUME NEW x \in calls', x.stage = "route", x.at = "more", NEW n \in x.seen
      PROVE  ClaimedSince(n, x.stamp)'
  <2>1. Came(x)
    BY CallsCame
  <2>2. ASSUME NEW c \in calls, c.stage = "route", c.at = "more", c.seen = x.seen,
               c.stamp = x.stamp
        PROVE  ClaimedSince(n, x.stamp)'
    <3>1. n \in Numbers /\ x.stamp \in Time /\ ClaimedSince(n, x.stamp)
      BY <1>2, <2>2 DEF ClaimsFirst, TypeOK, Call
    <3> QED BY <3>1, ClaimsStand
  <2>3. ASSUME NEW e \in Callers, NEW stage \in Stages, x = NewCall(e, stage) PROVE FALSE
    BY <1>2, <2>3, NewCallFacts
  <2>4. ASSUME NEW c \in calls, Moved(c, x) PROVE ClaimedSince(n, x.stamp)'
    <3>1. InsertClaims(c) /\ x.seen = c.seen /\ x.stamp = c.stamp
      BY <1>2, <2>4 DEF Moved
    <3>2. [n |-> n, at |-> x.stamp] \in claims'
      BY <1>2, <3>1 DEF InsertClaims
    <3>3. x.stamp \in Int
      BY <3>1, StageAssumption DEF TypeOK, Call, Time
    <3> QED BY <3>2, <3>3 DEF ClaimedSince
  <2>5. ASSUME NEW c \in calls, x = [c EXCEPT !.waited = FALSE]
        PROVE  ClaimedSince(n, x.stamp)'
    <3>1. c.stage = "route" /\ c.at = "more" /\ c.seen = x.seen /\ c.stamp = x.stamp
      BY <1>2, <2>5, GivenUp
    <3> QED BY <2>2, <3>1
  <2>6. CASE x \in calls
    BY <1>2, <2>2, <2>6
  <2> QED BY <2>1, <2>3, <2>4, <2>5, <2>6 DEF Came
<1> QED BY <1>1, <1>2 DEF ClaimsFirst

\* An execution waits for one call.
LEMMA CallsAwaitedNext ==
  ASSUME TypeOK, RunsNumbered, CallsFormed, CallsAwaited, Next
  PROVE  CallsAwaited'
<1>1. /\ wf \in [Executions -> Execution] /\ calls \subseteq Call
      /\ \A c \in calls : c.stage \in Stages
      /\ "policy" \notin Stages /\ "failed" \notin Stages /\ "create" \notin Retried
  BY DEF TypeOK, Call, Stages, Retried
<1>2. ASSUME NEW e \in Executions, Policy(e) PROVE CallsAwaited'
  <2>1. /\ calls' = calls /\ wf[e].at = "policy"
        /\ \A f \in Executions \ {e} : wf'[f] = wf[f]
    BY <1>2, PolicyMoves DEF Policy
  <2>2. \A c \in calls : c.by = e => ~ c.waited /\ c.stage # "create"
    BY <1>1, <2>1 DEF CallsAwaited
  <2> QED BY <2>1, <2>2 DEF CallsAwaited
<1>3. ASSUME NEW e \in Executions, Send(e) PROVE CallsAwaited'
  <2> DEFINE x == NewCall(e, wf[e].at)
  <2>1. /\ calls' = calls \cup {x} /\ wf[e].at \in Stages /\ ~ wf[e].waiting
        /\ wf'[e].waiting /\ wf'[e].at = wf[e].at
        /\ \A f \in Executions \ {e} : wf'[f] = wf[f]
    BY <1>3, SendMoves DEF Same
  <2>2. x.by = e /\ x.waited /\ x.stage = wf[e].at
    BY <2>1, NewCallFacts DEF Callers
  <2> HIDE DEF x
  <2>3. \A c \in calls : c.waited => c.by # e
    BY <2>1 DEF CallsAwaited
  <2>4. \A c \in calls : c.stage = "create" /\ c.by = e => FALSE
    BY <1>1, <2>1, <2>3 DEF CallsAwaited
  <2>5. \A c \in calls' : c.waited =>
           c.by \in Executions /\ wf'[c.by].waiting /\ wf'[c.by].at = c.stage
    BY <2>1, <2>2, <2>3 DEF CallsAwaited
  <2>6. \A c, d \in calls' : c.waited /\ d.waited /\ c.by = d.by => c = d
    BY <2>1, <2>2, <2>3 DEF CallsAwaited
  <2>7. \A c \in calls' : c.stage = "create" /\ c.by \in Executions =>
           c.waited \/ wf'[c.by].at = "failed"
    BY <2>1, <2>2, <2>4 DEF CallsAwaited
  <2> QED BY <2>5, <2>6, <2>7 DEF CallsAwaited
<1>4. ASSUME NEW c \in calls, Handle(c) PROVE CallsAwaited'
  <2>1. PICK d \in Call : Moved(c, d)
    BY <1>4, HandlerMoves
  <2>2. /\ calls' = (calls \ {c}) \cup {d}
        /\ d.by = c.by /\ d.stage = c.stage /\ d.waited = c.waited
    BY <2>1 DEF Moved, Goes
  <2>3. \A e \in Executions : wf'[e].at = wf[e].at /\ wf'[e].waiting = wf[e].waiting
    BY <1>4, HandlerWorkflows
  <2>4. \A x \in calls' : x.waited =>
           x.by \in Executions /\ wf'[x.by].waiting /\ wf'[x.by].at = x.stage
    BY <2>2, <2>3 DEF CallsAwaited
  <2>5. \A x, y \in calls' : x.waited /\ y.waited /\ x.by = y.by => x = y
    BY <2>2 DEF CallsAwaited
  <2>6. \A x \in calls' : x.stage = "create" /\ x.by \in Executions =>
           x.waited \/ wf'[x.by].at = "failed"
    BY <2>2, <2>3 DEF CallsAwaited
  <2> QED BY <2>4, <2>5, <2>6 DEF CallsAwaited
<1>5. ASSUME NEW c \in calls, Reply(c) \/ Break(c) PROVE CallsAwaited'
  <2>1. calls' = calls \ {c}
    BY <1>5 DEF Reply, Break
  <2>2. ASSUME NEW e \in Executions, ~ Awaits(e, c) PROVE wf'[e] = wf[e]
    BY <1>5, <2>2, ReplyMoves, FailMoves
  <2>3. \A x \in calls' : x.waited => ~ Awaits(x.by, c)
    BY <2>1 DEF CallsAwaited, Awaits
  <2>4. ASSUME NEW x \in calls', x.stage = "create", x.by \in Executions
        PROVE  x.waited \/ wf'[x.by].at = "failed"
    <3>1. CASE Awaits(x.by, c)
      <4>1. wf[x.by].at = c.stage /\ wf[x.by].at # "failed"
        BY <1>1, <3>1 DEF Awaits, CallsAwaited
      <4> QED BY <2>1, <2>4, <4>1 DEF CallsAwaited
    <3>2. CASE ~ Awaits(x.by, c)
      BY <2>1, <2>2, <2>4, <3>2 DEF CallsAwaited
    <3> QED BY <3>1, <3>2
  <2> QED BY <2>1, <2>2, <2>3, <2>4 DEF CallsAwaited
<1>6. ASSUME NEW c \in calls, GiveUp(c) PROVE CallsAwaited'
  <2> DEFINE d == [c EXCEPT !.waited = FALSE]
  <2>1. calls' = (calls \ {c}) \cup {d} /\ c.waited
    BY <1>6 DEF GiveUp, Goes
  <2>2. d.by = c.by /\ d.stage = c.stage /\ ~ d.waited
    BY GivenUp
  <2> HIDE DEF d
  <2>3. ASSUME NEW e \in Executions, ~ Awaits(e, c) PROVE wf'[e] = wf[e]
    BY <1>6, <2>3, FailMoves
  <2>4. Awaits(c.by, c) /\ c.by \in Executions
    BY <2>1 DEF Awaits, CallsAwaited
  <2>5. \A x \in calls' : x.waited => x \in calls /\ ~ Awaits(x.by, c)
    BY <2>1, <2>2 DEF CallsAwaited, Awaits
  <2>6. c.stage = "create" => wf'[c.by].at = "failed"
    BY <1>1, <1>6, <2>4, FailMoves
  <2>7. ASSUME NEW x \in calls', x.stage = "create", x.by \in Executions
        PROVE  x.waited \/ wf'[x.by].at = "failed"
    <3>1. CASE x = d
      BY <2>2, <2>6, <2>7, <3>1
    <3>2. CASE x # d /\ Awaits(x.by, c)
      <4>1. wf[x.by].at = c.stage /\ wf[x.by].at # "failed"
        BY <1>1, <3>2 DEF Awaits, CallsAwaited
      <4> QED BY <2>1, <2>7, <3>2, <4>1 DEF CallsAwaited
    <3>3. CASE x # d /\ ~ Awaits(x.by, c)
      BY <2>1, <2>3, <2>7, <3>3 DEF CallsAwaited
    <3> QED BY <3>1, <3>2, <3>3
  <2> QED BY <2>3, <2>5, <2>7 DEF CallsAwaited
<1>7. CASE Ask
  <2>1. PICK stage \in Stages : calls' = calls \cup {NewCall(Others, stage)}
    BY <1>7 DEF Ask
  <2> DEFINE x == NewCall(Others, stage)
  <2>2. x.by \notin Executions /\ ~ x.waited
    BY NewCallFacts, StageAssumption DEF Callers
  <2>3. wf' = wf
    BY <1>7 DEF Ask
  <2> HIDE DEF x
  <2>4. calls' = calls \cup {x}
    BY <2>1 DEF x
  <2> QED BY <2>2, <2>3, <2>4 DEF CallsAwaited
<1>8. CASE ReadTargets \/ Decide \/ ClearCache \/ Tick \/ Ended
  BY <1>8 DEF ReadTargets, Decide, ClearCache, Tick, Ended, vars, CallsAwaited
<1> QED BY <1>2, <1>3, <1>4, <1>5, <1>6, <1>7, <1>8 DEF Next, Work

-----------------------------------------------------------------------------
(* Work of an execution whose bundle is its own.                           *)

\* What the store holds for a bundle it goes on holding while the bundle stays: rows are
\* added and replaced by rows as new.
LEMMA StoreStands ==
  ASSUME TypeOK, RunsNumbered, PastOnly, CallsFormed, OneResultPerRun, RoutingsRead, Next,
         bundleAt' = bundleAt
  PROVE  /\ \A e \in Executions : HasBaseline(e) => HasBaseline(e)'
         /\ \A S \in SUBSET Numbers :
               /\ Readable(S) => Readable(S)'
               /\ Readable(S) /\ IsShown(S) => IsShown(S)'
               /\ IsScored(S) => IsScored(S)'
               /\ IsClustered(S) => IsClustered(S)'
<1>1. ASSUME NEW e \in Executions, HasBaseline(e) PROVE HasBaseline(e)'
  <2>1. runs \subseteq runs'
    BY RunsNumberedNext
  <2> QED BY <1>1, <2>1 DEF HasBaseline, Current
<1>2. ASSUME NEW S \in SUBSET Numbers, Readable(S) PROVE Readable(S)'
  <2>1. results \subseteq results'
    BY OneResultNext
  <2> QED BY <1>2, <2>1 DEF Readable, Current
<1>3. ASSUME NEW S \in SUBSET Numbers, Readable(S), IsShown(S) PROVE IsShown(S)'
  <2>1. CASE S = {} \/ props' = props
    BY <1>3, <2>1 DEF IsShown, Current
  <2>2. CASE S # {} /\ props' # props
    <3>1. PICK c \in calls : InsertPropositions(c)
      BY <2>2, Frames
    <3>2. props' = {p \in props : p.of # c.seen} \cup {[of |-> c.seen, at |-> c.stamp]}
          /\ c.stage = "route" /\ c.at # "begin"
      BY <2>2, <3>1 DEF InsertPropositions, Doing, Replaced
    <3>3. PICK p \in props : p.of = S /\ Current(p.at)
      BY <1>3, <2>2 DEF IsShown
    <3>4. CASE c.seen # S
      <4>1. p \in props'
        BY <3>2, <3>3, <3>4
      <4> QED BY <3>3, <4>1 DEF IsShown, Current
    <3>5. CASE c.seen = S
      <4>1. PICK n \in S : TRUE
        BY <2>2
      <4>2. PICK s \in results : s.n = n /\ Current(s.at)
        BY <1>3 DEF Readable
      <4>3. \E t \in results : t.n = n /\ t.at <= c.stamp
        BY <3>2, <3>5 DEF RoutingsRead
      <4>4. s.at <= c.stamp
        BY <4>2, <4>3 DEF OneResultPerRun
      <4>5. s.at \in Int /\ bundleAt \in Int /\ c.stamp \in Int
        BY StageAssumption DEF TypeOK, Call, Time, Never
      <4>6. c.stamp >= bundleAt'
        BY <4>2, <4>4, <4>5 DEF Current
      <4>7. [of |-> S, at |-> c.stamp] \in props'
        BY <3>2, <3>5
      <4> QED BY <4>6, <4>7 DEF IsShown, Current
    <3> QED BY <3>4, <3>5
  <2> QED BY <2>1, <2>2
<1>4. ASSUME NEW S \in SUBSET Numbers, IsScored(S) PROVE IsScored(S)'
  <2>1. scored \subseteq scored'
    BY Frames DEF InsertScores, Scores
  <2> QED BY <1>4, <2>1 DEF IsScored
<1>5. ASSUME NEW S \in SUBSET Numbers, IsClustered(S) PROVE IsClustered(S)'
  <2>1. CASE clusters' = clusters
    BY <1>5, <2>1 DEF IsClustered, Current
  <2>2. CASE clusters' # clusters
    <3>1. PICK c \in calls : PersistClusters(c)
      BY <2>2, Frames
    <3>2. clusters' = {k \in clusters : k.of \notin VisibleProps}
                         \cup {[of |-> p, at |-> clock] : p \in VisibleProps}
      BY <3>1 DEF PersistClusters
    <3>3. clock >= bundleAt'
      BY StageAssumption DEF PastOnly, TypeOK, Time, Never
    <3>4. CASE S \in VisibleProps
      <4>1. [of |-> S, at |-> clock] \in clusters'
        BY <3>2, <3>4
      <4> QED BY <3>3, <4>1 DEF IsClustered, Current
    <3>5. CASE S \notin VisibleProps
      BY <1>5, <3>2, <3>5 DEF IsClustered, Current
    <3> QED BY <3>4, <3>5
  <2> QED BY <2>1, <2>2
<1> QED BY <1>1, <1>2, <1>3, <1>4, <1>5

\* So stays what an execution has behind it and what its call has done, where neither moves.
LEMMA WorkStands ==
  ASSUME TypeOK, RunsNumbered, PastOnly, CallsFormed, OneResultPerRun, RoutingsRead, Next,
         bundleAt' = bundleAt, NEW e \in Executions, Same(e)
  PROVE  /\ Behind(e) => Behind(e)'
         /\ \A c \in calls : Underway(e, c) => Underway(e, c)'
<1>1. PICK S \in SUBSET Numbers : S = wf[e].routed /\ S = wf'[e].routed
  BY DEF TypeOK, Execution, Same
<1>2. Answered(e) => Answered(e)'
  <2>1. runs \subseteq runs' /\ onceClosed \subseteq onceClosed'
    BY RunsNumberedNext, ReviewsNext
  <2> QED BY <2>1 DEF Answered, Same, Shows
<1>3. /\ HasBaseline(e) => HasBaseline(e)'
      /\ Readable(S) => Readable(S)'
      /\ Readable(S) /\ IsShown(S) => IsShown(S)'
      /\ IsScored(S) => IsScored(S)'
      /\ IsClustered(S) => IsClustered(S)'
  BY StoreStands
<1>4. /\ wf'[e].at \in AfterGemini => HasBaseline(e)'
      /\ wf'[e].at \in AfterRoute => Readable(S)' /\ IsShown(S)'
      /\ wf'[e].at \in AfterScore => IsScored(S)' /\ IsClustered(S)'
      /\ wf'[e].at = "done" => Answered(e)'
      => Behind(e)'
  BY <1>1 DEF Behind, Readable, IsShown, IsScored, IsClustered
<1>5. Behind(e) =>
        /\ wf[e].at \in AfterGemini => HasBaseline(e)
        /\ wf[e].at \in AfterRoute => Readable(S) /\ IsShown(S)
        /\ wf[e].at \in AfterScore => IsScored(S) /\ IsClustered(S)
        /\ wf[e].at = "done" => Answered(e)
  BY <1>1 DEF Behind
<1>6. Behind(e) => Behind(e)'
  BY <1>2, <1>3, <1>4, <1>5 DEF Same
<1>7. ASSUME NEW c \in calls, Underway(e, c) PROVE Underway(e, c)'
  <2>1. c.seen \in SUBSET Numbers
    BY DEF TypeOK, Call
  <2>2. PICK T \in SUBSET Numbers : T = c.seen
    BY <2>1
  <2>3. /\ Readable(T) => Readable(T)'
        /\ Readable(T) /\ IsShown(T) => IsShown(T)'
    BY StoreStands
  <2>4. Shows(S, c.legacy) => Shows(S, c.legacy)'
    BY ReviewsNext DEF Shows
  <2> QED BY <1>1, <1>2, <1>3, <1>7, <2>2, <2>3, <2>4
         DEF Underway, Readable, IsShown, IsScored, IsClustered, Shows
<1> QED BY <1>6, <1>7

\* An execution goes on having behind it what it had, and what it is given.
LEMMA BehindStands ==
  ASSUME TypeOK, RunsNumbered, PastOnly, CallsFormed, OneResultPerRun, RoutingsRead, Next,
         bundleAt' = bundleAt, NEW e \in Executions, wf'[e].routed = wf[e].routed, Behind(e),
         wf'[e].at \in AfterGemini => wf[e].at \in AfterGemini \/ HasBaseline(e),
         wf'[e].at \in AfterRoute => wf[e].at \in AfterRoute,
         wf'[e].at \in AfterScore =>
            \/ wf[e].at \in AfterScore
            \/ IsScored(wf[e].routed) /\ IsClustered(wf[e].routed),
         wf'[e].at = "done" => Answered(e)'
  PROVE  Behind(e)'
<1>1. PICK S \in SUBSET Numbers : S = wf[e].routed /\ S = wf'[e].routed
  BY DEF TypeOK, Execution
<1>2. /\ HasBaseline(e) => HasBaseline(e)'
      /\ Readable(S) => Readable(S)'
      /\ Readable(S) /\ IsShown(S) => IsShown(S)'
      /\ IsScored(S) => IsScored(S)'
      /\ IsClustered(S) => IsClustered(S)'
  BY StoreStands
<1>3. wf'[e].at \in AfterGemini => HasBaseline(e)'
  BY <1>2 DEF Behind
<1>4. wf'[e].at \in AfterRoute => Readable(S)' /\ IsShown(S)'
  BY <1>1, <1>2 DEF Behind
<1>5. wf'[e].at \in AfterScore => IsScored(S)' /\ IsClustered(S)'
  BY <1>1, <1>2 DEF Behind
<1> QED BY <1>1, <1>3, <1>4, <1>5 DEF Behind, Readable, IsShown, IsScored, IsClustered

\* A routing that has read results of this generation writes propositions of it.
LEMMA RoutingIsCurrent ==
  ASSUME TypeOK, OneResultPerRun, RoutingsRead, NEW c \in calls,
         c.stage = "route", c.at # "begin", Readable(c.seen), c.seen # {}
  PROVE  c.stamp >= bundleAt
<1>1. PICK n \in c.seen : TRUE
  OBVIOUS
<1>2. PICK s \in results : s.n = n /\ Current(s.at)
  BY DEF Readable
<1>3. s.at <= c.stamp
  BY <1>2 DEF RoutingsRead, OneResultPerRun
<1>4. s.at \in Int /\ bundleAt \in Int /\ c.stamp \in Int
  BY StageAssumption DEF TypeOK, Call, Time, Never
<1> QED BY <1>2, <1>3, <1>4 DEF Current

\* The proposition an execution has routed is shown to the handlers that read for it, and
\* its targets are listed unless a decision has closed it.
LEMMA RoutedIsVisible ==
  ASSUME NEW S, IsShown(S), closed \subseteq onceClosed
  PROVE  S \in VisibleProps \cup {{}} /\ Shows(S, Targets)
<1>1. S \in VisibleProps \cup {{}}
  BY DEF IsShown, VisibleProps
<1>2. CASE S \in closed \cup {{}}
  BY <1>1, <1>2 DEF Shows
<1>3. CASE S \in PendingProps
  BY <1>1, <1>3 DEF Shows, Targets
<1> QED BY <1>1, <1>2, <1>3 DEF PendingProps

\* A step of the handler an execution waits for does for it what the next step counts on.
LEMMA HandlerWorks ==
  ASSUME TypeOK, RunsNumbered, PastOnly, CallsFormed, OneResultPerRun, RoutingsRead,
         CallsAwaited, TargetsRead, Next, bundleAt' = bundleAt,
         NEW c \in calls, NEW d \in Call, Moved(c, d), ~ RefreshResolve(c),
         NEW e \in Executions, wf[e].alone, Awaits(e, c), Same(e), Behind(e), Underway(e, c)
  PROVE  Underway(e, d)'
<1>1. PICK S \in SUBSET Numbers : S = wf[e].routed /\ S = wf'[e].routed
  BY DEF TypeOK, Execution, Same
<1>2. PICK T \in SUBSET Numbers : T = c.seen
  BY DEF TypeOK, Call
<1>3. Underway(e, c)'
  BY WorkStands
<1>4. wf[e].at = c.stage
  BY DEF Awaits, CallsAwaited
<1>5. clock \in Int /\ bundleAt \in Int /\ bundleAt <= clock
  BY StageAssumption DEF TypeOK, Time, Never, PastOnly
<1>6. CASE c.stage \in {"create", "alternatives", "validate", "compare"}
  BY <1>6 DEF Moved, Underway
<1>7. CASE c.stage = "gemini"
  <2>1. CASE c.at = "begin"
    BY <1>7, <2>1 DEF Moved, Underway
  <2>2. CASE c.at = "run"
    <3>1. InsertModelRun(c)
      BY <1>7, <2>2 DEF Moved
    <3>2. PICK r \in [n : Numbers, by : Callers, at : Time, provider : ProviderNames] :
              r.by = c.by /\ r.provider = Head(c.todo) /\ r.at = clock /\ r \in runs'
      BY <3>1, RunAdded
    <3>3. c.todo = <<Gemini>> /\ c.by = e
      BY <1>7, <2>2 DEF CallsFormed, Awaits
    <3>4. r.provider = Gemini
      BY <3>2, <3>3
    <3>5. HasBaseline(e)'
      BY <1>5, <3>2, <3>3, <3>4 DEF HasBaseline, Current
    <3> QED BY <1>7, <3>5 DEF Moved, Underway
  <2>3. CASE c.at = "result"
    BY <1>3, <1>7, <2>3 DEF Moved, Underway
  <2> QED BY <1>7, <2>1, <2>2, <2>3 DEF Moved
<1>8. CASE c.stage = "route"
  <2>1. CASE c.at = "begin"
    <3>1. PICK V \in SUBSET Numbers : V = ValidResults
      BY Readings
    <3>2. Readable(V)
      BY <3>1 DEF Readable, ValidResults
    <3>3. Readable(V)'
      BY <3>2, StoreStands
    <3>4. d.seen = V /\ d.at = "write" /\ d.stage = "route"
      BY <1>8, <2>1, <3>1 DEF Moved
    <3> QED BY <3>3, <3>4 DEF Underway, Readable
  <2>2. CASE c.at = "write"
    <3>1. d.seen = c.seen /\ d.at = "more" /\ d.stage = "route"
      BY <1>8, <2>2 DEF Moved
    <3> QED BY <1>3, <1>8, <2>2, <3>1 DEF Underway, Readable
  <2>3. CASE c.at = "more"
    <3>1. d.seen = c.seen /\ d.at = "end" /\ d.stage = "route" /\ InsertPropositions(c)
      BY <1>8, <2>3 DEF Moved
    <3>2. Readable(T) /\ Readable(T)'
      <4>1. Readable(T)
        BY <1>2, <1>8, <2>3 DEF Underway
      <4> QED BY <4>1, StoreStands
    <3>3. IsShown(T)'
      <4>1. CASE T = {}
        BY <4>1 DEF IsShown
      <4>2. CASE T # {}
        <5>1. c.stamp >= bundleAt'
          BY <1>2, <1>8, <2>3, <3>2, <4>2, RoutingIsCurrent
        <5>2. [of |-> T, at |-> c.stamp] \in props'
          BY <1>2, <3>1, <4>2 DEF InsertPropositions, Replaced
        <5> QED BY <5>1, <5>2 DEF IsShown, Current
      <4> QED BY <4>1, <4>2
    <3> QED BY <1>2, <3>1, <3>2, <3>3 DEF Underway, Readable, IsShown
  <2> QED BY <1>8, <2>1, <2>2, <2>3 DEF Moved
<1>9. CASE c.stage = "score"
  <2>1. S \in VisibleProps \cup {{}}
    BY <1>1, <1>4, <1>9, RoutedIsVisible DEF Behind, AfterRoute, TargetsRead
  <2>2. d.stage = "score"
    BY <1>9 DEF Moved
  <2>3. CASE c.at = "begin"
    BY <1>1, <1>9, <2>1, <2>2, <2>3 DEF Moved, Underway
  <2>4. CASE c.at = "write"
    <3>1. S \in c.of \cup {{}} /\ InsertScores(c) /\ d.at = "more"
      BY <1>1, <1>9, <2>4 DEF Moved, Underway
    <3>2. IsScored(S)'
      BY <3>1 DEF InsertScores, Scores, IsScored
    <3> QED BY <1>1, <2>2, <3>1, <3>2 DEF Underway, IsScored
  <2>5. CASE c.at = "more"
    <3>1. PersistClusters(c) /\ d.at = "rows"
      BY <1>9, <2>5 DEF Moved
    <3>2. IsScored(S)'
      BY <1>1, <1>3, <1>9, <2>5 DEF Underway, IsScored
    <3>3. IsClustered(S)'
      <4>1. S = {} \/ [of |-> S, at |-> clock] \in clusters'
        BY <2>1, <3>1 DEF PersistClusters
      <4> QED BY <1>5, <4>1 DEF IsClustered, Current
    <3> QED BY <1>1, <2>2, <3>1, <3>2, <3>3 DEF Underway, IsScored, IsClustered
  <2>6. CASE c.at = "rows"
    <3>1. d.at = "end"
      BY <1>9, <2>6 DEF Moved
    <3>2. IsScored(S)' /\ IsClustered(S)'
      BY <1>1, <1>3, <1>9, <2>6 DEF Underway, IsScored, IsClustered
    <3> QED BY <1>1, <2>2, <3>1, <3>2 DEF Underway, IsScored, IsClustered
  <2> QED BY <1>9, <2>3, <2>4, <2>5, <2>6 DEF Moved
<1>10. CASE c.stage = "refresh"
  <2>1. Shows(S, Targets)
    BY <1>1, <1>4, <1>10, RoutedIsVisible DEF Behind, AfterRoute, TargetsRead
  <2>2. d.stage = "refresh"
    BY <1>10 DEF Moved
  <2>5. ASSUME d.fresh => Shows(S, d.legacy) PROVE d.fresh => Shows(S, d.legacy)'
    BY <2>5, ReviewsNext DEF Shows
  <2>3. CASE c.at = "begin"
    <3>1. d.at = "more" /\ d.legacy = CachedTargets.of
          /\ (d.fresh => e \in CachedTargets.after)
      BY <1>10, <2>3 DEF Moved, Awaits
    <3>2. CASE cache = {}
      <4>1. d.legacy = Targets
        BY <3>1, <3>2, Readings
      <4> QED BY <1>1, <2>1, <2>2, <2>5, <3>1, <4>1 DEF Underway, Shows
    <3>3. CASE cache # {}
      <4>1. CachedTargets \in cache
        BY <3>3, Readings
      <4>2. d.fresh => Shows(S, d.legacy)
        BY <1>1, <1>4, <1>10, <3>1, <4>1 DEF TargetsRead
      <4> QED BY <1>1, <2>2, <2>5, <3>1, <4>2 DEF Underway, Shows
    <3> QED BY <3>2, <3>3
  <2>4. CASE c.at = "more"
    <3>1. d.at = "resolve" /\ d.legacy = c.legacy /\ (d.fresh => c.fresh)
      BY <1>10, <2>4 DEF Moved
    <3>2. d.fresh => Shows(S, d.legacy)
      BY <1>1, <1>10, <2>4, <3>1 DEF Underway
    <3> QED BY <1>1, <2>2, <2>5, <3>1, <3>2 DEF Underway, Shows
  <2> QED BY <1>10, <2>3, <2>4 DEF Moved
<1> QED BY <1>6, <1>7, <1>8, <1>9, <1>10 DEF TypeOK, Call, Stages

\* A new bundle belongs to an execution that has nothing behind it yet.
LEMMA OwnWorkBundle ==
  ASSUME StageInd, CallsAwaited', NEW c \in calls, InsertBundle(c),
         NEW e \in Executions, wf'[e].alone
  PROVE  /\ Behind(e)'
         /\ \A x \in calls' : Awaits(e, x) => Underway(e, x)'
<1>1. e = c.by /\ wf'[e].at = wf[e].at
  BY BundleMoves DEF StageInd
<1>2. wf[e].at \in {"create", "failed"}
  BY <1>1 DEF StageInd, CallsAwaited, InsertBundle, Doing
<1>3. Behind(e)'
  BY <1>1, <1>2 DEF Behind, AfterGemini, AfterRoute, AfterScore
<1>4. ASSUME NEW x \in calls', Awaits(e, x) PROVE x.stage \in {"create", "failed"}
  BY <1>1, <1>2, <1>4 DEF CallsAwaited, Awaits
<1>5. ASSUME NEW x \in calls', Awaits(e, x) PROVE Underway(e, x)'
  BY <1>4, <1>5 DEF Underway
<1> QED BY <1>3, <1>5

\* Where an execution has not moved.
LEMMA OwnWorkStands ==
  ASSUME StageInd, Next, bundleAt' = bundleAt,
         NEW e \in Executions, wf'[e].alone, Same(e)
  PROVE  /\ Behind(e) /\ Behind(e)'
         /\ \A x \in calls : Awaits(e, x) => Underway(e, x) /\ Underway(e, x)'
<1>1. wf[e].alone
  BY DEF Same
<1>2. Behind(e) /\ \A x \in calls : Awaits(e, x) => Underway(e, x)
  BY <1>1 DEF StageInd, OwnWork
<1> QED BY <1>2, WorkStands DEF StageInd

\* A handler's step.
LEMMA OwnWorkHandle ==
  ASSUME StageInd, Next, CallsAwaited', bundleAt' = bundleAt,
         NEW c \in calls, Handle(c), ~ InsertBundle(c),
         NEW e \in Executions, wf'[e].alone
  PROVE  /\ Behind(e)'
         /\ \A x \in calls' : Awaits(e, x) => Underway(e, x)'
<1>1. PICK d \in Call : Moved(c, d)
  BY HandlerMoves DEF StageInd
<1>2. calls' = (calls \ {c}) \cup {d} /\ (Awaits(e, d) => Awaits(e, c))
  BY <1>1 DEF Moved, Goes, Awaits
<1>3. CASE Same(e) /\ ~ (RefreshResolve(c) /\ Awaits(e, c))
  <2>1. /\ Behind(e) /\ Behind(e)'
        /\ \A x \in calls : Awaits(e, x) => Underway(e, x) /\ Underway(e, x)'
    BY <1>3, OwnWorkStands
  <2>2. Awaits(e, d) => Underway(e, d)'
    BY <1>1, <1>2, <1>3, <2>1, HandlerWorks DEF StageInd, Same
  <2> QED BY <1>2, <2>1, <2>2
<1>4. CASE RefreshResolve(c) /\ Awaits(e, c)
  <2>1. wf[e].at = "refresh" /\ c.stage = "refresh" /\ c.at = "resolve"
    BY <1>4 DEF StageInd, CallsAwaited, Awaits, RefreshResolve, Doing
  <2>2. /\ wf'[e].alone = wf[e].alone /\ wf'[e].routed = wf[e].routed
        /\ wf'[e].graph.arts = VisibleRuns /\ wf'[e].at = wf[e].at
        /\ (wf'[e].fresh => c.fresh /\ wf'[e].graph.legacy = c.legacy)
    <3>1. PICK answer \in Graph, fresh \in BOOLEAN :
                 /\ answer.arts = VisibleRuns
                 /\ fresh => c.fresh /\ answer.legacy = c.legacy
                 /\ wf' = IF c.waited
                          THEN [wf EXCEPT ![c.by].graph = answer, ![c.by].fresh = fresh]
                          ELSE wf
      BY <1>4, GraphResolved DEF StageInd
    <3>2. wf \in [Executions -> Execution] /\ c.waited /\ c.by = e
      BY <1>4 DEF StageInd, TypeOK, Awaits
    <3> DEFINE w == [wf[e] EXCEPT !.graph = answer, !.fresh = fresh]
    <3>3. wf'[e] = w
      BY <3>1, <3>2
    <3>4. /\ w.alone = wf[e].alone /\ w.routed = wf[e].routed /\ w.at = wf[e].at
          /\ w.graph = answer /\ w.fresh = fresh
      BY <3>2 DEF Execution
    <3> HIDE DEF w
    <3> QED BY <3>1, <3>3, <3>4
  <2>3. Behind(e) /\ Underway(e, c)
    BY <1>4, <2>2 DEF StageInd, OwnWork
  <2>4. Behind(e)'
    BY <2>1, <2>2, <2>3, BehindStands DEF StageInd
  <2>5. ASSUME NEW x \in calls', Awaits(e, x) PROVE Underway(e, x)'
    <3>1. x = d
      BY <1>2, <1>4, <2>5 DEF StageInd, CallsAwaited, Awaits
    <3>2. d.stage = "refresh" /\ d.at = "end"
      BY <1>1, <2>1 DEF Moved
    <3>3. runs' = runs
      BY <1>4 DEF RefreshResolve
    <3>4. PICK r \in runs : r.by = e /\ r.provider = Gemini /\ Current(r.at)
      BY <2>1, <2>3 DEF Behind, AfterGemini, HasBaseline
    <3>5. r.n \in wf'[e].graph.arts
      BY <2>2, <3>4 DEF VisibleRuns
    <3>6. wf'[e].fresh => Shows(wf[e].routed, wf[e].graph.legacy)'
      <4>1. wf'[e].fresh => Shows(wf[e].routed, c.legacy)
        BY <2>1, <2>2, <2>3 DEF Underway
      <4> QED BY <2>2, <4>1, ReviewsNext DEF StageInd, Shows
    <3>7. Answered(e)'
      BY <3>3, <3>4, <3>5, <3>6 DEF Answered
    <3> QED BY <3>1, <3>2, <3>7 DEF Underway
  <2> QED BY <2>4, <2>5
<1> QED BY <1>3, <1>4, HandlerWorkflows DEF StageInd

\* The answer of a call takes the execution on with what the call has done.
LEMMA OwnWorkReply ==
  ASSUME StageInd, Next, bundleAt' = bundleAt, NEW c \in calls, Reply(c),
         NEW e \in Executions, wf'[e].alone
  PROVE  /\ Behind(e)'
         /\ \A x \in calls' : Awaits(e, x) => Underway(e, x)'
<1>1. calls' = calls \ {c} /\ c.at = "end" /\ stored' = stored
  BY DEF Reply
<1>2. CASE ~ Awaits(e, c)
  <2>1. Same(e)
    BY <1>2, ReplyMoves DEF StageInd, Same
  <2> QED BY <1>1, <2>1, OwnWorkStands
<1>3. CASE Awaits(e, c)
  <2>1. /\ wf[e].at = c.stage /\ wf'[e].at = After(wf[e]) /\ wf'[e].alone = wf[e].alone
        /\ wf'[e].graph = wf[e].graph /\ wf'[e].fresh = wf[e].fresh
        /\ wf'[e].routed = IF c.stage = "route" THEN c.seen ELSE wf[e].routed
    BY <1>3, ReplyMoves DEF StageInd
  <2>2. Behind(e) /\ Underway(e, c)
    BY <1>3, <2>1 DEF StageInd, OwnWork
  <2>3. wf[e] \in Execution /\ wf[e].at \in Stages
    BY <2>1 DEF StageInd, TypeOK, Call
  <2>4. \A x \in calls' : ~ Awaits(e, x)
    BY <1>1, <1>3 DEF StageInd, CallsAwaited, Awaits
  <2>5. CASE c.stage = "route"
    <3>1. PICK T \in SUBSET Numbers : T = c.seen
      BY DEF StageInd, TypeOK, Call
    <3>2. wf'[e].at = "score" /\ wf'[e].routed = T
      BY <2>1, <2>3, <2>5, <3>1, AfterFacts
    <3>3. Readable(T) /\ IsShown(T) /\ HasBaseline(e)
      BY <1>1, <2>1, <2>2, <2>5, <3>1 DEF Underway, Behind, AfterGemini
    <3>4. Readable(T)' /\ IsShown(T)' /\ HasBaseline(e)'
      BY <3>3, StoreStands DEF StageInd
    <3>5. Behind(e)'
      BY <3>2, <3>4 DEF Behind, AfterScore, Readable, IsShown
    <3> QED BY <2>4, <3>5
  <2>6. CASE c.stage # "route"
    <3>1. wf'[e].at \in AfterGemini => wf[e].at \in AfterGemini \/ HasBaseline(e)
      <4>1. c.stage = "gemini" => HasBaseline(e)
        BY <1>1, <2>2 DEF Underway
      <4> QED BY <2>1, <2>3, <4>1, AfterFacts DEF AfterGemini, Stages
    <3>2. wf'[e].at \in AfterRoute => wf[e].at \in AfterRoute
      BY <2>1, <2>3, <2>6, AfterFacts DEF AfterRoute, Stages
    <3>3. wf'[e].at \in AfterScore =>
             wf[e].at \in AfterScore \/ (IsScored(wf[e].routed) /\ IsClustered(wf[e].routed))
      <4>1. c.stage = "score" => IsScored(wf[e].routed) /\ IsClustered(wf[e].routed)
        BY <1>1, <2>2 DEF Underway
      <4> QED BY <2>1, <2>3, <2>6, <4>1, AfterFacts DEF AfterScore, Stages
    <3>4. wf'[e].at = "done" => Answered(e)'
      <4>1. wf'[e].at = "done" => c.stage = "refresh"
        BY <2>1, <2>3, <2>6, AfterFacts DEF Stages
      <4>2. c.stage = "refresh" => Answered(e)
        BY <1>1, <2>2 DEF Underway
      <4>3. runs' = runs /\ onceClosed' = onceClosed
        BY <1>1 DEF stored, reviews
      <4> QED BY <2>1, <2>6, <4>1, <4>2, <4>3 DEF Answered, Shows
    <3>5. wf'[e].routed = wf[e].routed
      BY <2>1, <2>6
    <3>6. Behind(e)'
      BY <2>2, <3>1, <3>2, <3>3, <3>4, <3>5, BehindStands DEF StageInd
    <3> QED BY <2>4, <3>6
  <2> QED BY <2>5, <2>6
<1> QED BY <1>2, <1>3

\* A failed call leaves it what it had.
LEMMA OwnWorkFail ==
  ASSUME StageInd, Next, bundleAt' = bundleAt, NEW c \in calls, Break(c) \/ GiveUp(c),
         NEW e \in Executions, wf'[e].alone
  PROVE  /\ Behind(e)'
         /\ \A x \in calls' : Awaits(e, x) => Underway(e, x)'
<1>1. \A x \in calls' : x.waited => x \in calls /\ x # c
  <2>1. CASE Break(c)
    BY <2>1 DEF Break
  <2>2. CASE GiveUp(c)
    <3> DEFINE d == [c EXCEPT !.waited = FALSE]
    <3>1. calls' = (calls \ {c}) \cup {d}
      BY <2>2 DEF GiveUp, Goes
    <3>2. ~ d.waited
      BY GivenUp DEF StageInd
    <3> HIDE DEF d
    <3> QED BY <3>1, <3>2
  <2> QED BY <2>1, <2>2
<1>2. CASE ~ Awaits(e, c)
  <2>1. Same(e)
    BY <1>2, FailMoves DEF StageInd, Same
  <2> QED BY <1>1, <2>1, OwnWorkStands DEF Awaits
<1>3. CASE Awaits(e, c)
  <2>1. /\ wf'[e].alone = wf[e].alone /\ wf'[e].routed = wf[e].routed
        /\ \/ wf'[e].at = wf[e].at /\ wf[e].at \in Retried
           \/ wf'[e].at = "failed"
           \/ wf[e].at = "alternatives" /\ wf'[e].at = "validate"
           \/ wf[e].at = "compare" /\ wf'[e].at = "refresh"
    BY <1>3, FailMoves DEF StageInd
  <2>2. Behind(e)
    BY <2>1 DEF StageInd, OwnWork
  <2>3. /\ wf'[e].at \in AfterGemini => wf[e].at \in AfterGemini
        /\ wf'[e].at \in AfterRoute => wf[e].at \in AfterRoute
        /\ wf'[e].at \in AfterScore => wf[e].at \in AfterScore
        /\ wf'[e].at # "done"
    BY <2>1 DEF AfterGemini, AfterRoute, AfterScore, Retried
  <2>4. Behind(e)'
    BY <2>1, <2>2, <2>3, BehindStands DEF StageInd
  <2>5. \A x \in calls' : ~ Awaits(e, x)
    BY <1>1, <1>3 DEF StageInd, CallsAwaited, Awaits
  <2> QED BY <2>4, <2>5
<1> QED BY <1>2, <1>3

\* Every step leaves the executions whose bundle is their own the work they have done.
LEMMA OwnWorkNext ==
  ASSUME StageInd, Next, CallsAwaited'
  PROVE  OwnWork'
<1> SUFFICES ASSUME NEW e \in Executions, wf'[e].alone
             PROVE  /\ Behind(e)'
                    /\ \A x \in calls' : Awaits(e, x) => Underway(e, x)'
  BY DEF OwnWork, Awaits
<1>1. CASE \E c \in calls : InsertBundle(c)
  BY <1>1, OwnWorkBundle
<1>2. CASE ~ \E c \in calls : InsertBundle(c)
  <2>1. bundleAt' = bundleAt
    BY <1>2, Frames
  <2>2. ASSUME NEW f \in Executions, Policy(f)
        PROVE  /\ Behind(e)'
               /\ \A x \in calls' : Awaits(e, x) => Underway(e, x)'
    <3>1. /\ wf[f].at = "policy" /\ wf'[f].at = "create" /\ calls' = calls
          /\ \A g \in Executions \ {f} : wf'[g] = wf[g]
      BY <2>2, PolicyMoves DEF StageInd, Policy
    <3>2. CASE e = f
      <4>1. Behind(e)'
        BY <3>1, <3>2 DEF Behind, AfterGemini, AfterRoute, AfterScore
      <4>2. \A x \in calls : ~ Awaits(e, x)
        BY <3>1, <3>2 DEF StageInd, CallsAwaited, Awaits, TypeOK, Call, Stages
      <4> QED BY <3>1, <4>1, <4>2
    <3>3. CASE e # f
      BY <2>1, <3>1, <3>3, OwnWorkStands DEF Same
    <3> QED BY <3>2, <3>3
  <2>3. ASSUME NEW f \in Executions, Send(f)
        PROVE  /\ Behind(e)'
               /\ \A x \in calls' : Awaits(e, x) => Underway(e, x)'
    <3>1. Same(e) /\ calls' = calls \cup {NewCall(f, wf[f].at)} /\ wf[f].at \in Stages
      BY <2>3, SendMoves DEF StageInd, Same
    <3>2. Behind(e)' /\ \A x \in calls : Awaits(e, x) => Underway(e, x)'
      BY <2>1, <3>1, OwnWorkStands
    <3>3. ASSUME NEW x, x = NewCall(f, wf[f].at) PROVE Underway(e, x)'
      <4>1. x.at = "begin"
        BY <3>1, <3>3, NewCallFacts DEF StageInd, Callers
      <4> QED BY <4>1 DEF Underway
    <3> QED BY <3>1, <3>2, <3>3
  <2>4. CASE Ask
    <3>1. Same(e)
      BY <2>4 DEF Ask, Same
    <3>2. Behind(e)' /\ \A x \in calls : Awaits(e, x) => Underway(e, x)'
      BY <2>1, <3>1, OwnWorkStands
    <3>3. \A x \in calls' : x.waited => x \in calls
      BY <2>4, NewCallFacts, StageAssumption DEF StageInd, Ask, Callers
    <3> QED BY <3>2, <3>3 DEF Awaits
  <2>5. CASE ReadTargets \/ Decide \/ ClearCache \/ Tick \/ Ended
    <3>1. Same(e) /\ calls' = calls
      BY <2>5 DEF ReadTargets, Decide, ClearCache, Tick, Ended, vars, Same
    <3> QED BY <2>1, <3>1, OwnWorkStands
  <2>6. ASSUME NEW c \in calls, Handle(c)
        PROVE  /\ Behind(e)'
               /\ \A x \in calls' : Awaits(e, x) => Underway(e, x)'
    BY <1>2, <2>1, <2>6, OwnWorkHandle
  <2>7. ASSUME NEW c \in calls, Reply(c) \/ Break(c) \/ GiveUp(c)
        PROVE  /\ Behind(e)'
               /\ \A x \in calls' : Awaits(e, x) => Underway(e, x)'
    BY <2>1, <2>7, OwnWorkReply, OwnWorkFail
  <2> QED BY <2>2, <2>3, <2>4, <2>5, <2>6, <2>7 DEF Next, Work
<1> QED BY <1>1, <1>2

-----------------------------------------------------------------------------
(* The cache.                                                              *)

\* An execution past its routing stays so, with what it has routed, and gets no bundle of
\* its own any more.
LEMMA RoutedStands ==
  ASSUME StageInd, Next, NEW e \in Executions, wf[e].at \in AfterRoute \cup {"failed"}
  PROVE  /\ wf'[e].at \in AfterRoute \cup {"failed"}
         /\ wf'[e].alone /\ wf'[e].at # "failed" =>
               wf[e].alone /\ wf[e].at # "failed" /\ wf'[e].routed = wf[e].routed
<1>1. TypeOK /\ CallsAwaited /\ wf[e] \in Execution
  BY DEF StageInd, TypeOK
<1>2. CASE wf'[e] = wf[e] \/ Same(e)
  BY <1>2 DEF Same
<1>3. ASSUME NEW f \in Executions, Policy(f) PROVE wf'[e] = wf[e]
  BY <1>1, <1>3, PolicyMoves DEF AfterRoute
<1>4. ASSUME NEW f \in Executions, Send(f) PROVE wf'[e] = wf[e] \/ Same(e)
  BY <1>1, <1>4, SendMoves
<1>5. ASSUME NEW c \in calls, InsertBundle(c)
      PROVE  /\ wf'[e].at = wf[e].at /\ (wf'[e].alone => wf[e].at = "failed")
  <2>1. wf'[e].at = wf[e].at /\ (wf'[e].alone <=> e = c.by)
    BY <1>1, <1>5, BundleMoves
  <2>2. e = c.by => wf[e].at \in {"create", "failed"}
    BY <1>1, <1>5 DEF CallsAwaited, InsertBundle, Doing
  <2> QED BY <2>1, <2>2 DEF AfterRoute
<1>6. ASSUME NEW c \in calls, Handle(c), ~ InsertBundle(c)
      PROVE  /\ wf'[e].at = wf[e].at /\ wf'[e].alone = wf[e].alone
             /\ wf'[e].routed = wf[e].routed
  BY <1>1, <1>6, HandlerWorkflows DEF Same
<1>7. ASSUME NEW c \in calls, Reply(c), Awaits(e, c)
      PROVE  /\ wf'[e].at \in AfterRoute /\ wf'[e].alone = wf[e].alone
             /\ wf[e].at # "failed" /\ wf'[e].routed = wf[e].routed
  <2>1. /\ wf[e].at = c.stage /\ wf'[e].at = After(wf[e]) /\ wf'[e].alone = wf[e].alone
        /\ wf'[e].routed = IF c.stage = "route" THEN c.seen ELSE wf[e].routed
    BY <1>1, <1>7, ReplyMoves
  <2>2. c.stage \in Stages
    BY DEF StageInd, TypeOK, Call
  <2>3. wf[e].at \in {"score", "compare", "refresh"}
    BY <2>1, <2>2 DEF AfterRoute, Stages
  <2>4. After(wf[e]) \in AfterRoute
    BY <1>1, <2>1, <2>2, <2>3, AfterFacts DEF AfterRoute
  <2> QED BY <2>1, <2>3, <2>4
<1>8. ASSUME NEW c \in calls, Break(c) \/ GiveUp(c), Awaits(e, c)
      PROVE  /\ wf'[e].at \in AfterRoute \cup {"failed"}
             /\ wf'[e].alone = wf[e].alone /\ wf'[e].routed = wf[e].routed
             /\ wf[e].at # "failed"
  <2>1. /\ wf[e].at = c.stage
        /\ wf'[e].alone = wf[e].alone /\ wf'[e].routed = wf[e].routed
        /\ \/ wf'[e].at = wf[e].at /\ wf[e].at \in Retried
           \/ wf'[e].at = "failed"
           \/ wf[e].at = "alternatives" /\ wf'[e].at = "validate"
           \/ wf[e].at = "compare" /\ wf'[e].at = "refresh"
    BY <1>1, <1>8, FailMoves
  <2>2. c.stage \in Stages
    BY DEF StageInd, TypeOK, Call
  <2>3. wf[e].at # "failed"
    BY <2>1, <2>2 DEF Stages
  <2> QED BY <2>1, <2>3 DEF AfterRoute
<1>9. ASSUME NEW c \in calls, Reply(c) \/ Break(c) \/ GiveUp(c), ~ Awaits(e, c)
      PROVE  wf'[e] = wf[e]
  BY <1>1, <1>9, ReplyMoves, FailMoves
<1>10. Ask \/ ReadTargets \/ Decide \/ ClearCache \/ Tick \/ Ended => wf' = wf
  BY DEF Ask, ReadTargets, Decide, ClearCache, Tick, Ended, vars
<1> QED BY <1>2, <1>3, <1>4, <1>5, <1>6, <1>7, <1>8, <1>9, <1>10 DEF Next, Work

\* The cache is filled with targets that are read at that step, or keeps its entry.
LEMMA CacheMoves ==
  ASSUME StageInd, Next
  PROVE  \A entry \in cache' :
            \/ entry \in cache
            \/ entry = [of |-> Targets, after |-> HaveRouted] /\ wf' = wf
<1>1. TypeOK
  BY DEF StageInd
<1>2. CASE (\E c \in calls : RefreshTargets(c)) \/ ReadTargets
  <2>1. cache' = {CachedTargets} /\ wf' = wf
    BY <1>2 DEF RefreshTargets, ReadTargets
  <2> QED BY <1>1, <2>1, Readings
<1>3. CASE ~ (\E c \in calls : RefreshTargets(c)) /\ ~ ReadTargets
  <2>1. ASSUME NEW c \in calls, Handle(c) PROVE cache' \in {cache, {}}
    BY <1>3, <2>1 DEF Handle, CreateBegin, InsertBundle, ModelsAnswer, InsertModelRun,
       InsertParsedResult, Reads, RouteClaims, InsertClaims, InsertPropositions, ScoreRead,
       InsertScores, PersistClusters, PersistTargets, RefreshSynthesis, RefreshResolve
  <2>2. ASSUME NEW c \in calls, Reply(c) \/ Break(c) \/ GiveUp(c) PROVE cache' = cache
    BY <2>2 DEF Reply, Break, GiveUp
  <2>3. ASSUME NEW f \in Executions, Policy(f) \/ Send(f) PROVE cache' = cache
    BY <2>3 DEF Policy, Send
  <2>4. Ask \/ Decide \/ ClearCache \/ Tick \/ Ended => cache' \in {cache, {}}
    BY DEF Ask, Decide, ClearCache, Tick, Ended, vars
  <2>5. cache' \in {cache, {}}
    BY <1>3, <2>1, <2>2, <2>3, <2>4 DEF Next, Work
  <2> QED BY <2>5
<1> QED BY <1>2, <1>3

\* Targets that were read after a routing go on having those of the routing.
LEMMA TargetsReadNext ==
  ASSUME StageInd, Next
  PROVE  TargetsRead'
<1>1. closed \subseteq onceClosed /\ closed' \subseteq onceClosed'
      /\ onceClosed \subseteq onceClosed'
  BY ReviewsNext DEF StageInd, TargetsRead
<1> SUFFICES ASSUME NEW entry \in cache', NEW e \in entry.after
             PROVE  /\ wf'[e].at \in AfterRoute \cup {"failed"}
                    /\ wf'[e].alone /\ wf'[e].at # "failed" =>
                          Shows(wf[e].routed, entry.of)'
  BY <1>1 DEF TargetsRead, Shows
<1>2. CASE entry \in cache
  <2>1. e \in Executions
    BY <1>2 DEF StageInd, TypeOK, Entry
  <2>2. /\ wf[e].at \in AfterRoute \cup {"failed"}
        /\ wf[e].alone /\ wf[e].at # "failed" => Shows(wf[e].routed, entry.of)
    BY <1>2 DEF StageInd, TargetsRead
  <2>3. /\ wf'[e].at \in AfterRoute \cup {"failed"}
        /\ wf'[e].alone /\ wf'[e].at # "failed" =>
              wf[e].alone /\ wf[e].at # "failed" /\ wf'[e].routed = wf[e].routed
    BY <2>1, <2>2, RoutedStands
  <2> QED BY <1>1, <2>2, <2>3 DEF Shows
<1>3. CASE entry = [of |-> Targets, after |-> HaveRouted] /\ wf' = wf
  <2>1. e \in Executions /\ wf[e].at \in AfterRoute /\ entry.of = Targets
    BY <1>3 DEF HaveRouted, AfterRoute
  <2>2. wf[e].alone => Shows(wf[e].routed, Targets)
    BY <1>1, <2>1, RoutedIsVisible DEF StageInd, OwnWork, Behind
  <2> QED BY <1>1, <1>3, <2>1, <2>2 DEF Shows
<1> QED BY <1>2, <1>3, CacheMoves

-----------------------------------------------------------------------------
(* The theorems.                                                           *)

\* StageInd holds of the empty store.
LEMMA IndInit == Init => StageInd
<1> SUFFICES ASSUME Init PROVE StageInd
  OBVIOUS
<1>1. TypeOK
  <2>1. clock \in Time /\ faults \in 0 .. MaxFaults /\ asked \in 0 .. MaxCalls
    BY StageAssumption DEF Init, Time
  <2>2. wf \in [Executions -> Execution]
    <3>1. MaxRetries \in 0 .. MaxRetries
      BY StageAssumption
    <3>2. NoGraph \in Graph
      BY DEF NoGraph, Graph
    <3> HIDE DEF NoGraph, Graph
    <3> QED BY <3>1, <3>2 DEF Init, Execution, Statuses
  <2>3. graphs \in Seq(Graph) /\ cache \subseteq Entry /\ Cardinality(cache) <= 1
    BY FS_EmptySet DEF Init
  <2> QED BY <2>1, <2>2, <2>3 DEF Init, TypeOK
<1>2. RunsNumbered
  BY FS_EmptySet DEF Init, RunsNumbered
<1>3. PastOnly
  BY DEF Init, PastOnly, Never
<1>4. /\ CallsFormed /\ OneResultPerRun /\ RoutingsRead /\ ClaimsFirst /\ CallsAwaited
  BY DEF Init, CallsFormed, OneResultPerRun, RoutingsRead, ClaimsFirst, CallsAwaited
<1>5. OwnWork /\ TargetsRead
  BY DEF Init, OwnWork, TargetsRead
<1> QED BY <1>1, <1>2, <1>3, <1>4, <1>5 DEF StageInd

\* Every step of an execution, a handler or another client keeps StageInd.
LEMMA IndNext ==
  ASSUME StageInd, [Next]_vars
  PROVE  StageInd'
<1>1. CASE Next
  <2>1. /\ TypeOK /\ RunsNumbered /\ PastOnly /\ CallsFormed /\ OneResultPerRun
        /\ RoutingsRead /\ ClaimsFirst /\ CallsAwaited
    BY DEF StageInd
  <2>2. CallsAwaited'
    BY <1>1, <2>1, CallsAwaitedNext
  <2>3. OwnWork'
    BY <1>1, <2>2, OwnWorkNext
  <2>4. TypeOK' /\ RunsNumbered' /\ PastOnly' /\ CallsFormed'
    BY <1>1, <2>1, TypeNext, RunsNumberedNext, PastOnlyNext, CallsFormedNext
  <2>5. OneResultPerRun' /\ RoutingsRead' /\ ClaimsFirst'
    BY <1>1, <2>1, OneResultNext, RoutingsReadNext, ClaimsFirstNext
  <2>6. TargetsRead'
    BY <1>1, TargetsReadNext
  <2> QED BY <2>2, <2>3, <2>4, <2>5, <2>6 DEF StageInd
<1>2. CASE UNCHANGED vars
  BY <1>2 DEF vars, stored, reviews, StageInd, TypeOK, RunsNumbered, PastOnly, CallsFormed,
     OneResultPerRun, RoutingsRead, ClaimsFirst, ClaimedSince, CallsAwaited, OwnWork, Behind,
     Underway, Awaits, HasBaseline, Readable, IsShown, IsScored, IsClustered, Answered,
     Shows, TargetsRead, Current, Stored, Ofs
<1> QED BY <1>1, <1>2

\* StageInd is an inductive invariant.
THEOREM IndHolds == Spec => []StageInd
BY IndInit, IndNext, PTL DEF Spec

\* A proposition the store shows has its claims, but for those an older routing has
\* rewritten: the routing stored the claims first, with the stamp of the proposition.
LEMMA IndResolves == StageInd => ShownPropositionsResolve
<1> SUFFICES ASSUME StageInd, NEW p \in props, Current(p.at), NEW n \in p.of \ overtaken
             PROVE  \E k \in claims : k.n = n /\ Current(k.at)
  BY DEF ShownPropositionsResolve
<1>1. PICK k \in claims : k.n = n /\ k.at >= p.at
  BY DEF StageInd, ClaimsFirst, ClaimedSince
<1>2. k.at \in Int /\ p.at \in Int /\ bundleAt \in Int
  BY StageAssumption DEF StageInd, TypeOK, Dated, Time, Never
<1> QED BY <1>1, <1>2 DEF Current

\* The proposition of a finished execution went through the score stage.
LEMMA IndScored == StageInd => FinishedWorkIsScored
<1> SUFFICES ASSUME StageInd, NEW e \in Executions, wf[e].at = "done", wf[e].alone,
                    wf[e].routed \in VisibleProps
             PROVE  /\ wf[e].routed \in scored
                    /\ \E c \in clusters : c.of = wf[e].routed /\ Current(c.at)
  BY DEF FinishedWorkIsScored
<1>1. IsScored(wf[e].routed) /\ IsClustered(wf[e].routed)
  BY DEF StageInd, OwnWork, Behind, AfterScore
<1>2. wf[e].routed # {}
  BY DEF StageInd, ClaimsFirst, VisibleProps
<1> QED BY <1>1, <1>2 DEF IsScored, IsClustered

\* The tables of the store stay well formed: one proposition and one run under each key,
\* scores and clusters of stored propositions only.
THEOREM TypeCorrect == Spec => []TypeOK
<1>1. StageInd => TypeOK
  BY DEF StageInd
<1> QED BY <1>1, IndHolds, PTL

\* However the executions, their retries, late handlers and other clients interleave, the
\* proposition a finished execution has routed into its own bundle is scored and clustered,
\* and a proposition that is shown has its claims.
THEOREM WorkIsWhole == Spec => []StageInv
<1>1. StageInd => StageInv
  BY IndResolves, IndScored DEF StageInd, StageInv
<1> QED BY <1>1, IndHolds, PTL

\* The graph of a finished execution takes its own Gemini run into account while the bundle
\* is its own.
THEOREM BaselineKept == Spec => []DoneHasItsBaseline
<1>1. StageInd => DoneHasItsBaseline
  BY DEF StageInd, OwnWork, Behind, Answered, DoneHasItsBaseline
<1> QED BY <1>1, IndHolds, PTL

\* A graph computed for a finished execution from targets read after its routing, by its own
\* refresh or into the cache, was given the targets of all the execution has routed, unless
\* a human decision has closed their proposition.
THEOREM RoutingShown == Spec => []DoneShowsItsRouting
<1>1. StageInd => DoneShowsItsRouting
  BY DEF StageInd, OwnWork, Behind, Answered, Shows, DoneShowsItsRouting
<1> QED BY <1>1, IndHolds, PTL
=============================================================================
