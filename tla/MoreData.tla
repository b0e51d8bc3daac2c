------------------------------ MODULE MoreData ------------------------------
(***************************************************************************)
(* The more-data loop of one incident (routes/api_routes.py): a reviewer   *)
(* decides on a review target, a refresh builds a child bundle with more   *)
(* evidence, runs the models on it and records the result on the target,   *)
(* a remote collection does the same with evidence fetched from the host,  *)
(* and the legacy route refreshes a proposition without a target.          *)
(*                                                                         *)
(* A target of the parent bundle is found through the newest bundle of its *)
(* incident (list_proposals, incident_rn = 1) or as a stored row.  A child *)
(* has its parent's service, environment and window, so it becomes the     *)
(* newest.  A decision is one transaction for the review and the row, then *)
(* one for each proposition of the target.  Reviews are ordered by commit: *)
(* the one second resolution of created_at is in ReviewGate.               *)
(***************************************************************************)
EXTENDS Naturals, Sequences

CONSTANTS
    Targets,        \* review targets computed from the parent's proposals
    PropsOf,        \* the propositions of each target, representative first
    Verdicts,       \* statuses a human decision gives
    Requests,       \* request threads of the server
    Parent,         \* the bundle the targets are of
    MaxRequests, MaxBatches, MaxFaults

(* A target is a cluster of propositions, and a proposition is in one      *)
(* (review_quality.py, cluster_id).                                        *)
ASSUME MoreDataAssumption ==
    /\ Targets # {}
    /\ PropsOf \in [Targets -> Seq(STRING) \ {<<>>}]
    /\ \A t, u \in Targets : \A i \in DOMAIN PropsOf[t], k \in DOMAIN PropsOf[u] :
          PropsOf[t][i] = PropsOf[u][k] => t = u
    /\ {"pending", "more_data_collected", "absent"} \cap Verdicts = {}
    /\ {MaxRequests, MaxBatches, MaxFaults} \subseteq Nat

VARIABLES
    bundles,     \* evidence_bundles of the incident
    newest,      \* the one with the latest created_at
    batches,     \* batches of sanitized logs a collector has added
    reviews,     \* reviews of each target, in commit order
    row,         \* status of the target's review_targets row, or "absent"
    props,       \* status of each proposition by its latest user_review
    job,         \* the request each thread runs, or its last one
    torn,        \* auxiliary: targets whose propositions may be mixed
    requests, faults

vars == <<bundles, newest, batches, reviews, row, props, job, torn, requests, faults>>

Props == UNION {{PropsOf[t][i] : i \in DOMAIN PropsOf[t]} : t \in Targets}
Status == Verdicts \cup {"pending", "more_data_collected"}
Kinds == {"decide", "refresh", "collect", "legacy"}

(* Bundles are content addressed: equal target, status of the target and   *)
(* added evidence give the same child.                                     *)
Children == [of: Targets, via: Kinds, seen: Status, data: 0 .. MaxBatches]
NoChild == Parent

ASSUME ParentAssumption == Parent \notin Children

(* The steps of a request; "answer" reads the run for a decision's answer, *)
(* and "fail" is the except branch that ends a run as failed.              *)
Places == {"idle", "start", "collect", "bundle", "models", "record", "commit",
           "props", "report", "finish", "answer", "fail"}

(* committed, alone and raised are auxiliary: the job's review is stored,  *)
(* no other job wrote to the target since, and the step that raised last.  *)
(* torn collects what others lose.                                         *)
Job == [kind: Kinds, at: Places, target: Targets,
        gives: Status, seen: Status, data: 0 .. MaxBatches,
        left: Seq(Props), run: {"none", "running", "succeeded", "failed",
                                "lost"},
        event: {"none", "completed", "skipped"},
        child: Children \cup {NoChild},
        committed: BOOLEAN, alone: BOOLEAN,
        raised: (Places \ {"idle"}) \cup {"none"}]

Review == [status: Status, child: Children \cup {NoChild}]

TypeOK ==
    /\ bundles \subseteq Children \cup {Parent}
    /\ newest \in bundles
    /\ batches \in 0 .. MaxBatches
    /\ reviews \in [Targets -> Seq(Review)]
    /\ row \in [Targets -> Status \cup {"absent"}]
    /\ props \in [Props -> Status]
    /\ job \in [Requests -> Job]
    /\ torn \subseteq Targets
    /\ requests \in 0 .. MaxRequests
    /\ faults \in 0 .. MaxFaults

-----------------------------------------------------------------------------
(* Mutant: no second look among the stored rows.                           *)
FoundListed(t) == newest = Parent

(* get_review_target: the targets of the newest bundle, else a stored row. *)
Found(t) == newest = Parent \/ row[t] # "absent"

(* The status a target is shown with: its latest review, else the one of   *)
(* its representative proposition.                                         *)
Shown(t) == IF reviews[t] # <<>> THEN reviews[t][Len(reviews[t])].status
            ELSE props[Head(PropsOf[t])]

Blank == [kind |-> "decide", at |-> "idle", target |-> CHOOSE t \in Targets : TRUE,
          gives |-> "pending", seen |-> "pending", data |-> 0, left |-> <<>>,
          run |-> "none", event |-> "none", child |-> NoChild,
          committed |-> FALSE, alone |-> FALSE, raised |-> "none"]

(* The stage routes store the first targets, and the canonical graph may   *)
(* have replaced their rows since: any of them may have a row.             *)
Init ==
    /\ bundles = {Parent}
    /\ newest = Parent
    /\ batches = 0
    /\ reviews = [t \in Targets |-> <<>>]
    /\ row \in [Targets -> {"absent", "pending"}]
    /\ props = [p \in Props |-> "pending"]
    /\ job = [r \in Requests |-> Blank]
    /\ torn = {}
    /\ requests = 0
    /\ faults = 0

-----------------------------------------------------------------------------
Idle(r) == job[r].at = "idle"
Goes(r, j) == job' = [job EXCEPT ![r] = j]

(* Mutant: what it raises is passed on.                                    *)
NotRecordedRaises(j) == [j EXCEPT !.at = "fail"]

(* record_more_data_result's caller swallows what it raises and goes on to *)
(* report the history as updated; a decision's caller fails the run.       *)
NotRecorded(j) == [j EXCEPT !.at = IF j.kind = "decide" THEN "fail" ELSE "report"]

Writing(t) == {r \in Requests : job[r].at = "props" /\ job[r].target = t}

(* POST /review-targets/{id}/accept, reject, needs-more-data.  A target    *)
(* that is not found is a 404 and changes nothing.                         *)
Decide(r) ==
    /\ Idle(r) /\ requests < MaxRequests
    /\ \E t \in Targets, v \in Verdicts :
          /\ Found(t)
          /\ Goes(r, [Blank EXCEPT !.at = "start", !.target = t,
                                   !.gives = v, !.run = "running"])
    /\ requests' = requests + 1
    /\ UNCHANGED <<bundles, newest, batches, reviews, row, props, torn, faults>>

(* Mutant: counts the batch that is still to come.                         *)
PreviewAhead == batches + 1

(* What build_more_data_query finds for a request: the logs of the window  *)
(* as they are now, so a batch more or less makes another answer.          *)
Preview == batches

(* Target, query, proposal and parent are read, then the run starts.       *)
Begin(r, kind, t) ==
    /\ Idle(r) /\ requests < MaxRequests
    /\ Goes(r, [Blank EXCEPT
          !.kind = kind, !.target = t, !.run = "running", !.at = "start",
          !.gives = "more_data_collected", !.data = Preview,
          !.seen = IF kind = "legacy" THEN "pending" ELSE Shown(t)])
    /\ requests' = requests + 1
    /\ UNCHANGED <<bundles, newest, batches, reviews, row, props, torn, faults>>

(* POST /review-targets/{id}/more-data-refresh.                            *)
RefreshTarget(r) ==
    \E t \in Targets : Found(t) /\ Begin(r, "refresh", t)

(* POST /review-targets/{id}/remote-collect, where it is enabled.          *)
RemoteCollect(r) ==
    \E t \in Targets : Found(t) /\ Begin(r, "collect", t)

(* POST /propositions/{id}/more-data-refresh finds the proposition in its  *)
(* own bundle, and no target.                                              *)
RefreshProposition(r) == \E t \in Targets : Begin(r, "legacy", t)

(* POST /reviews/{proposition}/accept, reject: the proposition alone.      *)
DecideProposition(r) ==
    /\ Idle(r) /\ requests < MaxRequests
    /\ \E t \in Targets, v \in Verdicts : \E i \in DOMAIN PropsOf[t] :
          /\ props' = [props EXCEPT ![PropsOf[t][i]] = v]
          /\ torn' = torn \cup {t}
          /\ job' = [o \in Requests |->
                IF o = r THEN Blank
                ELSE IF o \in Writing(t) THEN [job[o] EXCEPT !.alone = FALSE]
                ELSE job[o]]
    /\ requests' = requests + 1
    /\ UNCHANGED <<bundles, newest, batches, reviews, row, faults>>

(* The first event of a run.                                               *)
Started(r) ==
    /\ job[r].at = "start"
    /\ Goes(r, [job[r] EXCEPT !.at = CASE job[r].kind = "decide" -> "record"
                                       [] job[r].kind = "collect" -> "collect"
                                       [] OTHER -> "bundle"])
    /\ UNCHANGED <<bundles, newest, batches, reviews, row, props, torn, requests,
                   faults>>

(* The collector runs read-only commands; a command that fails or times    *)
(* out is evidence too, no unit or path gives none, and a refused unit,    *)
(* path or host raises (Raise).                                            *)
BatchesCollected == {0, 1}

Collect(r) ==
    /\ job[r].at = "collect"
    /\ \E n \in {batches + b : b \in BatchesCollected} :
          /\ n <= MaxBatches
          /\ batches' = n
          /\ Goes(r, [job[r] EXCEPT !.at = "bundle", !.data = n])
    /\ UNCHANGED <<bundles, newest, reviews, row, props, torn, requests, faults>>

ChildOf(j) == [of |-> j.target, via |-> j.kind, seen |-> j.seen,
               data |-> j.data]

(* Mutant: the bundle is kept for the end of the refresh.                  *)
NameChild(r) ==
    /\ job[r].at = "bundle"
    /\ Goes(r, [job[r] EXCEPT !.at = "models", !.child = ChildOf(job[r])])
    /\ UNCHANGED <<bundles, newest, batches, reviews, row, props, torn, requests,
                   faults>>

(* insert_bundle replaces a bundle of the same content with a new          *)
(* created_at.                                                             *)
StoreChild(r) ==
    LET c == ChildOf(job[r])
    IN /\ job[r].at = "bundle"
       /\ bundles' = bundles \cup {c}
       /\ newest' = c
       /\ Goes(r, [job[r] EXCEPT !.at = "models", !.child = c])
       /\ UNCHANGED <<batches, reviews, row, props, torn, requests, faults>>

(* run_synthesis_for_bundle on the child, minutes of provider calls, or    *)
(* the event that it was skipped.  The legacy refresh has no target.       *)
RunModels(r) ==
    /\ job[r].at = "models"
    /\ Goes(r, [job[r] EXCEPT !.at = IF job[r].kind = "legacy" THEN "report"
                                     ELSE "record"])
    /\ UNCHANGED <<bundles, newest, batches, reviews, row, props, torn, requests,
                   faults>>

(* The store looks the target up again.                                    *)
LookAgain(r) ==
    LET j == job[r]
    IN /\ j.at = "record"
       /\ Goes(r, IF Found(j.target)
                  THEN [j EXCEPT !.at = "commit", !.left = PropsOf[j.target]]
                  ELSE NotRecorded(j))
       /\ UNCHANGED <<bundles, newest, batches, reviews, row, props, torn, requests,
                      faults>>

(* One transaction: the review, and the row if there is one.               *)
Commit(r) ==
    LET j == job[r]
        t == j.target
    IN /\ j.at = "commit"
       /\ reviews' = [reviews EXCEPT ![t] =
                         Append(@, [status |-> j.gives, child |-> j.child])]
       /\ row' = [row EXCEPT ![t] = IF @ = "absent" THEN @ ELSE j.gives]
       /\ job' = [o \in Requests |->
             IF o = r THEN [j EXCEPT !.at = "props", !.committed = TRUE,
                                     !.alone = Writing(t) = {}]
             ELSE IF o \in Writing(t) THEN [job[o] EXCEPT !.alone = FALSE]
             ELSE job[o]]
       /\ torn' = IF Writing(t) = {} THEN torn ELSE torn \cup {t}
       /\ UNCHANGED <<bundles, newest, batches, props, requests, faults>>

(* Mutant: the representative stands for the target.                       *)
WriteRepresentative(r) ==
    LET j == job[r]
    IN /\ j.at = "props"
       /\ props' = [props EXCEPT ![Head(j.left)] = j.gives]
       /\ Goes(r, [j EXCEPT !.left = <<>>, !.at = "report"])
       /\ torn' = IF j.alone THEN torn \ {j.target} ELSE torn
       /\ UNCHANGED <<bundles, newest, batches, reviews, row, requests, faults>>

(* Then record_review for each proposition, a transaction each.            *)
WriteProposition(r) ==
    LET j == job[r]
        rest == Tail(j.left)
    IN /\ j.at = "props"
       /\ props' = [props EXCEPT ![Head(j.left)] = j.gives]
       /\ IF rest # <<>>
          THEN Goes(r, [j EXCEPT !.left = rest]) /\ UNCHANGED torn
          ELSE /\ Goes(r, [j EXCEPT !.left = rest, !.at = "report"])
               /\ torn' = IF j.alone THEN torn \ {j.target} ELSE torn
       /\ UNCHANGED <<bundles, newest, batches, reviews, row, requests, faults>>

(* The last event of a run: the history is updated, or has no target, or   *)
(* the decision is persisted.                                              *)
Report(r) ==
    LET said == [decide |-> "none", legacy |-> "skipped",
                 refresh |-> "completed", collect |-> "completed"]
    IN /\ job[r].at = "report"
       /\ Goes(r, [job[r] EXCEPT !.at = "finish", !.event = said[job[r].kind]])
       /\ UNCHANGED <<bundles, newest, batches, reviews, row, props, torn, requests,
                      faults>>

(* finish_pipeline_run, in success.  The answer to a decision is read from *)
(* the run within the same try.                                            *)
Finish(r) ==
    /\ job[r].at = "finish"
    /\ Goes(r, [job[r] EXCEPT !.run = "succeeded",
                   !.at = IF job[r].kind = "decide" THEN "answer" ELSE "idle"])
    /\ UNCHANGED <<bundles, newest, batches, reviews, row, props, torn, requests,
                   faults>>

Answer(r) ==
    /\ job[r].at = "answer"
    /\ Goes(r, [job[r] EXCEPT !.at = "idle"])
    /\ UNCHANGED <<bundles, newest, batches, reviews, row, props, torn, requests,
                   faults>>

(* The except branch: the run ends as failed.                              *)
Fail(r) ==
    /\ job[r].at = "fail"
    /\ Goes(r, [job[r] EXCEPT !.at = "idle", !.run = "failed"])
    /\ UNCHANGED <<bundles, newest, batches, reviews, row, props, torn, requests,
                   faults>>

(* Writes outside any try: the first event of a decision and of a          *)
(* collection, and those of the except branch itself.                      *)
Unguarded(kind, at) == \/ at = "fail"
                       \/ at = "start" /\ kind \in {"decide", "collect"}

(* Mutant: a rerun that raises skips the except branch.                    *)
RaisedUnfinished(j) ==
    [(IF j.at \in {"record", "commit", "props"} THEN NotRecorded(j)
      ELSE [j EXCEPT !.at = "idle"]) EXCEPT !.raised = j.at]

(* What the handlers do with an exception, by the step that raises it.     *)
Raised(j) ==
    LET next == CASE Unguarded(j.kind, j.at) -> [j EXCEPT !.at = "idle"]
                  [] j.at \in {"record", "commit", "props"} -> NotRecorded(j)
                  [] OTHER -> [j EXCEPT !.at = "fail"]
    IN [next EXCEPT !.raised = j.at]

(* The collector, the store or the models raise.  A write that stops       *)
(* between two propositions leaves the earlier ones.                       *)
Raise(r) ==
    LET j == job[r]
    IN /\ ~ Idle(r)
       /\ faults < MaxFaults
       /\ faults' = faults + 1
       /\ Goes(r, Raised(j))
       /\ torn' = IF j.at = "props" THEN torn \cup {j.target} ELSE torn
       /\ UNCHANGED <<bundles, newest, batches, reviews, row, props, requests>>

(* The process dies with all its requests.                                 *)
Crash ==
    /\ faults < MaxFaults
    /\ \E r \in Requests : ~ Idle(r)
    /\ faults' = faults + 1
    /\ torn' = torn \cup {job[r].target : r \in
                          {o \in Requests : job[o].at = "props"}}
    /\ job' = [r \in Requests |->
                  IF Idle(r) THEN job[r]
                  ELSE [job[r] EXCEPT !.at = "idle",
                           !.run = IF @ = "running" THEN "lost" ELSE @]]
    /\ UNCHANGED <<bundles, newest, batches, reviews, row, props, requests>>

Step(r) == \/ Started(r) \/ Collect(r) \/ StoreChild(r) \/ RunModels(r)
           \/ LookAgain(r) \/ Commit(r) \/ WriteProposition(r)
           \/ Report(r) \/ Finish(r) \/ Answer(r) \/ Fail(r) \/ Raise(r)

Next ==
    \/ \E r \in Requests :
          \/ Decide(r) \/ DecideProposition(r) \/ RefreshTarget(r)
          \/ RemoteCollect(r) \/ RefreshProposition(r) \/ Step(r)
    \/ Crash

(* A started request goes on: calls time out and transactions end.         *)
Spec == Init /\ [][Next]_vars /\ \A r \in Requests : WF_vars(Step(r))

-----------------------------------------------------------------------------
(* A result on a target names a child that is stored and was built for     *)
(* that target, whatever fails in between (_record_more_data_result).      *)
ResultHasItsChild ==
    \A t \in Targets : \A i \in DOMAIN reviews[t] :
       reviews[t][i].status = "more_data_collected" =>
          /\ reviews[t][i].child \in bundles
          /\ reviews[t][i].child # Parent
          /\ reviews[t][i].child.of = t

(* A refresh whose run failed has recorded no result, unless it was its    *)
(* last event or its end that could not be written.  A decision whose run  *)
(* succeeded has its review and every proposition written; the reverse     *)
(* does not hold, a decision may be stored and its run failed.  A request  *)
(* leaves its run running only where a write outside any try raised.       *)
RunTellsTheTruth ==
    \A r \in Requests : LET j == job[r] IN
       /\ j.run = "failed" /\ j.kind # "decide" /\ j.committed
             => j.raised \in {"report", "finish"}
       /\ j.run = "succeeded" /\ j.kind = "decide"
             => j.committed /\ j.left = <<>>
       /\ j.run = "running" /\ Idle(r) => Unguarded(j.kind, j.raised)

(* When no write to a target overlapped or broke off, or a whole later one *)
(* has repaired it, each proposition has the status of the target's latest *)
(* review: the list by propositions and the targets agree.                 *)
PropositionsFollowTarget ==
    \A t \in Targets :
       t \notin torn /\ Writing(t) = {} /\ reviews[t] # <<>> =>
          \A i \in DOMAIN PropsOf[t] : props[PropsOf[t][i]] = Shown(t)

(* The history of a stored target is kept: a refresh or collection that    *)
(* met no error and succeeded has its review on the target.                *)
StoredHistoryIsKept ==
    \A r \in Requests : LET j == job[r] IN
       ( /\ j.kind \in {"refresh", "collect"} /\ j.run = "succeeded"
         /\ j.raised = "none" /\ row[j.target] # "absent" )
       => j.committed

(* What runs say and targets list is what was stored.                      *)
MoreDataInv ==
    /\ TypeOK
    /\ ResultHasItsChild
    /\ RunTellsTheTruth
    /\ StoredHistoryIsKept

(* Every run ends, in success or failure, unless its process dies or a     *)
(* write outside any try raises: the first event of a decision or a        *)
(* collection, or the one that should end the run as failed.  As requests  *)
(* are finitely many, there are always times to come at which no other run *)
(* is under way.                                                           *)
RunsEnd ==
    []<>(\A r \in Requests :
            job[r].run = "running" => Unguarded(job[r].kind, job[r].raised))

(* What the event of a finished refresh says: "More data result linked     *)
(* back to the review target."                                             *)
HistoryIsLinked ==
    \A r \in Requests : job[r].event = "completed" => job[r].committed
=============================================================================
