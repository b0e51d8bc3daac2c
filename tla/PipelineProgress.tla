---------------------------- MODULE PipelineProgress ----------------------------
(***************************************************************************)
(* The progress record of one analysis run (pipeline_progress.py) as       *)
(* written by run_multi_ai (synthesis/multi_ai.py) or by the synthesis     *)
(* pipeline (synthesis/pipeline.py): each step inserts an event and then   *)
(* rewrites the run's snapshot, the work or the store may raise and the    *)
(* process may die between any two writes, and a browser polls the status  *)
(* by reading the snapshot and then the events.                            *)
(*                                                                         *)
(* Kept of an event: its step, its status and whether a provider's output  *)
(* was schema-valid.  Kept of a snapshot: status, completed steps and the  *)
(* provider counts; reason codes, messages and target counts are left out, *)
(* and so is the progress bar of what is shown.                            *)
(* ProgressInit is after start_pipeline_run, whose event changes none of these.    *)
(*                                                                         *)
(* SQLite replaces the row of the run.  BigQuery (gcp/bigquery.py) appends *)
(* one under the key run and second, and a read takes any of the rows of   *)
(* the latest second; what is inserted is visible at once.                 *)
(***************************************************************************)
EXTENDS Integers, Sequences, FiniteSets

CONSTANTS
    Providers,    \* how many providers the run has
    MaxShared     \* bound: snapshots written in the second of the one before

ASSUME ProgressAssumption == Providers \in Nat \ {0} /\ MaxShared \in Nat

VARIABLES
    operation, \* the run's operation: "multi_ai" or "synthesis"
    events,    \* pipeline_events of the run
    rows,      \* the rows of pipeline_runs a read of the run may get
    shared,    \* auxiliary: how many snapshots were written in the second of the one before,
    tie,       \* auxiliary: the last one was
    blind,     \* the last finish could not read the events
    at,        \* the script entry the writer is at
    unsafe,    \* the safety preflight refused the model input
    writer,    \* what the writer does next
    failing,   \* it is in the except clause
    polled,    \* the snapshot a poll has read and not yet shown, if any
    shown      \* what the last poll showed

stored == <<rows, shared, tie, blind>>
writerVars == <<operation, events, stored, at, unsafe, writer, failing>>
pollVars == <<polled, shown>>
progressVars == <<writerVars, pollVars>>

\* OPERATION_STEPS
Steps ==
    IF operation = "multi_ai"
    THEN <<"bundle_persisted", "bundle_validated", "model_input_validated",
           "providers_scheduled", "providers_completed", "outputs_persisted",
           "canonical_graph_resolved", "review_targets_ready">>
    ELSE <<"bundle_persisted", "providers_scheduled", "providers_completed",
           "outputs_parsed", "claims_routed", "scores_written", "clusters_built",
           "review_targets_persisted">>

\* The steps in the order the code records them: one providers_completed per provider.
Providing == [i \in 1 .. Providers |-> "providers_completed"]
Script ==
    IF operation = "multi_ai"
    THEN <<"bundle_persisted", "bundle_validated", "model_input_announced",   \* its "running" event
           "providers_scheduled", "model_input_validated">> \o Providing \o
         <<"outputs_persisted", "canonical_graph_resolved", "review_targets_ready">>
    ELSE <<"bundle_persisted", "providers_scheduled">> \o Providing \o
         SubSeq(Steps, 4, 8) \o <<"canonical_graph_resolved">>

\* The entry before which the safety preflight is run.
PreflightAt == IF operation = "multi_ai" THEN 5 ELSE 3

Terminal == {"succeeded", "failed", "blocked"}     \* TERMINAL_STATUSES
Done == {"completed", "skipped", "succeeded"}      \* COMPLETE_EVENT_STATUSES
Stopping == {"failed", "blocked"}
Event == [step : {Script[i] : i \in DOMAIN Script} \cup {"finish"},
          status : {"running"} \cup Done \cup Stopping,
          valid : BOOLEAN]
NewRun == [status |-> "running", completed |-> 0, good |-> 0, bad |-> 0, skipped |-> 0]
Run == [status : Terminal \cup {"running"}, completed : 0 .. Len(Steps),
        good : 0 .. Providers, bad : 0 .. Providers, skipped : 0 .. Providers]
Shown == Terminal \cup {"running"}

ProgressTypeOK ==
    /\ operation \in {"multi_ai", "synthesis"}
    /\ events \in Seq(Event)
    /\ rows \subseteq Run /\ rows # {}
    /\ shared \in 0 .. MaxShared /\ tie \in BOOLEAN /\ blind \in BOOLEAN
    /\ at \in 1 .. Len(Script) + 1
    /\ unsafe \in BOOLEAN
    /\ writer \in {"record", "project", "finish", "publish", "write", "over", "dead"}
    /\ failing \in BOOLEAN
    /\ polled \subseteq [status : Shown, good : 0 .. Providers, bad : 0 .. Providers,
                      skipped : 0 .. Providers]
    /\ Cardinality(polled) <= 1
    /\ shown \in Shown

ProgressInit ==
    /\ operation \in {"multi_ai", "synthesis"}
    /\ events = <<>>
    /\ rows = {NewRun} /\ shared = 0 /\ tie = FALSE /\ blind = FALSE
    /\ at = 1
    /\ unsafe = FALSE
    /\ writer = "record"
    /\ failing = FALSE
    /\ polled = {}
    /\ shown = "running"

-------------------------------------------------------------------------------
(* Operators of pipeline_progress.py.                                        *)

\* What a provider's event counts as.
Verdict(e) ==
    IF e.status = "completed" /\ e.valid THEN "good"
    ELSE IF e.status = "skipped" THEN "skipped" ELSE "bad"

Answers(evs) == {i \in DOMAIN evs : evs[i].step = "providers_completed"}
Counts(r) == [good |-> r.good, bad |-> r.bad, skipped |-> r.skipped]
Seen(r) == [status |-> r.status, good |-> r.good, bad |-> r.bad, skipped |-> r.skipped]
WithCounts(r, counts) == [r EXCEPT !.good = counts.good, !.bad = counts.bad,
                                   !.skipped = counts.skipped]

\* Counts over the providers' events.
Frontier(evs) ==
    LET of(verdict) == Cardinality({i \in Answers(evs) : Verdict(evs[i]) = verdict})
    IN [good |-> of("good"), bad |-> of("bad"), skipped |-> of("skipped")]

\* _event_frontier: without such events, the counts of the snapshot.
Known(r, evs) == IF Answers(evs) = {} THEN Counts(r) ELSE Frontier(evs)

\* Mutant of WithFrontier: the status is taken as it is claimed.
WithFrontierClaimed(status, counts) == status

\* _status_with_provider_frontier: no success without a provider's.
WithFrontier(status, counts) ==
    IF status = "succeeded" /\ counts.good = 0 /\ counts.bad + counts.skipped > 0
    THEN IF counts.bad > 0 THEN "failed" ELSE "blocked"
    ELSE status

\* The place among Steps of a step the event completes, 0 if it completes none.
Reached(e) ==
    IF e.status \in Done /\ \E i \in DOMAIN Steps : Steps[i] = e.step
    THEN CHOOSE i \in DOMAIN Steps : Steps[i] = e.step
    ELSE 0

Larger(a, b) == IF a > b THEN a ELSE b

\* _update_run_from_event and _apply_summary_counters.  A status once stopped stays.
Updated(r, e) ==
    LET one(verdict) == IF e.step = "providers_completed" /\ Verdict(e) = verdict THEN 1 ELSE 0
    IN [status |-> IF e.status \in Stopping THEN e.status ELSE r.status,
        completed |-> Larger(r.completed, Reached(e)),
        good |-> r.good + one("good"), bad |-> r.bad + one("bad"),
        skipped |-> r.skipped + one("skipped")]

\* Mutant of Finished: the counts are those of the snapshot, as they were projected.
FinishedProjected(r, status, evs) ==
    [r EXCEPT !.status = WithFrontier(status, r),
              !.completed = IF status = "succeeded" THEN Len(Steps) ELSE @]

\* Mutant of Finished: the events' counts are added to the snapshot's.
FinishedSummed(r, status, evs) ==
    LET counts == Frontier(evs) IN
    [FinishedProjected(r, status, evs) EXCEPT !.good = @ + counts.good, !.bad = @ + counts.bad,
                                              !.skipped = @ + counts.skipped]

\* finish_pipeline_run, after its event.
Finished(r, status, evs) ==
    LET counts == Known(r, evs) IN
    WithCounts([r EXCEPT !.status = WithFrontier(status, counts),
                         !.completed = IF status = "succeeded" THEN Len(Steps) ELSE @],
               counts)

\* build_pipeline_status, the status of it.
Display(r, evs) == WithFrontier(r.status, Known(r, evs))

-------------------------------------------------------------------------------
(* The writer: run_multi_ai with _run_model_artifacts, or run_synthesis_for_bundle with the   *)
(* stages it calls.                                                                           *)

\* What a step's event can say.  In multi_ai a provider's output that is not valid is a failure;
\* in synthesis it is a completed call.
Says(step, refused) ==
    LET fact(status, valid) == [step |-> step, status |-> status, valid |-> valid] IN
    IF step = "providers_completed"
    THEN IF refused THEN {fact("blocked", FALSE)}
         ELSE {fact("completed", TRUE), fact("failed", FALSE), fact("skipped", FALSE)}
              \cup (IF operation = "synthesis" THEN {fact("completed", FALSE)} ELSE {})
    ELSE IF step = "model_input_validated" /\ refused THEN {fact("blocked", FALSE)}
    ELSE IF step \in {"model_input_announced", "providers_scheduled"} THEN {fact("running", FALSE)}
    ELSE {fact("completed", FALSE)}

\* Mutant of UpsertRun: a later snapshot of the second takes no effect.
UpsertFirst(r) ==
    \/ rows' = {r} /\ tie' = FALSE /\ UNCHANGED shared
    \/ UNCHANGED <<rows, tie, shared>>

\* upsert_pipeline_run.  A row of a second that has one already is added, or dropped as
\* a duplicate.
UpsertRun(r) ==
    \/ rows' = {r} /\ tie' = FALSE /\ UNCHANGED shared
    \/ /\ shared < MaxShared
       /\ rows' \in {rows, rows \cup {r}}
       /\ tie' = TRUE /\ shared' = shared + 1

\* record_pipeline_event, first write: the event.
Record ==
    /\ writer = "record"
    /\ at <= Len(Script)
    /\ unsafe' \in (IF at = PreflightAt THEN BOOLEAN ELSE {unsafe})
    /\ \E e \in Says(Script[at], unsafe') : events' = Append(events, e)
    /\ writer' = "project"
    /\ UNCHANGED <<stored, at, failing, operation, pollVars>>

\* record_pipeline_event, second write: the snapshot.
Project ==
    /\ writer = "project"
    /\ \E r \in rows : UpsertRun(Updated(r, events[Len(events)]))
    /\ at' = at + 1
    /\ writer' = "record"
    /\ UNCHANGED <<events, blind, unsafe, failing, operation, pollVars>>

\* Mutant of Claimed: the except clause claims what the providers did.
ClaimedByCounts ==
    LET counts == Frontier(events) IN
    IF operation = "synthesis" \/ counts.good > 0 THEN "succeeded"
    ELSE IF counts.bad > 0 THEN "failed" ELSE "blocked"

\* What the run claims to be: synthesis that it succeeded, multi_ai what its providers did.
Claimed ==
    LET counts == Frontier(events) IN
    IF failing THEN "failed"
    ELSE IF operation = "synthesis" \/ counts.good > 0 THEN "succeeded"
    ELSE IF counts.bad > 0 THEN "failed" ELSE "blocked"

\* finish_pipeline_run, first write: the event, which is not projected.
Finish ==
    /\ \/ writer = "finish"
       \/ writer = "record" /\ at > Len(Script)
    /\ events' = Append(events, [step |-> "finish", status |-> Claimed, valid |-> FALSE])
    /\ writer' = "publish"
    /\ UNCHANGED <<stored, at, unsafe, failing, operation, pollVars>>

\* run_multi_ai passes the counts of its providers, the except clause and synthesis none.
Told(r) ==
    IF operation = "multi_ai" /\ ~ failing THEN WithCounts(r, Frontier(events)) ELSE r

\* finish_pipeline_run, second write: the snapshot, with the counts read back from the events;
\* where that raises, there are none (_list_events).
Publish ==
    /\ writer = "publish"
    /\ blind' \in BOOLEAN
    /\ \E r \in rows : UpsertRun(Finished(Told(r), events[Len(events)].status,
                                       IF blind' THEN <<>> ELSE events))
    /\ writer' = IF operation = "multi_ai" /\ ~ failing THEN "write" ELSE "over"
    /\ UNCHANGED <<events, at, unsafe, failing, operation, pollVars>>

\* write_multi_ai_outputs, after the run has been finished.
Write ==
    /\ writer = "write"
    /\ writer' = "over"
    /\ UNCHANGED <<events, stored, at, unsafe, failing, operation, pollVars>>

\* The mutant of Raise leaves the run as it is.
RaiseOver ==
    /\ writer \in {"record", "project", "publish", "write"}
    /\ ~ failing
    /\ operation = "multi_ai" \/ at > 1
    /\ failing' = TRUE
    /\ writer' = "over"
    /\ UNCHANGED <<events, stored, at, unsafe, operation, pollVars>>

\* The work or one of the store's writes raises: the except clause finishes the run again.
\* The first step of synthesis is outside the try block; a raise there is as Die.
Raise ==
    /\ writer \in {"record", "project", "publish", "write"}
    /\ ~ failing
    /\ operation = "multi_ai" \/ at > 1
    /\ failing' = TRUE
    /\ writer' = "finish"
    /\ UNCHANGED <<events, stored, at, unsafe, operation, pollVars>>

\* The process dies, or the store's writes raise in the except clause too: nobody ends the run.
Die ==
    /\ writer \notin {"over", "dead"}
    /\ writer' = "dead"
    /\ UNCHANGED <<events, stored, at, unsafe, failing, operation, pollVars>>

(* The reader: GET /pipeline-status, polled every five seconds without end. *)

ReadRun ==
    /\ polled = {}
    /\ \E r \in rows : polled' = {Seen(r)}
    /\ UNCHANGED <<writerVars, shown>>

\* list_pipeline_events and build_pipeline_status.
Show ==
    /\ \E r \in polled : shown' = Display(r, events)
    /\ polled' = {}
    /\ UNCHANGED writerVars

Work == Record \/ Project \/ Finish \/ Publish \/ Write
ProgressNext == Work \/ Raise \/ Die \/ ReadRun \/ Show

ProgressSpec == ProgressInit /\ [][ProgressNext]_progressVars

\* The writer's process runs on unless it dies; the page polls without end.
FairProgress ==
    /\ ProgressSpec
    /\ WF_progressVars(Work) /\ WF_progressVars(ReadRun) /\ WF_progressVars(Show)

-------------------------------------------------------------------------------
(* What the snapshot and the display promise.                                *)

Ends(evs) == {i \in DOMAIN evs : evs[i].step = "finish"}
Stops(evs) == {i \in DOMAIN evs : evs[i].status \in Stopping}
LastOf(S) == CHOOSE i \in S : \A j \in S : j <= i

\* The status the events stand for: of the last finish, corrected by the providers' answers,
\* and before any finish that of the last event that stopped the run.
StatusOf(evs) ==
    IF Ends(evs) # {} THEN WithFrontier(evs[LastOf(Ends(evs))].status, Frontier(evs))
    ELSE IF Stops(evs) # {} THEN evs[LastOf(Stops(evs))].status
    ELSE "running"

\* How far the run came: all the way if a finish has said so.
Furthest(evs) ==
    IF \E i \in Ends(evs) : evs[i].status = "succeeded" THEN Len(Steps)
    ELSE LET reached == {Reached(evs[i]) : i \in DOMAIN evs} \cup {0}
         IN CHOOSE n \in reached : \A m \in reached : m <= n

\* The snapshot the events alone give.  A finish that was not preceded by every other write
\* corrects the status and the counts but not how far the run came.
IsRebuilt(r, evs) ==
    /\ r.status = StatusOf(evs)
    /\ Counts(r) = Frontier(evs)
    /\ r.completed <= Furthest(evs)
    /\ Ends(evs) = {} \/ StatusOf(evs) = "succeeded" => r.completed = Furthest(evs)

\* How many of the last events the snapshot may not know yet: the one being recorded, and one
\* whose projection raised until the finish that follows it is published.
Pending == IF writer = "over" THEN {0} ELSE IF failing THEN 0 .. 2 ELSE 0 .. 1

\* The snapshot is the one the events rebuild, but for the events still pending
\* (docs/architecture.md: pipeline_events is rebuildable into the current state,
\* pipeline_runs is a derived snapshot).  Not so after two snapshots of one second, when a
\* projection may have started from an older one, nor when the clause that handles an exception
\* could not read the events, whose counts then miss what was not projected.
SnapshotIsRebuildable ==
    shared = 0 /\ ~ (blind /\ failing) =>
        \A r \in rows : \E n \in Pending :
            n <= Len(events) /\ IsRebuilt(r, SubSeq(events, 1, Len(events) - n))

\* The finish counted on a snapshot, maybe an older one, for want of the events.
Misled == blind /\ shared > 0

\* Nobody is shown a success unless a provider has answered with a valid output and the run
\* was finished, whatever the run claims, however the reads fall, and whichever snapshot they
\* get (tests/test_pipeline_progress.py: does not succeed when all providers failed).  Nor is
\* one kept, unless the finish was misled.
NoFalseSuccess ==
    LET earned == Frontier(events).good > 0 /\ Ends(events) # {} IN
    /\ shown = "succeeded" => earned
    /\ ~ Misled /\ (\E r \in rows : r.status = "succeeded") => earned

\* A run that raised is never left as a success by the clause that handles the exception,
\* unless its snapshot shares its second with the one before.
FailureIsKept ==
    writer = "over" /\ failing =>
        /\ events[Len(events)].status = "failed"
        /\ ~ tie => \A r \in rows : r.status = "failed"

\* How a run ended is told as it was: no false success, no failure forgotten.
ProgressInv ==
    /\ ProgressTypeOK
    /\ NoFalseSuccess
    /\ FailureIsKept

\* Unless the process dies, the page ends up showing how the run ended, and keeps showing it,
\* if the last snapshot has its second for itself: else the page may go on for ever showing
\* the run as running.
EndIsShown ==
    \/ <>(writer = "dead")
    \/ <>[](tie \/ Misled)
    \/ <>[](\E r \in rows : shown = r.status /\ r.status \in Terminal)
=============================================================================
