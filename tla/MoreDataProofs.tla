--------------------------- MODULE MoreDataProofs ---------------------------
(***************************************************************************)
(* Proofs about MoreData: what runs say, targets list and propositions     *)
(* show is what was stored (MoreDataInv, PropositionsFollowTarget), for    *)
(* any targets, requests, exceptions and crashes.  A request is described  *)
(* by what it has done so far; of the requests that write the propositions *)
(* of a target, one that began alone and was left alone knows what each    *)
(* proposition is, and any other has marked the target as torn.            *)
(***************************************************************************)
EXTENDS MoreData, SequenceTheorems, TLAPS

IsOf(p, t) == \E i \in DOMAIN PropsOf[t] : p = PropsOf[t][i]

\* What a request has done so far, and what its run says when it is over, with the bundles
\* that are stored and the rows of the targets.
RequestOK(j, stored, rows) ==
    /\ j.at \notin {"idle", "answer", "fail"} => j.run = "running"
    /\ j.at # "idle" => j.gives \in IF j.kind = "decide" THEN Verdicts
                                    ELSE {"more_data_collected"}
    /\ j.at \in {"collect", "bundle", "models"} => j.kind # "decide"
    /\ j.at = "answer" => j.kind = "decide" /\ j.run = "succeeded"
    /\ j.at = "fail" => \/ j.run = "running"
                        \/ j.kind = "decide" /\ j.run = "succeeded"
    /\ j.at \in {"start", "collect", "bundle", "models", "record", "commit"} =>
          ~ j.committed
    /\ j.at = "commit" => j.left = PropsOf[j.target]
    /\ j.at = "props" => /\ j.committed /\ j.left # <<>>
                         /\ \A k \in DOMAIN j.left : IsOf(j.left[k], j.target)
    /\ j.at \in {"models", "record", "commit", "props"} /\ j.kind # "decide" =>
          j.child = ChildOf(j) /\ j.child \in stored
    /\ (j.at = "fail" \/ j.run = "failed") /\ j.kind # "decide" /\ j.committed =>
          j.raised \in {"report", "finish"}
    /\ (j.at \in {"report", "finish"} \/ j.run = "succeeded") /\ j.kind = "decide" =>
          j.committed /\ j.left = <<>>
    /\ /\ j.at \in {"report", "finish"} \/ j.run = "succeeded"
       /\ j.kind \in {"refresh", "collect"} /\ j.raised = "none"
       /\ rows[j.target] # "absent"
       => j.committed
    /\ j.run = "running" /\ j.at = "idle" => Unguarded(j.kind, j.raised)

RequestsOK == \A r \in Requests : RequestOK(job[r], bundles, row)

\* A step of one request that neither writes propositions nor begins to.
QuietStep(r) ==
    \E x \in Job : /\ job' = [job EXCEPT ![r] = x] /\ RequestOK(x, bundles', row')
                  /\ x.at # "props" /\ job[r].at # "props"

\* A request that another has begun to write beside.
NotAlone(j) == [j EXCEPT !.alone = FALSE]

IsWriting(r, t) == job[r].at = "props" /\ job[r].target = t

\* A request that writes the propositions of t alone: those it has still to write are the
\* only ones that may differ from what t shows.
WritesAlone(r, t) ==
    /\ \A o \in Requests : IsWriting(o, t) => o = r
    /\ reviews[t] # <<>> /\ job[r].gives = reviews[t][Len(reviews[t])].status
    /\ \A i \in DOMAIN PropsOf[t] :
          \/ props[PropsOf[t][i]] = job[r].gives
          \/ \E k \in DOMAIN job[r].left : job[r].left[k] = PropsOf[t][i]

WritersOf(t) ==
    \A r \in Requests : IsWriting(r, t) =>
        IF job[r].alone THEN WritesAlone(r, t) ELSE t \in torn

\* A target that nobody writes and nothing has torn.
Follows(t) ==
    t \notin torn /\ (\A r \in Requests : ~ IsWriting(r, t)) /\ reviews[t] # <<>> =>
        \A i \in DOMAIN PropsOf[t] :
            props[PropsOf[t][i]] = reviews[t][Len(reviews[t])].status

TargetsOK == \A t \in Targets : WritersOf(t) /\ Follows(t)

MoreDataInd == TypeOK /\ RequestsOK /\ ResultHasItsChild /\ TargetsOK

\* A step that does not concern a target.
Untouched(t) ==
    /\ reviews'[t] = reviews[t]
    /\ t \in torn' <=> t \in torn
    /\ \A i \in DOMAIN PropsOf[t] : props'[PropsOf[t][i]] = props[PropsOf[t][i]]
    /\ \A r \in Requests : IsWriting(r, t) \/ IsWriting(r, t)' => job'[r] = job[r]


-----------------------------------------------------------------------------
(* What the operators give.                                                *)

\* A target has propositions.
LEMMA PropsFacts ==
  ASSUME NEW t \in Targets
  PROVE  /\ PropsOf[t] \in Seq(Props) /\ PropsOf[t] # <<>>
         /\ Head(PropsOf[t]) \in Props
         /\ \A i \in DOMAIN PropsOf[t] : PropsOf[t][i] \in Props
<1>1. PropsOf[t] \in Seq(STRING) /\ PropsOf[t] # <<>>
  BY MoreDataAssumption
<1>2. \A i \in DOMAIN PropsOf[t] : PropsOf[t][i] \in Props
  BY DEF Props
<1>3. Len(PropsOf[t]) \in Nat /\ DOMAIN PropsOf[t] = 1 .. Len(PropsOf[t])
  BY <1>1
<1>4. PropsOf[t] = [i \in 1 .. Len(PropsOf[t]) |-> PropsOf[t][i]]
  BY <1>1
<1>5. PropsOf[t] \in Seq(Props)
  BY <1>2, <1>3, <1>4
<1> QED BY <1>1, <1>2, <1>5

\* A target is shown with a status.
LEMMA ShownType ==
  ASSUME TypeOK, NEW t \in Targets
  PROVE  Shown(t) \in Status
<1>1. reviews[t] \in Seq(Review) /\ props[Head(PropsOf[t])] \in Status
  BY PropsFacts DEF TypeOK
<1>2. reviews[t] # <<>> => reviews[t][Len(reviews[t])] \in Review
  BY <1>1
<1> QED BY <1>1, <1>2 DEF Shown, Review

\* The record of a request that has not begun.
LEMMA BlankFacts ==
  /\ Blank \in Job /\ Blank.at = "idle" /\ Blank.kind = "decide" /\ Blank.run = "none"
  /\ ~ Blank.committed /\ ~ Blank.alone /\ Blank.raised = "none"
<1>1. (CHOOSE t \in Targets : TRUE) \in Targets
  BY MoreDataAssumption
<1>2. 0 \in 0 .. MaxBatches
  BY MoreDataAssumption
<1>3. <<>> \in Seq(Props)
  OBVIOUS
<1>4. Blank \in Job
  BY <1>1, <1>2, <1>3 DEF Blank, Job, NoChild, Status, Kinds, Places
<1> QED BY <1>4 DEF Blank

\* The fields of a record.
LEMMA JobFacts ==
  ASSUME NEW j \in Job
  PROVE  /\ j.at \in Places /\ j.event \in {"none", "completed", "skipped"}
         /\ j.run \in {"none", "running", "succeeded", "failed", "lost"}
         /\ j.raised \in Places \cup {"none"} /\ j.raised # "idle"
         /\ j.kind \in Kinds /\ j.target \in Targets
         /\ j.left \in Seq(Props) /\ j.gives \in Status /\ j.committed \in BOOLEAN
BY DEF Job, Places

\* Where a request goes when its result has not been recorded.
LEMMA NotRecordedFacts ==
  ASSUME NEW j \in Job
  PROVE  LET at == IF j.kind = "decide" THEN "fail" ELSE "report"
         IN at \in Places /\ NotRecorded(j) = [j EXCEPT !.at = at]
BY DEF NotRecorded, Places

\* Where a request that raises goes.
AfterRaise(j) == CASE Unguarded(j.kind, j.at) -> "idle"
                   [] j.at \in {"record", "commit", "props"} ->
                        (IF j.kind = "decide" THEN "fail" ELSE "report")
                   [] OTHER -> "fail"

LEMMA RaisedFacts ==
  ASSUME NEW j \in Job, j.at # "idle"
  PROVE  LET x == Raised(j)
         IN /\ x \in Job /\ x.at = AfterRaise(j) /\ x.raised = j.at
            /\ x.kind = j.kind /\ x.target = j.target /\ x.gives = j.gives
            /\ x.run = j.run /\ x.committed = j.committed /\ x.left = j.left
            /\ x.alone = j.alone
<1> DEFINE at == AfterRaise(j)
           n == [j EXCEPT !.at = at]
           x == [n EXCEPT !.raised = j.at]
<1>1. at \in Places
  BY DEF AfterRaise, Places
<1>2. Unguarded(j.kind, j.at) => j.at \notin {"record", "commit", "props"}
  BY DEF Unguarded
<1>3. Raised(j) = x
  <2>1. CASE Unguarded(j.kind, j.at)
    BY <1>2, <2>1 DEF Raised, AfterRaise
  <2>2. CASE j.at \in {"record", "commit", "props"}
    BY <1>2, <2>2 DEF Raised, AfterRaise, NotRecorded
  <2>3. CASE ~ Unguarded(j.kind, j.at) /\ j.at \notin {"record", "commit", "props"}
    BY <2>3 DEF Raised, AfterRaise
  <2> QED BY <2>1, <2>2, <2>3
<1>4. j.at \in Places \ {"idle"}
  BY JobFacts
<1> HIDE DEF at
<1>5. /\ n \in Job /\ n.at = at /\ n.kind = j.kind /\ n.target = j.target
      /\ n.gives = j.gives /\ n.run = j.run /\ n.committed = j.committed
      /\ n.left = j.left /\ n.alone = j.alone
  BY <1>1 DEF Job
<1> HIDE DEF n
<1>6. /\ x \in Job /\ x.at = at /\ x.raised = j.at /\ x.kind = n.kind
      /\ x.target = n.target /\ x.gives = n.gives /\ x.run = n.run
      /\ x.committed = n.committed /\ x.left = n.left /\ x.alone = n.alone
  BY <1>4, <1>5 DEF Job
<1> QED BY <1>3, <1>5, <1>6 DEF at

-----------------------------------------------------------------------------
(* The steps of a request, one record each.                                *)

\* A request begins.
LEMMA DecideMoves ==
  ASSUME TypeOK, NEW r \in Requests, Decide(r)
  PROVE  QuietStep(r)
<1>1. PICK t \in Targets, v \in Verdicts :
        job' = [job EXCEPT ![r] = [Blank EXCEPT !.at = "start", !.target = t, !.gives = v,
                                                !.run = "running"]]
  BY DEF Decide, Goes
<1> DEFINE x == [Blank EXCEPT !.at = "start", !.target = t, !.gives = v, !.run = "running"]
<1>2. /\ x \in Job /\ x.at = "start" /\ x.kind = "decide" /\ x.gives = v
      /\ x.run = "running" /\ ~ x.committed
  BY BlankFacts DEF Job, Status, Places
<1>3. job' = [job EXCEPT ![r] = x] /\ job[r].at # "props"
  BY <1>1 DEF Decide, Idle
<1> HIDE DEF x
<1>4. RequestOK(x, bundles', row')
  BY <1>2 DEF RequestOK
<1> QED BY <1>2, <1>3, <1>4 DEF QuietStep

LEMMA BeginMoves ==
  ASSUME TypeOK, NEW r \in Requests, NEW kind \in {"refresh", "collect", "legacy"},
         NEW t \in Targets, Begin(r, kind, t)
  PROVE  QuietStep(r)
<1> DEFINE seen == IF kind = "legacy" THEN "pending" ELSE Shown(t)
           x == [Blank EXCEPT !.kind = kind, !.target = t, !.run = "running", !.at = "start",
                              !.gives = "more_data_collected", !.data = batches,
                              !.seen = seen]
<1>1. job' = [job EXCEPT ![r] = x] /\ job[r].at # "props"
  BY DEF Begin, Goes, Preview, Idle
<1>2. seen \in Status /\ "more_data_collected" \in Status
  BY ShownType DEF Status
<1>3. batches \in 0 .. MaxBatches
  BY DEF TypeOK
<1> HIDE DEF seen
<1>4. /\ x \in Job /\ x.at = "start" /\ x.kind = kind /\ x.gives = "more_data_collected"
      /\ x.run = "running" /\ ~ x.committed
  BY BlankFacts, <1>2, <1>3 DEF Job, Kinds, Places
<1> HIDE DEF x
<1>5. RequestOK(x, bundles', row')
  BY <1>4 DEF RequestOK
<1> QED BY <1>1, <1>4, <1>5 DEF QuietStep

\* A collection ends, with new evidence or none.
LEMMA CollectMoves ==
  ASSUME TypeOK, RequestsOK, NEW r \in Requests, Collect(r)
  PROVE  /\ batches' \in 0 .. MaxBatches
         /\ QuietStep(r)
<1>1. PICK n \in {batches + b : b \in BatchesCollected} :
        /\ n <= MaxBatches /\ batches' = n
        /\ job' = [job EXCEPT ![r] = [job[r] EXCEPT !.at = "bundle", !.data = n]]
  BY DEF Collect, Goes
<1>2. n \in 0 .. MaxBatches
  BY <1>1, MoreDataAssumption DEF BatchesCollected, TypeOK
<1> DEFINE j == job[r]
           x == [j EXCEPT !.at = "bundle", !.data = n]
<1>3. j \in Job /\ j.at = "collect" /\ RequestOK(j, bundles, row)
  BY DEF TypeOK, RequestsOK, Collect
<1>4. job' = [job EXCEPT ![r] = x] /\ job[r].at # "props"
  BY <1>1, <1>3
<1>5. /\ x \in Job /\ x.at = "bundle" /\ x.kind = j.kind /\ x.gives = j.gives
      /\ x.run = j.run /\ x.committed = j.committed
  <2> HIDE DEF j
  <2> QED BY <1>2, <1>3 DEF Job, Places
<1> HIDE DEF x, j
<1>6. RequestOK(x, bundles', row')
  BY <1>3, <1>5 DEF RequestOK
<1> QED BY <1>1, <1>2, <1>4, <1>5, <1>6 DEF QuietStep

\* The child of a request is stored.
LEMMA StoreChildMoves ==
  ASSUME TypeOK, RequestsOK, NEW r \in Requests, StoreChild(r)
  PROVE  /\ bundles' = bundles \cup {ChildOf(job[r])} /\ newest' = ChildOf(job[r])
         /\ ChildOf(job[r]) \in Children
         /\ QuietStep(r)
<1> DEFINE j == job[r]
           c == ChildOf(j)
<1>1. job' = [job EXCEPT ![r] = [j EXCEPT !.at = "models", !.child = c]]
  BY DEF StoreChild, Goes
<1>2. j \in Job /\ j.at = "bundle" /\ RequestOK(j, bundles, row)
  BY DEF TypeOK, RequestsOK, StoreChild
<1>3. bundles' = bundles \cup {c} /\ newest' = c
  BY DEF StoreChild
<1> DEFINE x == [j EXCEPT !.at = "models", !.child = c]
<1>4. job' = [job EXCEPT ![r] = x] /\ job[r].at # "props"
  BY <1>1, <1>2
<1>5. /\ c \in Children
      /\ c = [of |-> j.target, via |-> j.kind, seen |-> j.seen, data |-> j.data]
  <2> HIDE DEF j
  <2> QED BY <1>2 DEF Job, Children, ChildOf
<1>6. /\ x \in Job /\ x.at = "models" /\ x.kind = j.kind /\ x.gives = j.gives /\ x.child = c
      /\ x.run = j.run /\ x.committed = j.committed
      /\ x.target = j.target /\ x.seen = j.seen /\ x.data = j.data
  <2> HIDE DEF j, c
  <2> QED BY <1>2, <1>5 DEF Job, Places
<1> HIDE DEF x, c, j
<1>7. ChildOf(x) = c
  BY <1>5, <1>6 DEF ChildOf
<1>8. RequestOK(x, bundles', row')
  BY <1>2, <1>3, <1>6, <1>7 DEF RequestOK
<1> QED BY <1>3, <1>4, <1>5, <1>6, <1>8 DEF c, j, QuietStep

\* The models have answered.
LEMMA RunModelsMoves ==
  ASSUME TypeOK, RequestsOK, NEW r \in Requests, RunModels(r)
  PROVE  QuietStep(r)
<1> DEFINE j == job[r]
           at == IF j.kind = "legacy" THEN "report" ELSE "record"
           x == [j EXCEPT !.at = at]
<1>1. job' = [job EXCEPT ![r] = x]
  BY DEF RunModels, Goes
<1>2. j \in Job /\ j.at = "models" /\ RequestOK(j, bundles, row)
  BY DEF TypeOK, RequestsOK, RunModels
<1>3. at \in Places /\ at # "props"
  BY DEF Places
<1>4. at = IF j.kind = "legacy" THEN "report" ELSE "record"
  OBVIOUS
<1> HIDE DEF at
<1>5. /\ x \in Job /\ x.at = at /\ x.kind = j.kind /\ x.gives = j.gives
      /\ x.child = j.child /\ x.run = j.run /\ x.committed = j.committed
      /\ x.target = j.target /\ x.seen = j.seen /\ x.data = j.data
  <2> HIDE DEF j
  <2> QED BY <1>2, <1>3 DEF Job
<1>6. bundles' = bundles
  BY DEF RunModels
<1>7. job[r].at # "props"
  BY <1>2
<1> HIDE DEF x, j
<1>8. RequestOK(x, bundles', row')
  BY <1>2, <1>4, <1>5, <1>6 DEF RequestOK, ChildOf
<1> QED BY <1>1, <1>3, <1>5, <1>7, <1>8 DEF QuietStep

\* The target is looked up again.
LEMMA LookAgainMoves ==
  ASSUME TypeOK, RequestsOK, NEW r \in Requests, LookAgain(r)
  PROVE  QuietStep(r)
<1> DEFINE j == job[r]
<1>1. /\ j \in Job /\ j.at = "record" /\ RequestOK(j, bundles, row)
      /\ bundles' = bundles /\ row' = row
  BY DEF TypeOK, RequestsOK, LookAgain
<1>2. job' = [job EXCEPT ![r] = IF Found(j.target)
                                THEN [j EXCEPT !.at = "commit", !.left = PropsOf[j.target]]
                                ELSE NotRecorded(j)]
  BY DEF LookAgain, Goes
<1>3. job[r].at # "props"
  BY <1>1
<1> HIDE DEF j
<1>4. CASE Found(j.target)
  <2> DEFINE x == [j EXCEPT !.at = "commit", !.left = PropsOf[j.target]]
  <2>1. job' = [job EXCEPT ![r] = x]
    BY <1>2, <1>4
  <2>2. j.target \in Targets
    BY <1>1 DEF Job
  <2>3. PropsOf[j.target] \in Seq(Props)
    BY <2>2, PropsFacts
  <2>4. /\ x \in Job /\ x.at = "commit" /\ x.kind = j.kind /\ x.gives = j.gives
        /\ x.child = j.child /\ x.run = j.run /\ x.committed = j.committed
        /\ x.target = j.target /\ x.seen = j.seen /\ x.data = j.data
        /\ x.left = PropsOf[x.target]
    BY <1>1, <2>3 DEF Job, Places
  <2> HIDE DEF x
  <2>5. RequestOK(x, bundles', row')
    BY <1>1, <2>4 DEF RequestOK, ChildOf
  <2> QED BY <1>3, <2>1, <2>4, <2>5 DEF QuietStep
<1>5. CASE ~ Found(j.target)
  <2> DEFINE at == IF j.kind = "decide" THEN "fail" ELSE "report"
             x == [j EXCEPT !.at = at]
  <2>1. NotRecorded(j) = x /\ at \in Places
    BY <1>1, NotRecordedFacts
  <2>2. job' = [job EXCEPT ![r] = x]
    BY <1>2, <1>5, <2>1
  <2>3. /\ at = (IF j.kind = "decide" THEN "fail" ELSE "report") /\ at # "props"
    OBVIOUS
  <2> HIDE DEF at
  <2>4. /\ x \in Job /\ x.at = at /\ x.kind = j.kind /\ x.target = j.target
        /\ x.committed = j.committed /\ x.gives = j.gives /\ x.run = j.run
    BY <1>1, <2>1 DEF Job
  <2> HIDE DEF x
  <2>5. row'[x.target] = "absent"
    BY <1>1, <1>5, <2>4 DEF Found
  <2>6. RequestOK(x, bundles', row')
    BY <1>1, <2>3, <2>4, <2>5 DEF RequestOK
  <2> QED BY <1>3, <2>2, <2>3, <2>4, <2>6 DEF QuietStep
<1> QED BY <1>4, <1>5

\* The writes about a run: its first and last event, its end, and what is read of it.
LEMMA RunMoves ==
  ASSUME TypeOK, RequestsOK, NEW r \in Requests,
         Started(r) \/ Report(r) \/ Finish(r) \/ Answer(r) \/ Fail(r)
  PROVE  QuietStep(r)
<1> DEFINE j == job[r]
<1>1. /\ j \in Job /\ RequestOK(j, bundles, row) /\ bundles' = bundles /\ row' = row
      /\ j.at # "props"
  BY DEF TypeOK, RequestsOK, Started, Report, Finish, Answer, Fail
<1>2. j.kind \in Kinds
  BY <1>1, JobFacts
<1>3. SUFFICES ASSUME NEW x \in Job, job' = [job EXCEPT ![r] = x], x.at # "props",
                      RequestOK(x, bundles, row)
               PROVE  QuietStep(r)
  <2>1. ASSUME Started(r)
        PROVE  \E x \in Job : /\ job' = [job EXCEPT ![r] = x] /\ x.at # "props"
                              /\ RequestOK(x, bundles, row)
    <3> DEFINE at == CASE j.kind = "decide" -> "record" [] j.kind = "collect" -> "collect"
                       [] OTHER -> "bundle"
               x == [j EXCEPT !.at = at]
    <3>1. job' = [job EXCEPT ![r] = x] /\ j.at = "start"
      BY <2>1 DEF Started, Goes
    <3>2. /\ at \in Places /\ at \in {"record", "collect", "bundle"}
          /\ at \in {"collect", "bundle"} => j.kind # "decide"
          /\ at = "record" => j.kind = "decide"
      BY <1>2 DEF Places, Kinds
    <3> HIDE DEF at, j
    <3>3. /\ x \in Job /\ x.at = at /\ x.kind = j.kind /\ x.gives = j.gives
          /\ x.run = j.run /\ x.committed = j.committed
      BY <1>1, <3>2 DEF Job
    <3> HIDE DEF x
    <3>4. RequestOK(x, bundles, row)
      BY <1>1, <3>1, <3>2, <3>3 DEF RequestOK
    <3> QED BY <3>1, <3>2, <3>3, <3>4
  <2>2. ASSUME Report(r)
        PROVE  \E x \in Job : /\ job' = [job EXCEPT ![r] = x] /\ x.at # "props"
                              /\ RequestOK(x, bundles, row)
    <3> DEFINE said == [decide |-> "none", legacy |-> "skipped",
                        refresh |-> "completed", collect |-> "completed"]
               event == said[j.kind]
               x == [j EXCEPT !.at = "finish", !.event = event]
    <3>1. job' = [job EXCEPT ![r] = x] /\ j.at = "report"
      BY <2>2 DEF Report, Goes
    <3>2. event \in {"none", "completed", "skipped"}
      BY <1>2 DEF Kinds
    <3>. "finish" \in Places
      BY DEF Places
    <3> HIDE DEF event, j
    <3>3. /\ x \in Job /\ x.at = "finish" /\ x.kind = j.kind /\ x.gives = j.gives
          /\ x.run = j.run /\ x.committed = j.committed /\ x.left = j.left
          /\ x.raised = j.raised /\ x.target = j.target
      BY <1>1, <3>2 DEF Job
    <3> HIDE DEF x
    <3>4. RequestOK(x, bundles, row)
      BY <1>1, <3>1, <3>3 DEF RequestOK
    <3> QED BY <3>1, <3>3, <3>4
  <2>3. ASSUME Finish(r)
        PROVE  \E x \in Job : /\ job' = [job EXCEPT ![r] = x] /\ x.at # "props"
                              /\ RequestOK(x, bundles, row)
    <3> DEFINE at == IF j.kind = "decide" THEN "answer" ELSE "idle"
               x == [j EXCEPT !.run = "succeeded", !.at = at]
    <3>1. job' = [job EXCEPT ![r] = x] /\ j.at = "finish"
      BY <2>3 DEF Finish, Goes
    <3>2. /\ at \in Places /\ at \in {"answer", "idle"}
          /\ at = "answer" => j.kind = "decide"
      BY DEF Places
    <3> HIDE DEF at, j
    <3>3. /\ x \in Job /\ x.at = at /\ x.kind = j.kind /\ x.gives = j.gives
          /\ x.run = "succeeded" /\ x.committed = j.committed /\ x.left = j.left
          /\ x.raised = j.raised /\ x.target = j.target
      BY <1>1, <3>2 DEF Job
    <3> HIDE DEF x
    <3>4. RequestOK(x, bundles, row)
      BY <1>1, <3>1, <3>2, <3>3 DEF RequestOK
    <3> QED BY <3>1, <3>2, <3>3, <3>4
  <2>4. ASSUME Answer(r)
        PROVE  \E x \in Job : /\ job' = [job EXCEPT ![r] = x] /\ x.at # "props"
                              /\ RequestOK(x, bundles, row)
    <3> DEFINE x == [j EXCEPT !.at = "idle"]
    <3>1. job' = [job EXCEPT ![r] = x] /\ j.at = "answer"
      BY <2>4 DEF Answer, Goes
    <3>. "idle" \in Places
      BY DEF Places
    <3> HIDE DEF j
    <3>2. /\ x \in Job /\ x.at = "idle" /\ x.kind = j.kind /\ x.gives = j.gives
          /\ x.run = j.run /\ x.committed = j.committed /\ x.left = j.left
          /\ x.raised = j.raised /\ x.target = j.target
      BY <1>1 DEF Job
    <3> HIDE DEF x
    <3>3. RequestOK(x, bundles, row)
      BY <1>1, <3>1, <3>2 DEF RequestOK
    <3> QED BY <3>1, <3>2, <3>3
  <2>5. ASSUME Fail(r)
        PROVE  \E x \in Job : /\ job' = [job EXCEPT ![r] = x] /\ x.at # "props"
                              /\ RequestOK(x, bundles, row)
    <3> DEFINE x == [j EXCEPT !.at = "idle", !.run = "failed"]
    <3>1. job' = [job EXCEPT ![r] = x] /\ j.at = "fail"
      BY <2>5 DEF Fail, Goes
    <3>. "idle" \in Places
      BY DEF Places
    <3> HIDE DEF j
    <3>2. /\ x \in Job /\ x.at = "idle" /\ x.kind = j.kind /\ x.gives = j.gives
          /\ x.run = "failed" /\ x.committed = j.committed /\ x.left = j.left
          /\ x.raised = j.raised /\ x.target = j.target
      BY <1>1 DEF Job
    <3> HIDE DEF x
    <3>3. RequestOK(x, bundles, row)
      BY <1>1, <3>1, <3>2 DEF RequestOK
    <3> QED BY <3>1, <3>2, <3>3
  <2> HIDE DEF j
  <2> QED BY <1>3, <2>1, <2>2, <2>3, <2>4, <2>5
<1> QED BY <1>1, <1>3 DEF QuietStep

-----------------------------------------------------------------------------
(* What a step leaves alone.                                               *)

\* A request that is no longer alone is otherwise as it was.
LEMMA NotAloneFacts ==
  ASSUME NEW j \in Job
  PROVE  LET x == NotAlone(j)
         IN /\ x \in Job /\ ~ x.alone
            /\ x.at = j.at /\ x.kind = j.kind /\ x.gives = j.gives /\ x.child = j.child
            /\ x.run = j.run /\ x.committed = j.committed /\ x.left = j.left
            /\ x.target = j.target /\ x.seen = j.seen /\ x.data = j.data
            /\ x.raised = j.raised
BY DEF NotAlone, Job

\* Bundles are never dropped and rows never added: what a request has done stays true.
LEMMA RequestStays ==
  ASSUME NEW j \in Job, NEW stored, NEW rows, NEW more, NEW rows2,
         RequestOK(j, stored, rows), stored \subseteq more,
         \A t \in Targets : rows[t] = "absent" => rows2[t] = "absent"
  PROVE  RequestOK(j, more, rows2) /\ RequestOK(NotAlone(j), more, rows2)
<1>1. j.target \in Targets
  BY DEF Job
<1>2. RequestOK(j, more, rows2)
  BY <1>1 DEF RequestOK
<1> DEFINE x == NotAlone(j)
<1>3. /\ x.at = j.at /\ x.kind = j.kind /\ x.gives = j.gives /\ x.child = j.child
      /\ x.run = j.run /\ x.committed = j.committed /\ x.left = j.left
      /\ x.target = j.target /\ x.seen = j.seen /\ x.data = j.data /\ x.raised = j.raised
  BY NotAloneFacts
<1> HIDE DEF x
<1>4. ChildOf(x) = ChildOf(j)
  BY <1>3 DEF ChildOf
<1>5. RequestOK(x, more, rows2)
  BY <1>2, <1>3, <1>4 DEF RequestOK
<1> QED BY <1>2, <1>5 DEF x

\* A target that a step does not concern is as it was.
LEMMA UntouchedStays ==
  ASSUME NEW t \in Targets, WritersOf(t), Follows(t), Untouched(t)
  PROVE  WritersOf(t)' /\ Follows(t)'
<1>1. \A r \in Requests : IsWriting(r, t)' <=> IsWriting(r, t)
  BY DEF Untouched, IsWriting
<1>2. ASSUME NEW r \in Requests, IsWriting(r, t)'
      PROVE  IF job'[r].alone THEN WritesAlone(r, t)' ELSE t \in torn'
  <2>1. IsWriting(r, t) /\ job'[r] = job[r]
    BY <1>1, <1>2 DEF Untouched
  <2>2. CASE job[r].alone
    <3>1. WritesAlone(r, t)
      BY <2>1, <2>2 DEF WritersOf
    <3>2. WritesAlone(r, t)'
      BY <1>1, <2>1, <3>1 DEF WritesAlone, Untouched
    <3> QED BY <2>1, <2>2, <3>2
  <2>3. CASE ~ job[r].alone
    BY <2>1, <2>3 DEF WritersOf, Untouched
  <2> QED BY <2>2, <2>3
<1>3. WritersOf(t)'
  BY <1>2 DEF WritersOf
<1>4. Follows(t)'
  BY <1>1 DEF Follows, Untouched
<1> QED BY <1>3, <1>4

\* A proposition is of one target.
LEMMA OneTarget ==
  ASSUME NEW t \in Targets, NEW u \in Targets, u # t, NEW p, IsOf(p, t)
  PROVE  \A i \in DOMAIN PropsOf[u] : PropsOf[u][i] # p
BY MoreDataAssumption DEF IsOf

\* A quiet step keeps what requests have done, and the targets.
LEMMA QuietKeeps ==
  ASSUME MoreDataInd, NEW r \in Requests, QuietStep(r), bundles \subseteq bundles',
         row' = row, reviews' = reviews, props' = props, torn' = torn
  PROVE  /\ job' \in [Requests -> Job]
         /\ RequestsOK' /\ ResultHasItsChild' /\ TargetsOK'
<1>1. PICK x \in Job : /\ job' = [job EXCEPT ![r] = x] /\ RequestOK(x, bundles', row')
                       /\ x.at # "props" /\ job[r].at # "props"
  BY DEF QuietStep
<1>2. job \in [Requests -> Job]
  BY DEF MoreDataInd, TypeOK
<1>3. job' \in [Requests -> Job]
  BY <1>1, <1>2
<1>4. job'[r] = x /\ \A o \in Requests : o # r => job'[o] = job[o]
  BY <1>1, <1>2
<1>5. RequestsOK'
  <2>1. ASSUME NEW o \in Requests, o # r  PROVE RequestOK(job[o], bundles', row')
    BY <1>2, RequestStays DEF MoreDataInd, RequestsOK
  <2>2. ASSUME NEW o \in Requests  PROVE RequestOK(job'[o], bundles', row')
    BY <1>1, <1>4, <2>1
  <2> QED BY <2>2 DEF RequestsOK
<1>6. ResultHasItsChild'
  BY DEF MoreDataInd, ResultHasItsChild
<1>7. ASSUME NEW t \in Targets  PROVE WritersOf(t)' /\ Follows(t)'
  <2>1. Untouched(t)
    BY <1>1, <1>4 DEF Untouched, IsWriting
  <2> QED BY <2>1, UntouchedStays DEF MoreDataInd, TargetsOK
<1> QED BY <1>3, <1>5, <1>6, <1>7 DEF TargetsOK

-----------------------------------------------------------------------------
(* The steps that write.                                                   *)

\* The review of a target is stored, with its row: another request that writes the target
\* is no longer alone, and this one is alone when there is none.
LEMMA CommitKeeps ==
  ASSUME MoreDataInd, NEW r \in Requests, Commit(r)
  PROVE  MoreDataInd'
<1> DEFINE j == job[r]
           t == j.target
           n == [status |-> j.gives, child |-> j.child]
           alone == Writing(t) = {}
           x == [j EXCEPT !.at = "props", !.committed = TRUE, !.alone = alone]
<1>1. /\ j \in Job /\ j.at = "commit" /\ RequestOK(j, bundles, row)
      /\ job \in [Requests -> Job] /\ reviews \in [Targets -> Seq(Review)]
      /\ row \in [Targets -> Status \cup {"absent"}]
  BY DEF MoreDataInd, TypeOK, RequestsOK, Commit
<1>2. /\ reviews' = [reviews EXCEPT ![t] = Append(@, n)]
      /\ row' = [row EXCEPT ![t] = IF @ = "absent" THEN @ ELSE j.gives]
      /\ job' = [o \in Requests |->
                    IF o = r THEN x
                    ELSE IF o \in Writing(t) THEN NotAlone(job[o])
                    ELSE job[o]]
      /\ torn' = IF alone THEN torn ELSE torn \cup {t}
      /\ UNCHANGED <<bundles, newest, batches, props, requests, faults>>
  BY DEF Commit, NotAlone
<1>3. alone \in BOOLEAN
  OBVIOUS
<1>4. alone <=> \A o \in Requests : ~ IsWriting(o, t)
  BY DEF Writing, IsWriting
<1>5. \A o \in Requests : o \in Writing(t) <=> IsWriting(o, t)
  BY DEF Writing, IsWriting
<1> HIDE DEF alone
<1>6. /\ t \in Targets /\ j.gives \in Status /\ n \in Review /\ j.left = PropsOf[t]
      /\ ~ j.committed /\ j.run = "running"
  BY <1>1 DEF Job, Review, RequestOK
<1>7. /\ x \in Job /\ x.at = "props" /\ x.kind = j.kind /\ x.gives = j.gives
      /\ x.child = j.child /\ x.run = j.run /\ x.committed /\ x.alone = alone
      /\ x.target = t /\ x.seen = j.seen /\ x.data = j.data /\ x.left = PropsOf[t]
  <2> HIDE DEF j
  <2> QED BY <1>1, <1>3, <1>6 DEF Job, Places
<1>8. ~ IsWriting(r, t)
  BY <1>1 DEF IsWriting
<1>9. \A o \in Requests :
        /\ NotAlone(job[o]) \in Job /\ NotAlone(job[o]).at = job[o].at
        /\ NotAlone(job[o]).target = job[o].target /\ ~ NotAlone(job[o]).alone
  BY <1>1, NotAloneFacts
<1> HIDE DEF j, t, n, x
<1>10. /\ job'[r] = x
       /\ \A o \in Requests : o # r =>
             job'[o] = IF IsWriting(o, t) THEN NotAlone(job[o]) ELSE job[o]
  BY <1>2, <1>5
<1>11. reviews' \in [Targets -> Seq(Review)] /\ row' \in [Targets -> Status \cup {"absent"}]
  BY <1>1, <1>2, <1>6
<1>12. job' \in [Requests -> Job]
  BY <1>1, <1>2, <1>7, <1>9
<1>13. torn' \subseteq Targets
  BY <1>2, <1>6 DEF MoreDataInd, TypeOK
<1>14. TypeOK'
  BY <1>2, <1>11, <1>12, <1>13 DEF MoreDataInd, TypeOK
<1>15. \A u \in Targets : row[u] = "absent" => row'[u] = "absent"
  BY <1>1, <1>2
<1>16. RequestsOK'
  <2>1. RequestOK(x, bundles', row')
    <3>1. \A k \in DOMAIN x.left : IsOf(x.left[k], t)
      BY <1>7 DEF IsOf
    <3>2. ChildOf(x) = ChildOf(j)
      BY <1>7 DEF ChildOf, t
    <3>3. x.left # <<>>
      BY <1>6, <1>7, PropsFacts
    <3> QED BY <1>1, <1>2, <1>6, <1>7, <3>1, <3>2, <3>3 DEF RequestOK
  <2>2. ASSUME NEW o \in Requests, o # r  PROVE RequestOK(job'[o], bundles', row')
    <3>1. job[o] \in Job /\ RequestOK(job[o], bundles, row) /\ bundles \subseteq bundles'
      BY <1>1, <1>2 DEF MoreDataInd, RequestsOK
    <3>2. RequestOK(job[o], bundles', row') /\ RequestOK(NotAlone(job[o]), bundles', row')
      BY <1>15, <3>1, RequestStays
    <3> QED BY <1>10, <2>2, <3>2
  <2> QED BY <1>10, <2>1, <2>2 DEF RequestsOK
<1>17. ResultHasItsChild'
  <2> DEFINE c == n.child
  <2>1. n.status = "more_data_collected" => c \in bundles /\ c # Parent /\ c.of = t
    <3>1. n.status = j.gives /\ c = j.child
      BY DEF n
    <3>2. j.gives = "more_data_collected" => j.kind # "decide"
      BY <1>1, MoreDataAssumption DEF RequestOK
    <3>3. j.kind # "decide" => j.child = ChildOf(j) /\ j.child \in bundles
      BY <1>1 DEF RequestOK
    <3>4. ChildOf(j) \in Children /\ ChildOf(j).of = t
      BY <1>1 DEF ChildOf, Children, Job, t
    <3> HIDE DEF c
    <3> QED BY <3>1, <3>2, <3>3, <3>4, ParentAssumption
  <2>2. ASSUME NEW u \in Targets, NEW i \in DOMAIN reviews'[u],
               reviews'[u][i].status = "more_data_collected"
        PROVE  /\ reviews'[u][i].child \in bundles' /\ reviews'[u][i].child # Parent
               /\ reviews'[u][i].child.of = u
    <3>1. CASE u # t
      <4>1. reviews'[u] = reviews[u] /\ bundles' = bundles
        BY <1>1, <1>2, <3>1
      <4> QED BY <2>2, <4>1 DEF MoreDataInd, ResultHasItsChild
    <3>2. CASE u = t
      <4>1. reviews'[u] = Append(reviews[u], n) /\ reviews[u] \in Seq(Review)
        BY <1>1, <1>2, <3>2
      <4>2. \/ i \in DOMAIN reviews[u] /\ reviews'[u][i] = reviews[u][i]
            \/ reviews'[u][i] = n
        BY <4>1, <1>6, AppendProperties
      <4>3. CASE i \in DOMAIN reviews[u] /\ reviews'[u][i] = reviews[u][i]
        BY <1>2, <2>2, <4>3 DEF MoreDataInd, ResultHasItsChild
      <4>4. CASE reviews'[u][i] = n
        BY <1>2, <2>1, <2>2, <3>2, <4>4
      <4> QED BY <4>2, <4>3, <4>4
    <3> QED BY <3>1, <3>2
  <2> QED BY <2>2 DEF ResultHasItsChild
<1>18. ASSUME NEW u \in Targets  PROVE WritersOf(u)' /\ Follows(u)'
  <2>1. CASE u # t
    <3>1. reviews'[u] = reviews[u] /\ (u \in torn' <=> u \in torn) /\ props' = props
      BY <1>1, <1>2, <2>1
    <3>2. ASSUME NEW o \in Requests, IsWriting(o, u) \/ IsWriting(o, u)'
          PROVE  job'[o] = job[o]
      <4>1. o # r
        BY <1>1, <1>7, <1>10, <2>1, <3>2 DEF IsWriting, j
      <4>2. ~ IsWriting(o, t)
        BY <1>9, <1>10, <2>1, <3>2, <4>1 DEF IsWriting
      <4> QED BY <1>10, <4>1, <4>2
    <3>3. Untouched(u)
      BY <3>1, <3>2 DEF Untouched
    <3> QED BY <3>3, UntouchedStays DEF MoreDataInd, TargetsOK
  <2>2. CASE u = t
    <3>0. job'[r] = x /\ x.at = "props" /\ x.target = u /\ x.alone = alone
      BY <1>7, <1>10, <2>2
    <3>1. IsWriting(r, u)'
      BY <3>0 DEF IsWriting
    <3>2. Follows(u)'
      BY <3>1 DEF Follows
    <3>3. ASSUME NEW o \in Requests, o # r, IsWriting(o, u)'
          PROVE  IsWriting(o, u) /\ ~ job'[o].alone /\ u \in torn'
      <4>1. job'[o] = IF IsWriting(o, u) THEN NotAlone(job[o]) ELSE job[o]
        BY <1>10, <2>2, <3>3
      <4>2. job'[o].at = "props" /\ job'[o].target = u
        BY <3>3 DEF IsWriting
      <4>3. IsWriting(o, u)
        BY <4>1, <4>2 DEF IsWriting
      <4>4. ~ alone
        BY <1>4, <2>2, <4>3
      <4> QED BY <1>2, <1>9, <2>2, <4>1, <4>3, <4>4
    <3>4. alone => WritesAlone(r, u)'
      <4> SUFFICES ASSUME alone PROVE WritesAlone(r, u)'
        OBVIOUS
      <4>1. \A o \in Requests : IsWriting(o, u)' => o = r
        BY <1>4, <2>2, <3>3
      <4>2. reviews'[u] = Append(reviews[u], n) /\ reviews[u] \in Seq(Review)
        BY <1>1, <1>2, <1>6, <2>2
      <4>3. reviews'[u] # <<>> /\ reviews'[u][Len(reviews'[u])] = n
        BY <1>6, <4>2, AppendProperties
      <4>4. job'[r].gives = n.status /\ job'[r].left = PropsOf[u]
        BY <1>7, <1>10, <2>2 DEF n
      <4> QED BY <4>1, <4>3, <4>4 DEF WritesAlone
    <3>5. ~ alone => u \in torn'
      BY <1>2, <2>2
    <3>6. WritersOf(u)'
      <4>1. IF job'[r].alone THEN WritesAlone(r, u)' ELSE u \in torn'
        BY <3>0, <3>4, <3>5
      <4> QED BY <3>3, <4>1 DEF WritersOf
    <3> QED BY <3>2, <3>6
  <2> QED BY <2>1, <2>2
<1> QED BY <1>14, <1>16, <1>17, <1>18 DEF MoreDataInd, TargetsOK

\* A proposition is decided alone: its target is torn, and who writes it is not alone.
LEMMA DecidePropositionKeeps ==
  ASSUME MoreDataInd, NEW r \in Requests, DecideProposition(r)
  PROVE  MoreDataInd'
<1>1. PICK t \in Targets, v \in Verdicts : \E i \in DOMAIN PropsOf[t] :
        /\ props' = [props EXCEPT ![PropsOf[t][i]] = v]
        /\ torn' = torn \cup {t}
        /\ job' = [o \in Requests |->
              IF o = r THEN Blank
              ELSE IF o \in Writing(t) THEN NotAlone(job[o])
              ELSE job[o]]
  BY DEF DecideProposition, NotAlone
<1>2. PICK i \in DOMAIN PropsOf[t] :
        /\ props' = [props EXCEPT ![PropsOf[t][i]] = v]
        /\ torn' = torn \cup {t}
        /\ job' = [o \in Requests |->
              IF o = r THEN Blank
              ELSE IF o \in Writing(t) THEN NotAlone(job[o])
              ELSE job[o]]
  BY <1>1
<1>3. /\ UNCHANGED <<bundles, newest, batches, reviews, row, faults>>
      /\ job[r].at = "idle" /\ requests < MaxRequests /\ requests' = requests + 1
  BY DEF DecideProposition, Idle
<1>4. /\ job \in [Requests -> Job] /\ props \in [Props -> Status]
      /\ requests \in 0 .. MaxRequests /\ MaxRequests \in Nat
  BY MoreDataAssumption DEF MoreDataInd, TypeOK
<1>5. \A o \in Requests :
        /\ NotAlone(job[o]) \in Job /\ NotAlone(job[o]).at = job[o].at
        /\ NotAlone(job[o]).target = job[o].target /\ ~ NotAlone(job[o]).alone
  BY <1>4, NotAloneFacts
<1>6. \A o \in Requests : o \in Writing(t) <=> IsWriting(o, t)
  BY DEF Writing, IsWriting
<1>7. /\ job'[r] = Blank
      /\ \A o \in Requests : o # r =>
            job'[o] = IF IsWriting(o, t) THEN NotAlone(job[o]) ELSE job[o]
  BY <1>2, <1>6
<1>8. job' \in [Requests -> Job]
  BY <1>2, <1>4, <1>5, BlankFacts
<1>9. props' \in [Props -> Status]
  <2>1. v \in Status
    BY DEF Status
  <2> QED BY <1>2, <1>4, <2>1
<1>10. torn' \subseteq Targets
  BY <1>2 DEF MoreDataInd, TypeOK
<1>11. requests' \in 0 .. MaxRequests
  BY <1>3, <1>4
<1>12. TypeOK'
  BY <1>3, <1>8, <1>9, <1>10, <1>11 DEF MoreDataInd, TypeOK
<1>13. RequestsOK'
  <2>1. RequestOK(Blank, bundles', row')
    BY BlankFacts DEF RequestOK
  <2>2. ASSUME NEW o \in Requests, o # r  PROVE RequestOK(job'[o], bundles', row')
    <3>1. job[o] \in Job /\ RequestOK(job[o], bundles, row)
      BY <1>4 DEF MoreDataInd, RequestsOK
    <3>2. bundles' = bundles /\ row' = row
      BY <1>3
    <3>3. RequestOK(job[o], bundles', row') /\ RequestOK(NotAlone(job[o]), bundles', row')
      BY <3>1, <3>2, RequestStays
    <3> QED BY <1>7, <2>2, <3>3
  <2> QED BY <1>7, <2>1, <2>2 DEF RequestsOK
<1>14. ResultHasItsChild'
  BY <1>3 DEF MoreDataInd, ResultHasItsChild
<1>15. ~ IsWriting(r, t)' /\ \A u : ~ IsWriting(r, u) /\ ~ IsWriting(r, u)'
  BY <1>3, <1>7, BlankFacts DEF IsWriting
<1>16. ASSUME NEW u \in Targets  PROVE WritersOf(u)' /\ Follows(u)'
  <2>1. CASE u # t
    <3>1. \A k \in DOMAIN PropsOf[u] : PropsOf[u][k] # PropsOf[t][i]
      BY <2>1, OneTarget DEF IsOf
    <3>2. \A k \in DOMAIN PropsOf[u] : props'[PropsOf[u][k]] = props[PropsOf[u][k]]
      BY <1>2, <1>4, <3>1, PropsFacts
    <3>3. reviews'[u] = reviews[u] /\ (u \in torn' <=> u \in torn)
      BY <1>2, <1>3, <2>1
    <3>4. ASSUME NEW o \in Requests, IsWriting(o, u) \/ IsWriting(o, u)'
          PROVE  job'[o] = job[o]
      <4>1. o # r
        BY <1>15, <3>4
      <4>2. ~ IsWriting(o, t)
        BY <1>5, <1>7, <2>1, <3>4, <4>1 DEF IsWriting
      <4> QED BY <1>7, <4>1, <4>2
    <3>5. Untouched(u)
      BY <3>2, <3>3, <3>4 DEF Untouched
    <3> QED BY <3>5, UntouchedStays DEF MoreDataInd, TargetsOK
  <2>2. CASE u = t
    <3>1. u \in torn'
      BY <1>2, <2>2
    <3>2. ASSUME NEW o \in Requests, IsWriting(o, u)'  PROVE ~ job'[o].alone
      <4>1. o # r
        BY <1>15, <3>2
      <4>2. job'[o].at = "props" /\ job'[o].target = u
        BY <3>2 DEF IsWriting
      <4>3. IsWriting(o, t)
        BY <1>5, <1>7, <2>2, <4>1, <4>2 DEF IsWriting
      <4> QED BY <1>5, <1>7, <4>1, <4>3
    <3> QED BY <3>1, <3>2 DEF WritersOf, Follows
  <2> QED BY <2>1, <2>2
<1> QED BY <1>12, <1>13, <1>14, <1>16 DEF MoreDataInd, TargetsOK

\* The process dies: nobody writes, and what was being written is torn.
LEMMA CrashKeeps ==
  ASSUME MoreDataInd, Crash
  PROVE  MoreDataInd'
<1> DEFINE x(o) == [job[o] EXCEPT !.at = "idle",
                                  !.run = IF @ = "running" THEN "lost" ELSE @]
<1>1. /\ UNCHANGED <<bundles, newest, batches, reviews, row, props, requests>>
      /\ faults < MaxFaults /\ faults' = faults + 1
      /\ torn' = torn \cup {job[r].target : r \in {o \in Requests : job[o].at = "props"}}
      /\ job' = [o \in Requests |-> IF job[o].at = "idle" THEN job[o] ELSE x(o)]
  BY DEF Crash, Idle
<1>2. /\ job \in [Requests -> Job] /\ faults \in 0 .. MaxFaults /\ MaxFaults \in Nat
  BY MoreDataAssumption DEF MoreDataInd, TypeOK
<1>3. ASSUME NEW o \in Requests
      PROVE  /\ x(o) \in Job /\ x(o).at = "idle"
             /\ x(o).run = IF job[o].run = "running" THEN "lost" ELSE job[o].run
             /\ x(o).kind = job[o].kind /\ x(o).target = job[o].target
             /\ x(o).committed = job[o].committed /\ x(o).left = job[o].left
             /\ x(o).raised = job[o].raised
  <2> DEFINE j == job[o]
  <2>1. j \in Job
    BY <1>2
  <2> DEFINE run == IF j.run = "running" THEN "lost" ELSE j.run
  <2>2. x(o) = [j EXCEPT !.at = "idle", !.run = run]
    OBVIOUS
  <2>3. run \in {"none", "running", "succeeded", "failed", "lost"} /\ "idle" \in Places
    BY <2>1, JobFacts DEF Places
  <2> HIDE DEF x, run, j
  <2>4. LET y == [j EXCEPT !.at = "idle", !.run = run]
        IN /\ y \in Job /\ y.at = "idle" /\ y.run = run
           /\ y.kind = j.kind /\ y.target = j.target /\ y.committed = j.committed
           /\ y.left = j.left /\ y.raised = j.raised
    BY <2>1, <2>3 DEF Job
  <2> QED BY <2>2, <2>4 DEF run, j
<1>4. ASSUME NEW o \in Requests
      PROVE  job'[o] \in Job /\ job'[o].at = "idle" /\ RequestOK(job'[o], bundles', row')
  <2>1. job'[o] = IF job[o].at = "idle" THEN job[o] ELSE x(o)
    BY <1>1
  <2> HIDE DEF x
  <2>2. CASE job[o].at = "idle"
    <3>1. bundles' = bundles /\ row' = row
      BY <1>1
    <3> QED BY <1>2, <2>1, <2>2, <3>1 DEF MoreDataInd, RequestsOK
  <2>3. CASE job[o].at # "idle"
    <3>1. job'[o] = x(o)
      BY <2>1, <2>3
    <3>2. RequestOK(job[o], bundles, row) /\ bundles' = bundles /\ row' = row
      BY <1>1 DEF MoreDataInd, RequestsOK
    <3>3. RequestOK(x(o), bundles', row')
      BY <1>3, <2>3, <3>2 DEF RequestOK
    <3> QED BY <1>3, <3>1, <3>3
  <2> QED BY <2>2, <2>3
<1> HIDE DEF x
<1>5. job' \in [Requests -> Job] /\ RequestsOK'
  BY <1>1, <1>4 DEF RequestsOK
<1>6. torn' \subseteq Targets
  BY <1>1, <1>2 DEF MoreDataInd, TypeOK, Job
<1>7. faults' \in 0 .. MaxFaults
  BY <1>1, <1>2
<1>8. TypeOK'
  BY <1>1, <1>5, <1>6, <1>7 DEF MoreDataInd, TypeOK
<1>9. ResultHasItsChild'
  BY <1>1 DEF MoreDataInd, ResultHasItsChild
<1>10. ASSUME NEW u \in Targets  PROVE WritersOf(u)' /\ Follows(u)'
  <2>1. \A o \in Requests : ~ IsWriting(o, u)'
    BY <1>4 DEF IsWriting
  <2>2. u \notin torn' => u \notin torn /\ \A o \in Requests : ~ IsWriting(o, u)
    BY <1>1 DEF IsWriting
  <2>3. WritersOf(u)'
    BY <2>1 DEF WritersOf
  <2>4. Follows(u)'
    BY <1>1, <2>2 DEF MoreDataInd, TargetsOK, Follows
  <2> QED BY <2>3, <2>4
<1> QED BY <1>5, <1>8, <1>9, <1>10 DEF MoreDataInd, TargetsOK

\* A request raises: a result it has not recorded is passed over, any other step goes to the
\* except branch or ends the request, and a target it was writing is torn.
LEMMA RaiseKeeps ==
  ASSUME MoreDataInd, NEW r \in Requests, Raise(r)
  PROVE  MoreDataInd'
<1> DEFINE j == job[r]
           x == Raised(j)
<1>1. /\ UNCHANGED <<bundles, newest, batches, reviews, row, props, requests>>
      /\ j.at # "idle"
      /\ faults < MaxFaults /\ faults' = faults + 1
      /\ job' = [job EXCEPT ![r] = x]
      /\ torn' = IF j.at = "props" THEN torn \cup {j.target} ELSE torn
  BY DEF Raise, Goes, Idle
<1>2. /\ job \in [Requests -> Job] /\ faults \in 0 .. MaxFaults /\ MaxFaults \in Nat
      /\ j \in Job /\ RequestOK(j, bundles, row)
  BY MoreDataAssumption DEF MoreDataInd, TypeOK, RequestsOK
<1>3. /\ x \in Job /\ x.at = AfterRaise(j) /\ x.raised = j.at
      /\ x.kind = j.kind /\ x.target = j.target /\ x.gives = j.gives
      /\ x.run = j.run /\ x.committed = j.committed /\ x.left = j.left
  <2>1. j \in Job /\ j.at # "idle"
    BY <1>1, <1>2
  <2> HIDE DEF j
  <2> QED BY <2>1, RaisedFacts
<1>4. RequestOK(x, bundles', row') /\ x.at # "props"
  <2>1. j.at # "idle" /\ bundles' = bundles /\ row' = row
    BY <1>1
  <2> HIDE DEF x, j
  <2>2. CASE Unguarded(j.kind, j.at)
    <3>1. AfterRaise(j) = "idle"
      BY <2>2 DEF AfterRaise, Unguarded
    <3>2. j.at \in {"start", "fail"}
      BY <2>2 DEF Unguarded
    <3>3. Unguarded(x.kind, x.raised)
      BY <1>3, <2>2
    <3>4. j.run = "running" \/ (j.kind = "decide" /\ j.run = "succeeded")
      BY <1>2, <3>2 DEF RequestOK
    <3> QED BY <1>2, <1>3, <2>1, <3>1, <3>3, <3>4 DEF RequestOK
  <2>3. CASE j.at \in {"record", "commit", "props"}
    <3>1. x.at = IF j.kind = "decide" THEN "fail" ELSE "report"
      BY <1>3, <2>3 DEF AfterRaise, Unguarded
    <3> QED BY <1>2, <1>3, <2>1, <2>3, <3>1 DEF RequestOK
  <2>4. CASE ~ Unguarded(j.kind, j.at) /\ j.at \notin {"record", "commit", "props"}
    <3>1. x.at = "fail"
      BY <1>3, <2>4 DEF AfterRaise
    <3>2. /\ j.at \in {"start", "collect", "bundle", "models", "report", "finish", "answer"}
          /\ j.run \in {"running", "succeeded"}
      BY <1>2, <2>1, <2>4, JobFacts DEF Places, Unguarded, RequestOK
    <3> QED BY <1>2, <1>3, <2>1, <3>1, <3>2 DEF RequestOK
  <2> QED BY <2>2, <2>3, <2>4
<1> HIDE DEF x
<1>5. job'[r] = x /\ \A o \in Requests : o # r => job'[o] = job[o]
  BY <1>1, <1>2
<1>6. job' \in [Requests -> Job]
  BY <1>1, <1>2, <1>3
<1>7. torn' \subseteq Targets
  BY <1>1, <1>2 DEF MoreDataInd, TypeOK, Job
<1>8. faults' \in 0 .. MaxFaults
  BY <1>1, <1>2
<1>9. TypeOK'
  BY <1>1, <1>6, <1>7, <1>8 DEF MoreDataInd, TypeOK
<1>10. RequestsOK'
  <2>1. bundles' = bundles /\ row' = row
    BY <1>1
  <2>2. ASSUME NEW o \in Requests  PROVE RequestOK(job'[o], bundles', row')
    BY <1>4, <1>5, <2>1 DEF MoreDataInd, RequestsOK
  <2> QED BY <2>2 DEF RequestsOK
<1>11. ResultHasItsChild'
  BY <1>1 DEF MoreDataInd, ResultHasItsChild
<1>12. ASSUME NEW u \in Targets  PROVE WritersOf(u)' /\ Follows(u)'
  <2>0. ~ IsWriting(r, u)'
    BY <1>4, <1>5 DEF IsWriting
  <2>1. CASE ~ IsWriting(r, u)
    <3>1. u \in torn' <=> u \in torn
      BY <1>1, <2>1 DEF IsWriting
    <3>2. Untouched(u)
      BY <1>1, <1>5, <2>0, <2>1, <3>1 DEF Untouched
    <3> QED BY <3>2, UntouchedStays DEF MoreDataInd, TargetsOK
  <2>2. CASE IsWriting(r, u)
    <3>1. u \in torn'
      BY <1>1, <2>2 DEF IsWriting
    <3>2. ASSUME NEW o \in Requests, IsWriting(o, u)'
          PROVE  ~ job'[o].alone
      <4>1. o # r
        BY <2>0, <3>2
      <4>2. IsWriting(o, u) /\ job'[o] = job[o]
        BY <1>5, <3>2, <4>1 DEF IsWriting
      <4>3. ~ WritesAlone(o, u)
        BY <2>2, <4>1 DEF WritesAlone
      <4> QED BY <4>2, <4>3 DEF MoreDataInd, TargetsOK, WritersOf
    <3> QED BY <3>1, <3>2 DEF WritersOf, Follows
  <2> QED BY <2>1, <2>2
<1> QED BY <1>9, <1>10, <1>11, <1>12 DEF MoreDataInd, TargetsOK

\* The record of a request after it has written a proposition.
LEMMA WrittenFacts ==
  ASSUME NEW j \in Job, j.at = "props", j.left # <<>>, NEW stored, NEW rows,
         RequestOK(j, stored, rows)
  PROVE  LET rest == Tail(j.left)
             x == IF rest # <<>> THEN [j EXCEPT !.left = rest]
                  ELSE [j EXCEPT !.left = rest, !.at = "report"]
         IN /\ x \in Job /\ RequestOK(x, stored, rows)
            /\ x.at = IF rest # <<>> THEN "props" ELSE "report"
            /\ x.target = j.target /\ x.gives = j.gives /\ x.alone = j.alone
            /\ x.left = rest
<1> DEFINE rest == Tail(j.left)
<1>1. rest \in Seq(Props) /\ Len(rest) = Len(j.left) - 1
      /\ \A k \in 1 .. Len(rest) : rest[k] = j.left[k + 1]
  BY HeadTailProperties DEF Job
<1>2. j.left \in Seq(Props)
  BY DEF Job
<1>3. \A k \in DOMAIN rest : IsOf(rest[k], j.target)
  <2> SUFFICES ASSUME NEW k \in DOMAIN rest PROVE IsOf(rest[k], j.target)
    OBVIOUS
  <2>1. k \in 1 .. Len(rest) /\ k + 1 \in DOMAIN j.left
    BY <1>1, <1>2
  <2> QED BY <1>1, <2>1 DEF RequestOK
<1> HIDE DEF rest
<1>4. CASE rest # <<>>
  <2> DEFINE x == [j EXCEPT !.left = rest]
  <2>1. /\ x \in Job /\ x.at = "props" /\ x.kind = j.kind /\ x.gives = j.gives
        /\ x.child = j.child /\ x.run = j.run /\ x.committed = j.committed
        /\ x.target = j.target /\ x.seen = j.seen /\ x.data = j.data
        /\ x.alone = j.alone /\ x.left = rest
    BY <1>1 DEF Job
  <2> HIDE DEF x
  <2>2. ChildOf(x) = ChildOf(j)
    BY <2>1 DEF ChildOf
  <2>3. RequestOK(x, stored, rows)
    BY <1>3, <1>4, <2>1, <2>2 DEF RequestOK
  <2> QED BY <1>4, <2>1, <2>3 DEF x, rest
<1>5. CASE rest = <<>>
  <2> DEFINE x == [j EXCEPT !.left = rest, !.at = "report"]
  <2>1. /\ x \in Job /\ x.at = "report" /\ x.run = j.run /\ x.kind = j.kind
        /\ x.target = j.target /\ x.committed = j.committed
        /\ x.gives = j.gives /\ x.alone = j.alone /\ x.left = rest
    BY <1>1 DEF Job, Places
  <2> HIDE DEF x
  <2>2. RequestOK(x, stored, rows)
    BY <1>5, <2>1 DEF RequestOK
  <2> QED BY <1>5, <2>1, <2>2 DEF x, rest
<1> QED BY <1>4, <1>5

\* A proposition is written; after the last one of a request that was left alone, each
\* proposition of the target has the status of its review.
LEMMA WritePropositionKeeps ==
  ASSUME MoreDataInd, NEW r \in Requests, WriteProposition(r)
  PROVE  MoreDataInd'
<1> DEFINE j == job[r]
           t == j.target
           rest == Tail(j.left)
           x == IF rest # <<>> THEN [j EXCEPT !.left = rest]
                ELSE [j EXCEPT !.left = rest, !.at = "report"]
           p == Head(j.left)
<1>1. /\ UNCHANGED <<bundles, newest, batches, reviews, row, requests, faults>>
      /\ j.at = "props" /\ props' = [props EXCEPT ![p] = j.gives]
      /\ job' = [job EXCEPT ![r] = x]
      /\ torn' = IF rest = <<>> /\ j.alone THEN torn \ {t} ELSE torn
  BY DEF WriteProposition, Goes
<1>2. /\ job \in [Requests -> Job] /\ props \in [Props -> Status]
      /\ j \in Job /\ RequestOK(j, bundles, row)
  BY DEF MoreDataInd, TypeOK, RequestsOK
<1>3. /\ j.left # <<>> /\ j.left \in Seq(Props) /\ t \in Targets /\ j.gives \in Status
      /\ \A k \in DOMAIN j.left : IsOf(j.left[k], t)
  BY <1>1, <1>2 DEF RequestOK, Job
<1>4. /\ x \in Job /\ RequestOK(x, bundles, row)
      /\ x.at = IF rest # <<>> THEN "props" ELSE "report"
      /\ x.target = t /\ x.gives = j.gives /\ x.alone = j.alone /\ x.left = rest
  <2>1. j.at = "props"
    BY <1>1
  <2> HIDE DEF j
  <2> QED BY <1>2, <1>3, <2>1, WrittenFacts
<1> HIDE DEF x, j, t, rest, p
<1>5. /\ p = j.left[1] /\ p \in Props /\ IsOf(p, t)
      /\ rest \in Seq(Props) /\ Len(rest) = Len(j.left) - 1
      /\ \A k \in 1 .. Len(rest) : rest[k] = j.left[k + 1]
  <2>1. 1 \in DOMAIN j.left
    BY <1>3
  <2>2. p = j.left[1] /\ p \in Props
    BY <1>3, HeadTailProperties DEF p
  <2> QED BY <1>3, <2>1, <2>2, HeadTailProperties DEF rest
<1>6. job'[r] = x /\ \A o \in Requests : o # r => job'[o] = job[o]
  BY <1>1, <1>2
<1>7. job' \in [Requests -> Job]
  BY <1>1, <1>2, <1>4
<1>8. props' \in [Props -> Status] /\ torn' \subseteq Targets
  BY <1>1, <1>2, <1>3 DEF MoreDataInd, TypeOK
<1>9. TypeOK'
  BY <1>1, <1>7, <1>8 DEF MoreDataInd, TypeOK
<1>10. RequestsOK'
  <2>1. bundles' = bundles /\ row' = row
    BY <1>1
  <2>2. ASSUME NEW o \in Requests  PROVE RequestOK(job'[o], bundles', row')
    BY <1>4, <1>6, <2>1 DEF MoreDataInd, RequestsOK
  <2> QED BY <2>2 DEF RequestsOK
<1>11. ResultHasItsChild'
  BY <1>1 DEF MoreDataInd, ResultHasItsChild
<1>12. IsWriting(r, t) /\ \A u : u # t => ~ IsWriting(r, u) /\ ~ IsWriting(r, u)'
  BY <1>1, <1>4, <1>6 DEF IsWriting, j, t
<1>13. ASSUME NEW u \in Targets, u # t  PROVE WritersOf(u)' /\ Follows(u)'
  <2>1. \A k \in DOMAIN PropsOf[u] : PropsOf[u][k] # p
    BY <1>3, <1>5, <1>13, OneTarget
  <2>2. \A k \in DOMAIN PropsOf[u] : props'[PropsOf[u][k]] = props[PropsOf[u][k]]
    BY <1>1, <1>2, <2>1, PropsFacts
  <2>3. reviews'[u] = reviews[u] /\ (u \in torn' <=> u \in torn)
    BY <1>1, <1>13
  <2>4. \A o \in Requests : IsWriting(o, u) \/ IsWriting(o, u)' => job'[o] = job[o]
    BY <1>6, <1>12, <1>13
  <2>5. Untouched(u)
    BY <2>2, <2>3, <2>4 DEF Untouched
  <2> QED BY <2>5, UntouchedStays DEF MoreDataInd, TargetsOK
<1>14. ASSUME NEW u \in Targets, u = t  PROVE WritersOf(u)' /\ Follows(u)'
  <2>1. CASE j.alone
    <3>1. WritesAlone(r, u)
      BY <1>12, <1>14, <2>1 DEF MoreDataInd, TargetsOK, WritersOf, j
    <3>2. \A i \in DOMAIN PropsOf[u] :
            \/ props'[PropsOf[u][i]] = j.gives
            \/ \E k \in DOMAIN rest : rest[k] = PropsOf[u][i]
      <4> SUFFICES ASSUME NEW i \in DOMAIN PropsOf[u]
                   PROVE  \/ props'[PropsOf[u][i]] = j.gives
                          \/ \E k \in DOMAIN rest : rest[k] = PropsOf[u][i]
        OBVIOUS
      <4>1. PropsOf[u][i] \in Props
        BY PropsFacts
      <4>2. CASE PropsOf[u][i] = p
        BY <1>1, <1>2, <4>1, <4>2
      <4>3. CASE PropsOf[u][i] # p /\ props[PropsOf[u][i]] = j.gives
        BY <1>1, <1>2, <4>1, <4>3
      <4>4. ASSUME NEW k \in DOMAIN j.left, j.left[k] = PropsOf[u][i], PropsOf[u][i] # p
            PROVE  \E m \in DOMAIN rest : rest[m] = PropsOf[u][i]
        <5>1. k \in 1 .. Len(j.left) /\ k # 1
          BY <1>3, <1>5, <4>4
        <5>2. k - 1 \in 1 .. Len(rest) /\ (k - 1) + 1 = k
          BY <1>3, <1>5, <5>1
        <5>3. rest[k - 1] = j.left[k] /\ k - 1 \in DOMAIN rest
          BY <1>5, <5>2
        <5> QED BY <4>4, <5>3
      <4> QED BY <3>1, <4>2, <4>3, <4>4 DEF WritesAlone, j
    <3>3. \A o \in Requests : IsWriting(o, u)' => o = r
      BY <1>6, <3>1 DEF WritesAlone, IsWriting
    <3>4. /\ reviews'[u] = reviews[u] /\ reviews[u] # <<>>
          /\ j.gives = reviews[u][Len(reviews[u])].status
      BY <1>1, <3>1 DEF WritesAlone, j
    <3>5. WritesAlone(r, u)'
      BY <1>4, <1>6, <3>2, <3>3, <3>4 DEF WritesAlone
    <3>6. WritersOf(u)'
      BY <1>4, <1>6, <2>1, <3>3, <3>5 DEF WritersOf
    <3>7. Follows(u)'
      <4>1. (\A o \in Requests : ~ IsWriting(o, u)') => rest = <<>>
        BY <1>4, <1>6, <1>14 DEF IsWriting
      <4>2. rest = <<>> => \A i \in DOMAIN PropsOf[u] : props'[PropsOf[u][i]] = j.gives
        BY <3>2
      <4> QED BY <3>4, <4>1, <4>2 DEF Follows
    <3> QED BY <3>6, <3>7
  <2>2. CASE ~ j.alone
    <3>1. u \in torn /\ u \in torn'
      BY <1>1, <1>12, <1>14, <2>2 DEF MoreDataInd, TargetsOK, WritersOf, j
    <3>2. ASSUME NEW o \in Requests, IsWriting(o, u)'  PROVE ~ job'[o].alone
      <4>1. CASE o = r
        BY <1>4, <1>6, <2>2, <4>1
      <4>2. CASE o # r
        <5>1. IsWriting(o, u) /\ job'[o] = job[o]
          BY <1>6, <3>2, <4>2 DEF IsWriting
        <5>2. ~ WritesAlone(o, u)
          BY <1>12, <1>14, <4>2 DEF WritesAlone
        <5> QED BY <5>1, <5>2 DEF MoreDataInd, TargetsOK, WritersOf
      <4> QED BY <4>1, <4>2
    <3> QED BY <3>1, <3>2 DEF WritersOf, Follows
  <2> QED BY <2>1, <2>2
<1> QED BY <1>9, <1>10, <1>11, <1>13, <1>14 DEF MoreDataInd, TargetsOK

\* The quiet steps keep what is known.
LEMMA QuietStepsKeep ==
  ASSUME MoreDataInd, NEW r \in Requests,
         \/ Decide(r) \/ RefreshTarget(r) \/ RemoteCollect(r) \/ RefreshProposition(r)
         \/ Collect(r) \/ StoreChild(r) \/ RunModels(r) \/ LookAgain(r)
         \/ Started(r) \/ Report(r) \/ Finish(r) \/ Answer(r) \/ Fail(r)
  PROVE  MoreDataInd'
<1>1. TypeOK /\ RequestsOK
  BY DEF MoreDataInd
<1>2. ASSUME NEW kind \in {"refresh", "collect", "legacy"}, NEW t \in Targets,
             Begin(r, kind, t)
      PROVE  MoreDataInd'
  <2>1. QuietStep(r)
    BY <1>1, <1>2, BeginMoves
  <2>2. /\ UNCHANGED <<bundles, newest, batches, reviews, row, props, torn, faults>>
        /\ requests < MaxRequests /\ requests' = requests + 1
    BY <1>2 DEF Begin
  <2>3. job' \in [Requests -> Job] /\ RequestsOK' /\ ResultHasItsChild' /\ TargetsOK'
    BY <2>1, <2>2, QuietKeeps
  <2>4. requests' \in 0 .. MaxRequests
    BY <1>1, <2>2, MoreDataAssumption DEF TypeOK
  <2>5. TypeOK'
    BY <1>1, <2>2, <2>3, <2>4 DEF TypeOK
  <2> QED BY <2>3, <2>5 DEF MoreDataInd
<1>3. CASE Decide(r)
  <2>1. QuietStep(r)
    BY <1>1, <1>3, DecideMoves
  <2>2. /\ UNCHANGED <<bundles, newest, batches, reviews, row, props, torn, faults>>
        /\ requests < MaxRequests /\ requests' = requests + 1
    BY <1>3 DEF Decide
  <2>3. job' \in [Requests -> Job] /\ RequestsOK' /\ ResultHasItsChild' /\ TargetsOK'
    BY <2>1, <2>2, QuietKeeps
  <2>4. requests' \in 0 .. MaxRequests
    BY <1>1, <2>2, MoreDataAssumption DEF TypeOK
  <2>5. TypeOK'
    BY <1>1, <2>2, <2>3, <2>4 DEF TypeOK
  <2> QED BY <2>3, <2>5 DEF MoreDataInd
<1>4. CASE RefreshTarget(r)
  BY <1>2, <1>4 DEF RefreshTarget
<1>5. CASE RemoteCollect(r)
  BY <1>2, <1>5 DEF RemoteCollect
<1>6. CASE RefreshProposition(r)
  BY <1>2, <1>6 DEF RefreshProposition
<1>7. CASE Collect(r)
  <2>1. QuietStep(r) /\ batches' \in 0 .. MaxBatches
    BY <1>1, <1>7, CollectMoves
  <2>2. UNCHANGED <<bundles, newest, reviews, row, props, torn, requests, faults>>
    BY <1>7 DEF Collect
  <2>3. job' \in [Requests -> Job] /\ RequestsOK' /\ ResultHasItsChild' /\ TargetsOK'
    BY <2>1, <2>2, QuietKeeps
  <2>4. TypeOK'
    BY <1>1, <2>1, <2>2, <2>3 DEF TypeOK
  <2> QED BY <2>3, <2>4 DEF MoreDataInd
<1>8. CASE StoreChild(r)
  <2> DEFINE c == ChildOf(job[r])
  <2>1. /\ QuietStep(r) /\ bundles' = bundles \cup {c} /\ newest' = c /\ c \in Children
    BY <1>1, <1>8, StoreChildMoves
  <2>2. UNCHANGED <<batches, reviews, row, props, torn, requests, faults>>
    BY <1>8 DEF StoreChild
  <2> HIDE DEF c
  <2>3. job' \in [Requests -> Job] /\ RequestsOK' /\ ResultHasItsChild' /\ TargetsOK'
    BY <2>1, <2>2, QuietKeeps
  <2>4. TypeOK'
    BY <1>1, <2>1, <2>2, <2>3 DEF TypeOK
  <2> QED BY <2>3, <2>4 DEF MoreDataInd
<1>9. CASE \/ RunModels(r) \/ LookAgain(r)
           \/ Started(r) \/ Report(r) \/ Finish(r) \/ Answer(r) \/ Fail(r)
  <2>1. QuietStep(r)
    BY <1>1, <1>9, RunModelsMoves, LookAgainMoves, RunMoves
  <2>2. UNCHANGED <<bundles, newest, batches, reviews, row, props, torn, requests, faults>>
    BY <1>9 DEF RunModels, LookAgain, Started, Report, Finish, Answer, Fail
  <2>3. job' \in [Requests -> Job] /\ RequestsOK' /\ ResultHasItsChild' /\ TargetsOK'
    BY <2>1, <2>2, QuietKeeps
  <2>4. TypeOK'
    BY <1>1, <2>2, <2>3 DEF TypeOK
  <2> QED BY <2>3, <2>4 DEF MoreDataInd
<1> QED BY <1>3, <1>4, <1>5, <1>6, <1>7, <1>8, <1>9

-----------------------------------------------------------------------------
(* The inductive invariant.                                                *)

\* It holds at first: nothing is stored, and nobody runs.
LEMMA IndInit == Init => MoreDataInd
<1> SUFFICES ASSUME Init PROVE MoreDataInd
  OBVIOUS
<1>1. Blank \in Job /\ Blank.at = "idle" /\ Blank.kind = "decide" /\ Blank.run = "none"
  BY BlankFacts
<1>2. 0 \in 0 .. MaxBatches /\ 0 \in 0 .. MaxRequests /\ 0 \in 0 .. MaxFaults
  BY MoreDataAssumption
<1>3. <<>> \in Seq(Review) /\ "pending" \in Status
  BY DEF Status
<1>4. TypeOK
  <2>1. /\ bundles \subseteq Children \cup {Parent} /\ newest \in bundles
        /\ torn \subseteq Targets
    BY DEF Init
  <2>2. row \in [Targets -> Status \cup {"absent"}]
    BY <1>3 DEF Init
  <2>3. /\ reviews \in [Targets -> Seq(Review)] /\ props \in [Props -> Status]
        /\ job \in [Requests -> Job]
    BY <1>1, <1>3 DEF Init
  <2>4. /\ batches \in 0 .. MaxBatches /\ requests \in 0 .. MaxRequests
        /\ faults \in 0 .. MaxFaults
    BY <1>2 DEF Init
  <2> QED BY <2>1, <2>2, <2>3, <2>4 DEF TypeOK
<1>5. \A r \in Requests : job[r] = Blank
  BY DEF Init
<1>6. RequestsOK
  BY <1>1, <1>5 DEF RequestsOK, RequestOK
<1>7. \A t \in Targets : reviews[t] = <<>>
  BY DEF Init
<1>8. ResultHasItsChild
  BY <1>7 DEF ResultHasItsChild
<1>9. TargetsOK
  BY <1>1, <1>5, <1>7 DEF TargetsOK, WritersOf, Follows, IsWriting
<1> QED BY <1>4, <1>6, <1>8, <1>9 DEF MoreDataInd

\* Every step keeps it.
LEMMA IndNext == MoreDataInd /\ [Next]_vars => MoreDataInd'
<1> SUFFICES ASSUME MoreDataInd, [Next]_vars PROVE MoreDataInd'
  OBVIOUS
<1>1. ASSUME NEW r \in Requests,
             \/ Decide(r) \/ DecideProposition(r) \/ RefreshTarget(r)
             \/ RemoteCollect(r) \/ RefreshProposition(r) \/ Step(r)
      PROVE  MoreDataInd'
  <2>1. CASE DecideProposition(r)
    BY <2>1, DecidePropositionKeeps
  <2>2. CASE Commit(r)
    BY <2>2, CommitKeeps
  <2>3. CASE WriteProposition(r)
    BY <2>3, WritePropositionKeeps
  <2>4. CASE Raise(r)
    BY <2>4, RaiseKeeps
  <2> QED BY <1>1, <2>1, <2>2, <2>3, <2>4, QuietStepsKeep DEF Step
<1>2. CASE Crash
  BY <1>2, CrashKeeps
<1>3. CASE UNCHANGED vars
  <2>1. /\ UNCHANGED <<bundles, newest, batches, reviews, row, props, job, torn>>
        /\ UNCHANGED <<requests, faults>>
    BY <1>3 DEF vars
  <2>2. TypeOK'
    BY <2>1 DEF MoreDataInd, TypeOK
  <2>3. RequestsOK'
    BY <2>1 DEF MoreDataInd, RequestsOK
  <2>4. ResultHasItsChild'
    BY <2>1 DEF MoreDataInd, ResultHasItsChild
  <2>5. ASSUME NEW t \in Targets  PROVE WritersOf(t)' /\ Follows(t)'
    <3>1. Untouched(t)
      BY <2>1 DEF Untouched
    <3> QED BY <3>1, UntouchedStays DEF MoreDataInd, TargetsOK
  <2> QED BY <2>2, <2>3, <2>4, <2>5 DEF MoreDataInd, TargetsOK
<1> QED BY <1>1, <1>2, <1>3 DEF Next

LEMMA IndHolds == Spec => []MoreDataInd
BY IndInit, IndNext, PTL DEF Spec

-----------------------------------------------------------------------------
(* What it shows.                                                          *)

\* Whatever overlaps, raises or dies, a result on a target names a stored child that was built
\* for it (_record_more_data_result), a failed refresh has a result only if its last event or
\* its end could not be written, a decision that succeeded is written in full, a run is left
\* running only by a write outside any try, and a refresh of a stored target that met no error
\* is in its history.
THEOREM RunsTellTheTruth == Spec => []MoreDataInv
<1>1. MoreDataInd => MoreDataInv
  <2> SUFFICES ASSUME MoreDataInd PROVE MoreDataInv
    OBVIOUS
  <2>1. TypeOK /\ ResultHasItsChild
    BY DEF MoreDataInd
  <2>2. RunTellsTheTruth
    BY DEF MoreDataInd, RequestsOK, RequestOK, RunTellsTheTruth, Idle
  <2>3. StoredHistoryIsKept
    BY DEF MoreDataInd, RequestsOK, RequestOK, StoredHistoryIsKept
  <2> QED BY <2>1, <2>2, <2>3 DEF MoreDataInv
<1> QED BY IndHolds, <1>1, PTL

\* The list by propositions and the targets agree: of a target nobody writes and no overlap
\* or broken write has torn, each proposition has the status of its latest review, however
\* many writes, repairs and crashes came before (record_target_review, record_review).
THEOREM ListsAgree == Spec => []PropositionsFollowTarget
<1>1. MoreDataInd => PropositionsFollowTarget
  BY DEF MoreDataInd, TargetsOK, Follows, PropositionsFollowTarget, Writing, IsWriting, Shown
<1> QED BY IndHolds, <1>1, PTL
=============================================================================
