---------------------------- MODULE ReviewFlowProofs ----------------------------
(***************************************************************************)
(* Proofs about ReviewFlow for any flows, patches and bounds: what a human *)
(* can download was confirmed, records tell the truth, jobs run on what    *)
(* was approved for them, and a review published alone is whole.           *)
(***************************************************************************)
EXTENDS ReviewFlow, FiniteSetTheorems, TLAPS

-------------------------------------------------------------------------------
(* The shape of the state: TypeOK with every table a function into records.  *)

Drawn == Patches \cup {None}
MaybeProfile == Profile \cup {None}
Focus == Drafts \cup {0, Torn}
ApprovalRecord == [draft : Drafts, source : Versions \cup {None}, focused : Focus]
DirRec == [context : Versions \cup {None}, focused : Focus, payload : Versions \cup {None},
           frozen : MaybeProfile, record : ApprovalRecord \cup {None}]
TabRec == [draft : Drafts \cup {0}, patch : Drawn, normalized : BOOLEAN, reviewed : Drawn,
           ticked : Ticks, approved : MaybeProfile]
RequestRec == [kind : {"normalize", "preview", "approve"}, draft : Drafts, patch : Drawn,
               reviewed : Drawn, ticked : Ticks]
FlowAts == {"off", "resume", "sanitize", "draft", "page", "upload", "confirm", "logs",
            "job", "check"}
FlowRec == [at : FlowAts, mode : Modes, approved : BOOLEAN]
InputRec == [bundle : BOOLEAN, source : BOOLEAN, approved : MaybeProfile]
JobAts == {"off", "read", "run", "precomputed", "index", "report", "payload", "result",
           "end"}
JobRec == [at : JobAts, byHand : BOOLEAN, useProfile : BOOLEAN, useSource : BOOLEAN,
           approved : MaybeProfile, source : BOOLEAN, n : Runs, alone : BOOLEAN]

\* The page has a draft while anything on it or on its way concerns one, and a
\* request for a preview or an approval is about a patch.
HumanShape ==
    /\ tab \in TabRec /\ saved \in BOOLEAN
    /\ tab.reviewed # None => tab.normalized
    /\ tab.normalized \/ tab.patch # None \/ requests # {} => tab.draft # 0
    /\ requests \subseteq RequestRec /\ IsFiniteSet(requests)
    /\ Cardinality(requests) <= MaxRequests
    /\ \A q \in requests :
          /\ q.kind = "preview" => tab.normalized /\ q.patch # None
          /\ q.kind = "approve" =>
                q.patch # None /\ q.reviewed # None /\ q.ticked # "no"
    /\ downloads \subseteq Profile /\ Cardinality(downloads) <= MaxDownloads

\* A script that drafts has a source context, one that approved a frozen profile.
ScriptShape ==
    /\ source \in Versions /\ changes \in 0 .. MaxChanges
    /\ drafts \in Seq(Versions) /\ Len(drafts) <= MaxDrafts
    /\ dir \in [Flows -> DirRec]
    /\ page \in [Versions -> Drafts \cup {0}]
    /\ flow \in [Flows -> FlowRec]
    /\ \A f \in Flows :
          /\ flow[f].at \in {"draft", "page", "upload", "confirm"} => dir[f].context \in Versions
          /\ flow[f].at = "upload" => dir[f].focused \in Drafts
          /\ flow[f].approved => flow[f].at = "logs" /\ dir[f].frozen \in Profile

JobShape ==
    /\ inputs \in [Flows -> InputRec]
    /\ job \in [Flows -> JobRec]
    /\ pub \in [Parts -> Runs] /\ last \in Runs
    /\ starts \in 0 .. MaxStarts /\ made \in Runs

Shape == HumanShape /\ ScriptShape /\ JobShape

-------------------------------------------------------------------------------
(* What makes the safety properties inductive.                               *)

\* A tick is for the interpretation the page shows, in the form, in requests to
\* approve, and in what was approved.
TicksAreMeant ==
    /\ tab.ticked # "no" /\ tab.reviewed # None => tab.ticked = tab.reviewed
    /\ \A q \in requests : q.kind = "approve" => q.ticked = q.reviewed
    /\ tab.approved # None => tab.approved.ticked = tab.approved.patch
    /\ ApprovedWasConfirmed

\* Drafts that a page ever showed, as far as anything still tells.
Paged(d) ==
    \/ \E v \in Versions : page[v] = d
    \/ tab.draft = d
    \/ \E q \in requests : q.draft = d
    \/ tab.approved # None /\ tab.approved.draft = d
    \/ \E p \in downloads : p.draft = d

\* Drafts exist; a draft is of one directory, and once a page showed it the payload
\* beside it is of its source; records are of drafts and tell their source.
DraftsAreKnown ==
    /\ \A d \in Drafts : Paged(d) => d <= Len(drafts)
    /\ \A f \in Flows : dir[f].focused \in Drafts =>
          /\ dir[f].focused <= Len(drafts)
          /\ \A g \in Flows : dir[g].focused = dir[f].focused => g = f
          /\ Paged(dir[f].focused) => dir[f].payload = drafts[dir[f].focused]
    /\ \A f \in Flows : flow[f].at \in {"page", "upload", "confirm"} =>
          /\ dir[f].focused \in Drafts /\ drafts[dir[f].focused] = dir[f].context
          /\ flow[f].at # "page" => dir[f].payload = dir[f].context
    /\ \A f \in Flows : dir[f].record # None =>
          /\ dir[f].record.draft \in 1 .. Len(drafts)
          /\ dir[f].record.focused # Torn =>
                drafts[dir[f].record.draft] = dir[f].record.source

\* A profile that fits the focused profile of the directory.
Fits(f, p) == dir[f].focused = Torn \/ p.draft = dir[f].focused

\* A job works while its script waits for it; what it may read fits its directory.
JobsAreBound ==
    \A f \in Flows :
        /\ job[f].at \notin {"off", "end"} => flow[f].at = "job"
        /\ flow[f].at = "logs" /\ flow[f].approved => Fits(f, dir[f].frozen)
        /\ job[f].at = "read" /\ ~job[f].byHand /\ job[f].useProfile
              => Fits(f, inputs[f].approved)
        /\ job[f].at \in {"off", "read", "end"} => job[f].approved = None
        /\ job[f].approved # None => ~job[f].source /\ (job[f].byHand \/ Fits(f, job[f].approved))

\* The parts a job at this place has written.
Written(at) ==
    CASE at = "index" -> {"precomputed"}
      [] at = "report" -> {"precomputed", "index"}
      [] at = "payload" -> {"precomputed", "index", "report"}
      [] OTHER -> Parts

\* The results jobs work on are their own; the parts the last publisher wrote are
\* its own if it was alone, and nobody else is publishing then.
PublishedAlone ==
    /\ last <= made
    /\ \A f \in Flows :
          /\ job[f].n <= made
          /\ job[f].at \in {"precomputed", "index", "report", "payload", "result"} => job[f].n # 0
          /\ \A g \in Flows \ {f} : job[f].n # 0 => job[f].n # job[g].n
          /\ job[f].at \in {"index", "report", "payload", "result", "end"}
             /\ job[f].alone /\ job[f].n = last =>
                /\ \A g \in Flows \ {f} : ~Publishing(g)
                /\ \A part \in Written(job[f].at) : pub[part] = last

-------------------------------------------------------------------------------
(* The page.                                                                 *)

Others == <<local, flow, inputs, job, published, starts, made>>
HumanInv == HumanShape /\ TicksAreMeant

\* What a step on the page must show: it brings no draft onto a page.
Kept == HumanInv' /\ \A d \in Drafts : Paged(d)' => Paged(d)

\* Loading puts a published draft and perhaps a restored tick on an empty page.
LEMMA LoadKeeps == HumanInv /\ page \in [Versions -> Drafts \cup {0}] /\ Load => Kept
<1> SUFFICES ASSUME HumanInv, page \in [Versions -> Drafts \cup {0}], Load
             PROVE  Kept
  OBVIOUS
<1>1. PICK v \in Versions :
         /\ page[v] # 0
         /\ tab' = [NoTab EXCEPT !.draft = page[v],
                                 !.ticked = IF saved THEN "restored" ELSE "no"]
  BY DEF Load, OnPage
<1>2. requests' = {} /\ saved' = saved /\ downloads' = downloads /\ page' = page
  BY DEF Load, OnPage, local
<1>3. PICK t \in {"restored", "no"} :
         tab' = [draft |-> page[v], patch |-> None, normalized |-> FALSE, reviewed |-> None,
                 ticked |-> t, approved |-> None]
  BY <1>1 DEF NoTab
<1>4. IsFiniteSet({}) /\ Cardinality({}) = 0 /\ 0 <= MaxRequests
  BY FS_EmptySet, FlowAssumption
<1>5. HumanInv'
  <2>1. tab' \in TabRec
    <3>1. /\ page[v] \in Drafts \cup {0} /\ None \in Drawn /\ None \in MaybeProfile
          /\ t \in Ticks
      BY DEF Ticks, Drawn, MaybeProfile
    <3> QED BY <1>3, <3>1 DEF TabRec
  <2>2. tab'.draft # 0 /\ tab'.reviewed = None /\ tab'.approved = None
    <3>1. tab'.draft = page[v] /\ tab'.reviewed = None /\ tab'.approved = None
      BY <1>3
    <3> QED BY <1>1, <3>1
  <2> QED BY <1>2, <1>4, <2>1, <2>2 DEF HumanInv, HumanShape, TicksAreMeant,
             ApprovedWasConfirmed
<1>6. \A d \in Drafts : Paged(d)' => Paged(d)
  <2>1. tab'.draft = page[v] /\ tab'.approved = None
    BY <1>3
  <2> QED BY <1>2, <2>1 DEF Paged
<1> QED BY <1>5, <1>6 DEF Kept

\* A closed page asks and shows nothing.
LEMMA CloseKeeps == HumanInv /\ Close => Kept
<1> SUFFICES ASSUME HumanInv, Close PROVE Kept
  OBVIOUS
<1>1. /\ tab' = NoTab /\ requests' = {} /\ saved' = saved /\ downloads' = downloads
      /\ page' = page
  BY DEF Close, OnPage, local
<1>2. IsFiniteSet({}) /\ Cardinality({}) = 0 /\ 0 <= MaxRequests
  BY FS_EmptySet, FlowAssumption
<1>3. HumanInv'
  BY <1>1, <1>2 DEF HumanInv, HumanShape, TicksAreMeant, ApprovedWasConfirmed, NoTab,
     TabRec, RequestRec, Ticks, Drawn, MaybeProfile
<1>4. \A d \in Drafts : Paged(d)' => Paged(d)
  BY <1>1 DEF Paged, NoTab, Drafts
<1> QED BY <1>3, <1>4 DEF Kept

\* The form is stored, edited or ticked.
LEMMA FormKeeps == HumanInv /\ (SaveForm \/ Edit \/ Tick) => Kept
<1> SUFFICES ASSUME HumanInv, SaveForm \/ Edit \/ Tick PROVE Kept
  OBVIOUS
<1>1. requests' = requests /\ downloads' = downloads /\ page' = page
  BY DEF SaveForm, Edit, Tick, OnPage, local
<1>2. tab'.draft = tab.draft /\ tab'.approved = tab.approved
  BY DEF SaveForm, Edit, Tick, OnPage, HumanInv, HumanShape, TabRec
<1>3. \A d \in Drafts : Paged(d)' => Paged(d)
  BY <1>1, <1>2 DEF Paged
<1>4. CASE SaveForm
  <2>1. tab' = tab /\ saved' \in BOOLEAN
    BY <1>4 DEF SaveForm, OnPage, Collected
  <2> QED BY <1>1, <1>3, <2>1 DEF Kept, HumanInv, HumanShape, TicksAreMeant,
             ApprovedWasConfirmed
<1>5. CASE Edit
  <2>1. saved' = saved /\ tab.draft # 0
    BY <1>5 DEF Edit
  <2>2. PICK p \in Patches : tab' = [tab EXCEPT !.patch = p, !.reviewed = None,
                                                !.ticked = "no"]
    BY <1>5 DEF Edit, OnPage
  <2> QED BY <1>1, <1>3, <2>1, <2>2 DEF Kept, HumanInv, HumanShape, TicksAreMeant,
             ApprovedWasConfirmed, TabRec, Drawn, Ticks
<1>6. CASE Tick
  <2>1. saved' = saved /\ tab.reviewed # None
    BY <1>6 DEF Tick
  <2>2. tab' = [tab EXCEPT !.ticked = IF tab.ticked = "no" THEN tab.reviewed ELSE "no"]
    BY <1>6 DEF Tick, OnPage
  <2> QED BY <1>1, <1>3, <2>1, <2>2 DEF Kept, HumanInv, HumanShape, TicksAreMeant,
             ApprovedWasConfirmed, TabRec, Drawn, Ticks
<1> QED BY <1>4, <1>5, <1>6

\* A request carries what the form holds.
LEMMA ClickKeeps == HumanInv /\ (ClickNormalize \/ ClickPreview \/ ClickApprove) => Kept
<1> SUFFICES ASSUME HumanInv, ClickNormalize \/ ClickPreview \/ ClickApprove PROVE Kept
  OBVIOUS
<1>1. PICK kind \in {"normalize", "preview", "approve"} :
         /\ Ask(kind)
         /\ kind = "preview" => tab.normalized /\ tab.patch # None
         /\ kind = "approve" => tab.patch # None /\ tab.reviewed # None /\ tab.ticked # "no"
  BY DEF ClickNormalize, ClickPreview, ClickApprove
<1>2. /\ tab' = tab /\ downloads' = downloads /\ page' = page
      /\ requests' = requests \cup {Request(kind)} /\ Cardinality(requests) < MaxRequests
  BY <1>1 DEF Ask, OnPage, local
<1>3. saved' \in BOOLEAN
  BY DEF ClickNormalize, ClickPreview, ClickApprove, Collected, HumanInv, HumanShape
<1>4. tab.draft # 0
  BY DEF ClickNormalize, ClickPreview, ClickApprove, HumanInv, HumanShape
<1>5. Request(kind) \in RequestRec
  BY <1>4 DEF Request, RequestRec, HumanInv, HumanShape, TabRec
<1>6. IsFiniteSet(requests') /\ Cardinality(requests') <= MaxRequests
  <2>1. IsFiniteSet(requests) /\ MaxRequests \in Nat
    BY FlowAssumption DEF HumanInv, HumanShape
  <2>2. Cardinality(requests) \in Nat
    BY <2>1, FS_CardinalityType
  <2>3. /\ IsFiniteSet(requests \cup {Request(kind)})
        /\ \/ Cardinality(requests \cup {Request(kind)}) = Cardinality(requests)
           \/ Cardinality(requests \cup {Request(kind)}) = Cardinality(requests) + 1
    BY <2>1, FS_AddElement
  <2> QED BY <1>2, <2>1, <2>2, <2>3
<1>7. HumanShape'
  BY <1>1, <1>2, <1>3, <1>4, <1>5, <1>6 DEF HumanInv, HumanShape, Request
<1>8. TicksAreMeant'
  BY <1>1, <1>2 DEF HumanInv, TicksAreMeant, ApprovedWasConfirmed, Request
<1>9. \A d \in Drafts : Paged(d)' => Paged(d)
  BY <1>2 DEF Paged, Request
<1> QED BY <1>7, <1>8, <1>9 DEF Kept, HumanInv

\* Answered requests are gone, the others stay what they are.
LEMMA AnsweredLeaves ==
  ASSUME HumanInv, NEW q \in requests, Answered(q)
  PROVE  /\ IsFiniteSet(requests') /\ Cardinality(requests') <= MaxRequests
         /\ requests' \subseteq requests /\ requests' \subseteq RequestRec
         /\ q \in RequestRec
<1>1. requests' \in SUBSET requests /\ IsFiniteSet(requests) /\ MaxRequests \in Nat
  BY FlowAssumption DEF Answered, HumanInv, HumanShape
<1>2. /\ IsFiniteSet(requests') /\ Cardinality(requests') \in Nat
      /\ Cardinality(requests) \in Nat /\ Cardinality(requests') <= Cardinality(requests)
  BY <1>1, FS_Subset, FS_CardinalityType
<1> QED BY <1>1, <1>2 DEF HumanInv, HumanShape

\* Answers reach the page that asked, whatever its form holds by now.
LEMMA AnswerKeeps ==
  ASSUME HumanInv, NEW q \in requests,
         AnswerNormalize(q) \/ AnswerPreview(q) \/ AnswerApprove(q) \/ Refuse(q)
  PROVE  Kept
<1>1. /\ Answered(q) /\ downloads' = downloads /\ saved' = saved /\ page' = page
      /\ tab.draft # 0 /\ tab \in TabRec /\ q \in RequestRec
  BY DEF AnswerNormalize, AnswerPreview, AnswerApprove, Refuse, OnPage, local, HumanInv,
     HumanShape
<1>2. /\ IsFiniteSet(requests') /\ Cardinality(requests') <= MaxRequests
      /\ requests' \subseteq requests /\ requests' \subseteq RequestRec
  BY <1>1, AnsweredLeaves
<1>3. CASE AnswerNormalize(q)
  <2>1. PICK p \in Patches : tab' = [NoTab EXCEPT !.draft = tab.draft, !.patch = p,
                                                  !.normalized = TRUE]
    BY <1>3 DEF AnswerNormalize, Normalized, OnPage
  <2>2. tab' = [draft |-> tab.draft, patch |-> p, normalized |-> TRUE, reviewed |-> None,
                ticked |-> "no", approved |-> None]
    BY <2>1 DEF NoTab
  <2>3. HumanInv'
    BY <1>1, <1>2, <2>2 DEF HumanInv, HumanShape, TicksAreMeant, ApprovedWasConfirmed,
       TabRec, Drawn, Ticks, MaybeProfile
  <2> QED BY <1>1, <1>2, <2>2, <2>3 DEF Kept, Paged
<1>4. CASE AnswerPreview(q)
  <2>1. tab' = [tab EXCEPT !.reviewed = q.patch, !.ticked = "no"] /\ q.kind = "preview"
    BY <1>4 DEF AnswerPreview, Interpretation, OnPage
  <2>2. HumanInv'
    BY <1>1, <1>2, <2>1 DEF HumanInv, HumanShape, TicksAreMeant, ApprovedWasConfirmed,
       TabRec, Ticks, RequestRec
  <2> QED BY <1>1, <1>2, <2>1, <2>2 DEF Kept, Paged, TabRec
<1>5. CASE AnswerApprove(q)
  <2>1. tab' = [tab EXCEPT !.approved = ApprovedProfile(q)]
    BY <1>5 DEF AnswerApprove, OnPage
  <2>2. q.kind = "approve" /\ q.ticked # "no" /\ q.reviewed = q.patch /\ q.patch # None
    BY <1>5 DEF AnswerApprove, Approvable, HumanInv, HumanShape
  <2>3. ApprovedProfile(q) \in Profile
    BY <1>1, <2>2 DEF ApprovedProfile, RequestRec, Profile, Drawn
  <2>4. ApprovedProfile(q).ticked = ApprovedProfile(q).patch
    BY <2>2 DEF ApprovedProfile, HumanInv, TicksAreMeant
  <2>5. HumanShape'
    BY <1>1, <1>2, <2>1, <2>3 DEF HumanInv, HumanShape, TabRec, MaybeProfile
  <2>6. TicksAreMeant'
    BY <1>1, <1>2, <2>1, <2>4 DEF HumanInv, TicksAreMeant, ApprovedWasConfirmed, TabRec
  <2>7. \A d \in Drafts : Paged(d)' => Paged(d)
    BY <1>1, <1>2, <2>1 DEF Paged, TabRec, ApprovedProfile
  <2> QED BY <2>5, <2>6, <2>7 DEF Kept, HumanInv
<1>6. CASE Refuse(q)
  <2>1. tab' = tab
    BY <1>6 DEF Refuse, OnPage
  <2> QED BY <1>1, <1>2, <2>1 DEF Kept, HumanInv, HumanShape, TicksAreMeant,
             ApprovedWasConfirmed, Paged
<1> QED BY <1>3, <1>4, <1>5, <1>6

\* What is downloaded is what the page shows as approved.
LEMMA DownloadKeeps == HumanInv /\ Download => Kept
<1> SUFFICES ASSUME HumanInv, Download PROVE Kept
  OBVIOUS
<1>1. /\ tab.approved # None /\ downloads' = downloads \cup {tab.approved} /\ tab' = tab
      /\ Cardinality(downloads \cup {tab.approved}) <= MaxDownloads
      /\ saved' = saved /\ requests' = requests /\ page' = page
  BY DEF Download, OnPage, local
<1>2. tab.approved \in Profile /\ tab.approved.ticked = tab.approved.patch
  BY <1>1 DEF HumanInv, HumanShape, TabRec, MaybeProfile, TicksAreMeant
<1> QED BY <1>1, <1>2 DEF Kept, HumanInv, HumanShape, TicksAreMeant, ApprovedWasConfirmed,
           Paged

\* A step on the page leaves the scripts and jobs alone.
LEMMA PageKeeps ==
  ASSUME HumanInv, page \in [Versions -> Drafts \cup {0}], Page
  PROVE  Kept /\ UNCHANGED Others
<1>1. UNCHANGED Others
  BY DEF Page, Load, Close, SaveForm, Edit, Tick, Download, ClickNormalize, ClickPreview,
     ClickApprove, AnswerNormalize, AnswerPreview, AnswerApprove, Refuse, Ask, OnPage, Others
<1>2. Kept
  BY LoadKeeps, CloseKeeps, FormKeeps, ClickKeeps, AnswerKeeps, DownloadKeeps DEF Page
<1> QED BY <1>1, <1>2

-------------------------------------------------------------------------------
(* What the steps of scripts and jobs do to the tables.                      *)

Ind == HumanInv /\ ScriptShape /\ JobShape /\ DraftsAreKnown /\ JobsAreBound /\ PublishedAlone

\* A script that goes on keeps what it knows.
LEMMA GoesOn ==
  ASSUME flow \in [Flows -> FlowRec], NEW f \in Flows, NEW at \in FlowAts, Goes(f, at)
  PROVE  /\ flow' \in [Flows -> FlowRec]
         /\ flow'[f].at = at /\ flow'[f].approved = flow[f].approved
         /\ \A g \in Flows : g # f => flow'[g] = flow[g]
BY DEF Goes, FlowRec

\* A script that leaves forgets it.
LEMMA LeavesTo ==
  ASSUME flow \in [Flows -> FlowRec], NEW f \in Flows, NEW at \in FlowAts, Leaves(f, at)
  PROVE  /\ flow' \in [Flows -> FlowRec]
         /\ flow'[f].at = at /\ flow'[f].approved = FALSE
         /\ \A g \in Flows : g # f => flow'[g] = flow[g]
BY DEF Leaves, FlowRec, NoFlow, Modes

\* Steps that touch neither drafts nor pages, and move no script to the page.
LEMMA DraftsFrame ==
  ASSUME DraftsAreKnown, UNCHANGED <<drafts, page, human>>,
         \A g \in Flows :
            /\ dir'[g].focused = dir[g].focused /\ dir'[g].payload = dir[g].payload
            /\ dir'[g].record = dir[g].record
            /\ flow'[g].at \in {"page", "upload", "confirm"} =>
                  flow'[g].at = flow[g].at /\ dir'[g].context = dir[g].context
  PROVE  DraftsAreKnown'
<1>1. \A d \in Drafts : Paged(d)' => Paged(d)
  BY DEF Paged, human
<1> QED BY <1>1 DEF DraftsAreKnown

\* A job without a result of its own publishes nothing.
LEMMA PublishedFrame ==
  ASSUME JobShape, PublishedAlone, UNCHANGED <<published, made>>, NEW f \in Flows,
         job'[f].n = 0, job'[f].at \in {"off", "read"},
         \A g \in Flows : g # f => job'[g] = job[g]
  PROVE  PublishedAlone'
<1>1. pub' = pub /\ last' = last /\ made' = made /\ made \in Nat
  BY FlowAssumption DEF published, JobShape, Runs
<1>2. \A g \in Flows : Publishing(g)' => Publishing(g)
  BY DEF Publishing
<1> QED BY <1>1, <1>2 DEF PublishedAlone

\* Steps that leave the jobs, their inputs and the review alone.
LEMMA JobFrame ==
  ASSUME JobShape, PublishedAlone, UNCHANGED <<inputs, job, published, starts, made>>
  PROVE  JobShape' /\ PublishedAlone'
<1>1. pub' = pub /\ last' = last /\ made' = made /\ job' = job /\ inputs' = inputs
      /\ starts' = starts
  BY DEF published
<1>2. \A g \in Flows : Publishing(g)' <=> Publishing(g)
  BY <1>1 DEF Publishing
<1> QED BY <1>1, <1>2 DEF JobShape, PublishedAlone

\* Steps of scripts and jobs leave the page alone.
LEMMA HumanFrame ==
  ASSUME HumanInv, UNCHANGED human
  PROVE  HumanInv'
BY DEF HumanInv, HumanShape, TicksAreMeant, ApprovedWasConfirmed, human

-------------------------------------------------------------------------------
(* The script.                                                               *)

\* A script starts with nothing approved, and without a job.
LEMMA StartKeeps ==
  ASSUME Ind, NEW f \in Flows, Start(f)
  PROVE  Ind'
<1>1. PICK mode \in Modes, at \in {"logs", "sanitize", "resume"} :
         flow' = [flow EXCEPT ![f] = [at |-> at, mode |-> mode, approved |-> FALSE]]
  BY DEF Start
<1>2. /\ job' = [job EXCEPT ![f] = NoJob] /\ starts' = starts + 1 /\ starts < MaxStarts
      /\ flow[f].at = "off" /\ inputs' = inputs
      /\ UNCHANGED <<source, changes, drafts, dir, page, human, published, made>>
  BY DEF Start, Idle, local
<1>3. ScriptShape /\ JobShape /\ DraftsAreKnown /\ JobsAreBound /\ PublishedAlone
  BY DEF Ind
<1>4. /\ flow' \in [Flows -> FlowRec] /\ flow'[f].at = at /\ flow'[f].approved = FALSE
      /\ \A g \in Flows : g # f => flow'[g] = flow[g]
  BY <1>1, <1>3 DEF ScriptShape, FlowRec, FlowAts
<1>5. NoJob \in JobRec
  BY FlowAssumption DEF NoJob, JobRec, JobAts, MaybeProfile, Runs
<1>6. /\ job' \in [Flows -> JobRec] /\ job'[f] = NoJob
      /\ \A g \in Flows : g # f => job'[g] = job[g]
  BY <1>2, <1>3, <1>5 DEF JobShape
<1>7. ScriptShape'
  BY <1>2, <1>3, <1>4 DEF ScriptShape
<1>8. JobShape'
  BY <1>2, <1>3, <1>6, FlowAssumption DEF JobShape, published
<1>9. DraftsAreKnown'
  BY <1>2, <1>3, <1>4, DraftsFrame
<1>10. JobsAreBound'
  BY <1>2, <1>3, <1>4, <1>6 DEF JobsAreBound, Fits, NoJob
<1>11. PublishedAlone'
  BY <1>2, <1>3, <1>6, PublishedFrame DEF NoJob
<1>12. HumanInv'
  BY <1>2, HumanFrame DEF Ind
<1> QED BY <1>7, <1>8, <1>9, <1>10, <1>11, <1>12 DEF Ind

\* The steps that only move a script.
LEMMA MoveKeeps ==
  ASSUME Ind, NEW f \in Flows, SkipConfirmation(f) \/ CheckPage(f)
  PROVE  Ind'
<1>1. /\ UNCHANGED <<source, changes, drafts, dir, page, human, inputs, job, published,
                     starts, made>>
      /\ flow[f].at \in {"confirm", "check"}
  BY DEF SkipConfirmation, CheckPage, Scripting, local
<1>2. HumanInv /\ ScriptShape /\ JobShape /\ DraftsAreKnown /\ JobsAreBound /\ PublishedAlone
  BY DEF Ind
<1>3. /\ flow' \in [Flows -> FlowRec] /\ flow'[f].at \in {"logs", "off"}
      /\ flow'[f].approved = FALSE
      /\ \A g \in Flows : g # f => flow'[g] = flow[g]
  <2>1. flow \in [Flows -> FlowRec] /\ flow[f].approved = FALSE
    BY <1>1, <1>2 DEF ScriptShape, FlowRec
  <2>2. CASE SkipConfirmation(f)
    BY <2>1, <2>2, GoesOn DEF SkipConfirmation, Scripting, FlowAts
  <2>3. CASE CheckPage(f)
    BY <2>1, <2>3, LeavesTo DEF CheckPage, FlowAts
  <2> QED BY <2>2, <2>3
<1>4. ScriptShape'
  BY <1>1, <1>2, <1>3 DEF ScriptShape
<1>5. JobShape' /\ PublishedAlone'
  BY <1>1, <1>2, JobFrame
<1>6. DraftsAreKnown'
  BY <1>1, <1>2, <1>3, DraftsFrame
<1>7. JobsAreBound'
  BY <1>1, <1>2, <1>3 DEF JobsAreBound, Fits
<1> QED BY <1>1, <1>2, <1>4, <1>5, <1>6, <1>7, HumanFrame DEF Ind

\* A script that stops takes its job with it.
LEMMA StopKeeps ==
  ASSUME Ind, NEW f \in Flows, Stop(f)
  PROVE  Ind'
<1>1. /\ job' = [job EXCEPT ![f] = NoJob]
      /\ UNCHANGED <<source, changes, drafts, dir, page, human, inputs, published, starts, made>>
  BY DEF Stop, local
<1>2. HumanInv /\ ScriptShape /\ JobShape /\ DraftsAreKnown /\ JobsAreBound /\ PublishedAlone
  BY DEF Ind
<1>3. /\ flow' \in [Flows -> FlowRec] /\ flow'[f].at = "off"
      /\ flow'[f].approved = FALSE
      /\ \A g \in Flows : g # f => flow'[g] = flow[g]
  BY <1>2, LeavesTo DEF Stop, FlowAts, ScriptShape
<1>4. NoJob \in JobRec
  BY FlowAssumption DEF NoJob, JobRec, JobAts, MaybeProfile, Runs
<1>5. /\ job' \in [Flows -> JobRec] /\ job'[f] = NoJob
      /\ \A g \in Flows : g # f => job'[g] = job[g]
  BY <1>1, <1>2, <1>4 DEF JobShape
<1>6. ScriptShape'
  BY <1>1, <1>2, <1>3 DEF ScriptShape
<1>7. JobShape'
  BY <1>1, <1>2, <1>5 DEF JobShape, published
<1>8. DraftsAreKnown'
  BY <1>1, <1>2, <1>3, DraftsFrame
<1>9. JobsAreBound'
  BY <1>1, <1>2, <1>3, <1>5 DEF JobsAreBound, Fits, NoJob
<1>10. PublishedAlone'
  BY <1>1, <1>2, <1>5, PublishedFrame DEF NoJob
<1> QED BY <1>1, <1>2, <1>6, <1>7, <1>8, <1>9, <1>10, HumanFrame DEF Ind

\* A job that is about to read its inputs has nothing yet.
LEMMA NewJob ==
  ASSUME NEW p \in BOOLEAN, NEW s \in BOOLEAN, NEW j,
         j = [NoJob EXCEPT !.at = "read", !.useProfile = p, !.useSource = s]
  PROVE  j \in JobRec /\ j.at = "read" /\ j.n = 0 /\ j.approved = None /\ j.useProfile = p
<1>1. 0 \in Runs /\ None \in MaybeProfile /\ "read" \in JobAts
  BY FlowAssumption DEF Runs, MaybeProfile, JobAts
<1> QED BY <1>1 DEF JobRec, NoJob

\* The job of a script may read what the script froze.
LEMMA UploadKeeps ==
  ASSUME Ind, NEW f \in Flows, UploadInputs(f)
  PROVE  Ind'
<1> DEFINE in == [bundle |-> TRUE, source |-> inputs[f].source \/ flow[f].mode # "plain",
                  approved |-> IF flow[f].approved THEN dir[f].frozen
                               ELSE inputs[f].approved]
           s == flow[f].mode # "plain" /\ ~ flow[f].approved
           j == [NoJob EXCEPT !.at = "read", !.useProfile = flow[f].approved,
                              !.useSource = s]
<1>1. /\ inputs' = [inputs EXCEPT ![f] = in] /\ job' = [job EXCEPT ![f] = j]
      /\ UNCHANGED <<source, changes, drafts, dir, page, human, published, starts, made>>
      /\ flow[f].at = "logs"
  BY DEF UploadInputs, local
<1>2. HumanInv /\ ScriptShape /\ JobShape /\ DraftsAreKnown /\ JobsAreBound /\ PublishedAlone
  BY DEF Ind
<1>3. /\ flow' \in [Flows -> FlowRec] /\ flow'[f].at = "job"
      /\ flow'[f].approved = FALSE
      /\ \A g \in Flows : g # f => flow'[g] = flow[g]
  BY <1>2, LeavesTo DEF UploadInputs, FlowAts, ScriptShape
<1>4. flow[f] \in FlowRec /\ dir[f] \in DirRec /\ inputs[f] \in InputRec
  BY <1>2 DEF ScriptShape, JobShape
<1>5. in \in InputRec
  BY <1>4 DEF InputRec, DirRec, FlowRec
<1>6. /\ j \in JobRec /\ j.at = "read" /\ j.n = 0 /\ j.approved = None
      /\ j.useProfile = flow[f].approved
  <2>1. flow[f].approved \in BOOLEAN
    BY <1>4 DEF FlowRec
  <2>2. s \in BOOLEAN
    OBVIOUS
  <2> HIDE DEF s
  <2>3. j = [NoJob EXCEPT !.at = "read", !.useProfile = flow[f].approved, !.useSource = s]
    OBVIOUS
  <2> HIDE DEF j
  <2> QED BY <2>1, <2>2, <2>3, NewJob
<1>7. flow[f].approved => in.approved = dir[f].frozen
  OBVIOUS
<1> HIDE DEF in, j
<1>8. /\ job' \in [Flows -> JobRec] /\ job'[f] = j
      /\ \A g \in Flows : g # f => job'[g] = job[g]
  BY <1>1, <1>2, <1>6 DEF JobShape
<1>9. /\ inputs' \in [Flows -> InputRec] /\ inputs'[f] = in
      /\ \A g \in Flows : g # f => inputs'[g] = inputs[g]
  BY <1>1, <1>2, <1>5 DEF JobShape
<1>10. ScriptShape'
  BY <1>1, <1>2, <1>3 DEF ScriptShape
<1>11. JobShape'
  BY <1>1, <1>2, <1>8, <1>9 DEF JobShape, published
<1>12. DraftsAreKnown'
  BY <1>1, <1>2, <1>3, DraftsFrame
<1>13. JobsAreBound'
  BY <1>1, <1>2, <1>3, <1>6, <1>7, <1>8, <1>9 DEF JobsAreBound, Fits
<1>14. PublishedAlone'
  BY <1>1, <1>2, <1>6, <1>8, PublishedFrame
<1> QED BY <1>1, <1>2, <1>10, <1>11, <1>12, <1>13, <1>14, HumanFrame DEF Ind

\* The working copy of the source changes under everybody.
LEMMA ChangeKeeps ==
  ASSUME Ind, ChangeSource
  PROVE  Ind'
<1>1. /\ source' = 1 - source /\ changes' = changes + 1 /\ changes < MaxChanges
      /\ UNCHANGED <<drafts, dir, page, human, flow, inputs, job, published, starts, made>>
  BY DEF ChangeSource
<1>2. HumanInv /\ ScriptShape /\ JobShape /\ DraftsAreKnown /\ JobsAreBound /\ PublishedAlone
  BY DEF Ind
<1>3. ScriptShape'
  BY <1>1, <1>2, FlowAssumption DEF ScriptShape, Versions
<1>4. JobShape' /\ PublishedAlone'
  BY <1>1, <1>2, JobFrame
<1>5. DraftsAreKnown'
  BY <1>1, <1>2, DraftsFrame
<1>6. JobsAreBound'
  BY <1>1, <1>2 DEF JobsAreBound, Fits
<1> QED BY <1>1, <1>2, <1>3, <1>4, <1>5, <1>6, HumanFrame DEF Ind

\* A script that is not waiting for its job has none to bind, and moves on.
LEMMA BoundWhileScripting ==
  ASSUME JobsAreBound, ScriptShape, NEW f \in Flows, flow[f].at # "job",
         UNCHANGED <<inputs, job>>,
         \A g \in Flows : g # f => dir'[g] = dir[g] /\ flow'[g] = flow[g],
         flow'[f].approved => flow'[f].at = "logs" /\ Fits(f, dir[f].frozen)',
         flow'[f].at # "logs" \/ flow'[f].approved
  PROVE  JobsAreBound'
<1>1. /\ job'[f].at \in {"off", "end"} /\ job'[f].approved = None
  BY DEF JobsAreBound
<1> QED BY <1>1 DEF JobsAreBound, Fits

\* The steps that fill the directory: none of them approves anything.
LEMMA ScriptingMoves ==
  ASSUME Ind, NEW f \in Flows, NEW at \in {"sanitize", "draft", "page", "upload"},
         NEW to \in {"draft", "page", "upload", "confirm", "off"},
         flow[f].at = at, Goes(f, to) \/ Leaves(f, to)
  PROVE  /\ flow' \in [Flows -> FlowRec] /\ flow'[f].at = to
         /\ flow'[f].approved = FALSE /\ flow[f].approved = FALSE
         /\ \A g \in Flows : g # f => flow'[g] = flow[g]
<1>1. flow \in [Flows -> FlowRec] /\ flow[f].approved = FALSE
  BY DEF Ind, ScriptShape, FlowRec
<1>2. to \in FlowAts
  BY DEF FlowAts
<1>3. CASE Goes(f, to)
  BY <1>1, <1>2, <1>3, GoesOn
<1>4. CASE Leaves(f, to)
  BY <1>1, <1>2, <1>4, LeavesTo
<1> QED BY <1>3, <1>4

\* A new context does not touch drafts; the page beside the draft keeps its payload.
LEMMA SanitizeKeeps ==
  ASSUME Ind, NEW f \in Flows, SanitizeSource(f)
  PROVE  Ind'
<1>1. /\ dir' = [dir EXCEPT ![f].context = source] /\ flow[f].at = "sanitize"
      /\ UNCHANGED <<source, changes, drafts, page, human, inputs, job, published,
                     starts, made>>
      /\ Goes(f, "draft")
  BY DEF SanitizeSource, Scripting
<1>2. HumanInv /\ ScriptShape /\ JobShape /\ DraftsAreKnown /\ JobsAreBound /\ PublishedAlone
  BY DEF Ind
<1>3. /\ flow' \in [Flows -> FlowRec] /\ flow'[f].at = "draft"
      /\ flow'[f].approved = FALSE /\ flow[f].approved = FALSE
      /\ \A g \in Flows : g # f => flow'[g] = flow[g]
  BY <1>1, ScriptingMoves
<1>4. /\ dir' \in [Flows -> DirRec] /\ dir'[f].context = source
      /\ dir'[f].focused = dir[f].focused /\ dir'[f].payload = dir[f].payload
      /\ dir'[f].record = dir[f].record
      /\ \A g \in Flows : g # f => dir'[g] = dir[g]
  BY <1>1, <1>2 DEF ScriptShape, DirRec
<1>5. ScriptShape'
  BY <1>1, <1>2, <1>3, <1>4 DEF ScriptShape
<1>6. JobShape' /\ PublishedAlone'
  BY <1>1, <1>2, JobFrame
<1>7. DraftsAreKnown'
  BY <1>1, <1>2, <1>3, <1>4, DraftsFrame
<1>8. JobsAreBound'
  BY <1>1, <1>2, <1>3, <1>4, BoundWhileScripting
<1> QED BY <1>1, <1>2, <1>5, <1>6, <1>7, <1>8, HumanFrame DEF Ind

\* A new draft is in no other directory and on no page.
LEMMA DraftKeeps ==
  ASSUME Ind, NEW f \in Flows, DraftProfile(f)
  PROVE  Ind'
<1>1. /\ Len(drafts) < MaxDrafts /\ drafts' = Append(drafts, dir[f].context)
      /\ dir' = [dir EXCEPT ![f].focused = Len(drafts) + 1] /\ flow[f].at = "draft"
      /\ UNCHANGED <<source, changes, page, human, inputs, job, published, starts, made>>
      /\ Goes(f, "page")
  BY DEF DraftProfile, Scripting
<1>2. HumanInv /\ ScriptShape /\ JobShape /\ DraftsAreKnown /\ JobsAreBound /\ PublishedAlone
  BY DEF Ind
<1>3. /\ flow' \in [Flows -> FlowRec] /\ flow'[f].at = "page"
      /\ flow'[f].approved = FALSE /\ flow[f].approved = FALSE
      /\ \A g \in Flows : g # f => flow'[g] = flow[g]
  BY <1>1, ScriptingMoves
<1>4. /\ Len(drafts) \in Nat /\ MaxDrafts \in Nat /\ Len(drafts) + 1 \in Drafts
      /\ Len(drafts) + 1 \in Focus
  BY <1>1, <1>2, FlowAssumption DEF ScriptShape, Drafts, Focus
<1>5. /\ dir' \in [Flows -> DirRec] /\ dir'[f].focused = Len(drafts) + 1
      /\ dir'[f].context = dir[f].context /\ dir'[f].record = dir[f].record
      /\ \A g \in Flows : g # f => dir'[g] = dir[g]
  BY <1>1, <1>2, <1>4 DEF ScriptShape, DirRec
<1>6. dir[f].context \in Versions
  BY <1>1, <1>2 DEF ScriptShape
<1>7. /\ drafts' \in Seq(Versions) /\ Len(drafts') = Len(drafts) + 1
      /\ drafts'[Len(drafts) + 1] = dir[f].context
      /\ \A d \in 1 .. Len(drafts) : drafts'[d] = drafts[d]
  BY <1>1, <1>2, <1>6 DEF ScriptShape
<1>8. ScriptShape'
  BY <1>1, <1>2, <1>3, <1>4, <1>5, <1>6, <1>7 DEF ScriptShape
<1>9. JobShape' /\ PublishedAlone'
  BY <1>1, <1>2, JobFrame
<1>10. DraftsAreKnown'
  <2>1. \A d \in Drafts : Paged(d)' => Paged(d) /\ d <= Len(drafts)
    BY <1>1, <1>2 DEF Paged, human, DraftsAreKnown
  <2>2. \A d \in Drafts : d \in Nat /\ d >= 1
    BY <1>4 DEF Drafts
  <2>3. \A d \in Drafts : Paged(d)' => Paged(d) /\ d \in 1 .. Len(drafts)
    BY <1>4, <2>1, <2>2
  <2>4. \A d \in Drafts : Paged(d)' => d <= Len(drafts')
    BY <1>4, <1>7, <2>3
  <2>5. ASSUME NEW g \in Flows, NEW d \in Drafts, d = dir'[g].focused
        PROVE  /\ d <= Len(drafts')
               /\ \A h \in Flows : dir'[h].focused = d => h = g
               /\ Paged(d)' => dir'[g].payload = drafts'[d]
    <3>1. CASE g = f
      <4>1. d = Len(drafts) + 1
        BY <1>5, <2>5, <3>1
      <4>2. \A h \in Flows : h # f => dir[h].focused # d
        BY <1>2, <1>4, <2>5, <4>1 DEF DraftsAreKnown
      <4> QED BY <1>4, <1>5, <1>7, <2>3, <3>1, <4>1, <4>2
    <3>2. CASE g # f
      <4>1. /\ dir'[g] = dir[g] /\ d <= Len(drafts)
            /\ \A h \in Flows : dir[h].focused = d => h = g
            /\ Paged(d) => dir[g].payload = drafts[d]
        BY <1>2, <1>5, <2>5, <3>2 DEF DraftsAreKnown
      <4>2. d \in 1 .. Len(drafts) /\ d # Len(drafts) + 1
        BY <1>4, <2>2, <4>1
      <4>3. \A h \in Flows : dir'[h].focused = d => h = g
        BY <1>5, <4>1, <4>2
      <4> QED BY <1>4, <1>7, <2>3, <4>1, <4>2, <4>3
    <3> QED BY <3>1, <3>2
  <2>6. ASSUME NEW g \in Flows, flow'[g].at \in {"page", "upload", "confirm"}
        PROVE  /\ dir'[g].focused \in Drafts
               /\ drafts'[dir'[g].focused] = dir'[g].context
               /\ flow'[g].at # "page" => dir'[g].payload = dir'[g].context
    <3>1. CASE g = f
      BY <1>3, <1>4, <1>5, <1>7, <3>1
    <3>2. CASE g # f
      <4>1. /\ dir'[g] = dir[g] /\ flow'[g] = flow[g]
            /\ dir[g].focused \in Drafts /\ dir[g].focused <= Len(drafts)
            /\ drafts[dir[g].focused] = dir[g].context
            /\ flow[g].at # "page" => dir[g].payload = dir[g].context
        BY <1>2, <1>3, <1>5, <2>6, <3>2 DEF DraftsAreKnown
      <4>2. dir[g].focused \in 1 .. Len(drafts)
        BY <1>4, <2>2, <4>1
      <4> QED BY <1>7, <4>1, <4>2
    <3> QED BY <3>1, <3>2
  <2>7. ASSUME NEW g \in Flows, dir'[g].record # None
        PROVE  /\ dir'[g].record.draft \in 1 .. Len(drafts')
               /\ dir'[g].record.focused # Torn =>
                     drafts'[dir'[g].record.draft] = dir'[g].record.source
    <3>1. dir'[g].record = dir[g].record
      BY <1>5
    <3>2. /\ dir[g].record.draft \in 1 .. Len(drafts)
          /\ dir[g].record.focused # Torn =>
                drafts[dir[g].record.draft] = dir[g].record.source
      BY <1>2, <2>7, <3>1 DEF DraftsAreKnown
    <3> QED BY <1>4, <1>7, <3>1, <3>2
  <2> QED BY <2>4, <2>5, <2>6, <2>7 DEF DraftsAreKnown
<1>11. JobsAreBound'
  BY <1>1, <1>2, <1>3, <1>5, BoundWhileScripting
<1> QED BY <1>1, <1>2, <1>8, <1>9, <1>10, <1>11, HumanFrame DEF Ind

\* A torn profile is no draft.
LEMMA TearKeeps ==
  ASSUME Ind, NEW f \in Flows, TearProfile(f)
  PROVE  Ind'
<1>1. /\ dir' = [dir EXCEPT ![f].focused = Torn] /\ flow[f].at = "draft"
      /\ UNCHANGED <<source, changes, drafts, page, human, inputs, job, published,
                     starts, made>>
      /\ Leaves(f, "off")
  BY DEF TearProfile
<1>2. HumanInv /\ ScriptShape /\ JobShape /\ DraftsAreKnown /\ JobsAreBound /\ PublishedAlone
  BY DEF Ind
<1>3. /\ flow' \in [Flows -> FlowRec] /\ flow'[f].at = "off"
      /\ flow'[f].approved = FALSE /\ flow[f].approved = FALSE
      /\ \A g \in Flows : g # f => flow'[g] = flow[g]
  BY <1>1, ScriptingMoves
<1>4. Torn \in Focus /\ Torn \notin Drafts
  BY FlowAssumption DEF Focus, Torn, Drafts
<1>5. /\ dir' \in [Flows -> DirRec] /\ dir'[f].focused = Torn
      /\ dir'[f].record = dir[f].record
      /\ \A g \in Flows : g # f => dir'[g] = dir[g]
  BY <1>1, <1>2, <1>4 DEF ScriptShape, DirRec
<1>6. ScriptShape'
  BY <1>1, <1>2, <1>3, <1>5 DEF ScriptShape
<1>7. JobShape' /\ PublishedAlone'
  BY <1>1, <1>2, JobFrame
<1>8. DraftsAreKnown'
  <2>1. \A d \in Drafts : Paged(d)' => Paged(d)
    BY <1>1 DEF Paged, human
  <2> QED BY <1>1, <1>2, <1>3, <1>4, <1>5, <2>1 DEF DraftsAreKnown
<1>9. JobsAreBound'
  BY <1>1, <1>2, <1>3, <1>5, BoundWhileScripting
<1> QED BY <1>1, <1>2, <1>6, <1>7, <1>8, <1>9, HumanFrame DEF Ind

\* The payload beside a fresh draft is of the source of that draft.
LEMMA WritePageKeeps ==
  ASSUME Ind, NEW f \in Flows, WritePage(f)
  PROVE  Ind'
<1>1. /\ dir' = [dir EXCEPT ![f].payload = dir[f].context] /\ flow[f].at = "page"
      /\ UNCHANGED <<source, changes, drafts, page, human, inputs, job, published,
                     starts, made>>
      /\ Goes(f, "upload")
  BY DEF WritePage, Scripting
<1>2. HumanInv /\ ScriptShape /\ JobShape /\ DraftsAreKnown /\ JobsAreBound /\ PublishedAlone
  BY DEF Ind
<1>3. /\ flow' \in [Flows -> FlowRec] /\ flow'[f].at = "upload"
      /\ flow'[f].approved = FALSE /\ flow[f].approved = FALSE
      /\ \A g \in Flows : g # f => flow'[g] = flow[g]
  BY <1>1, ScriptingMoves
<1>4. /\ dir' \in [Flows -> DirRec] /\ dir'[f].payload = dir[f].context
      /\ dir'[f].context = dir[f].context /\ dir'[f].focused = dir[f].focused
      /\ dir'[f].record = dir[f].record
      /\ \A g \in Flows : g # f => dir'[g] = dir[g]
  BY <1>1, <1>2 DEF ScriptShape, DirRec
<1>5. dir[f].focused \in Drafts /\ drafts[dir[f].focused] = dir[f].context
  BY <1>1, <1>2 DEF DraftsAreKnown
<1>6. ScriptShape'
  BY <1>1, <1>2, <1>3, <1>4, <1>5 DEF ScriptShape
<1>7. JobShape' /\ PublishedAlone'
  BY <1>1, <1>2, JobFrame
<1>8. DraftsAreKnown'
  <2>1. \A d \in Drafts : Paged(d)' => Paged(d)
    BY <1>1 DEF Paged, human
  <2> QED BY <1>1, <1>2, <1>3, <1>4, <1>5, <2>1 DEF DraftsAreKnown
<1>9. JobsAreBound'
  BY <1>1, <1>2, <1>3, <1>4, BoundWhileScripting
<1> QED BY <1>1, <1>2, <1>6, <1>7, <1>8, <1>9, HumanFrame DEF Ind

\* The page of a source shows the draft of the script that published it last.
LEMMA UploadPageKeeps ==
  ASSUME Ind, NEW f \in Flows, UploadPage(f)
  PROVE  Ind'
<1>1. /\ page' = [page EXCEPT ![dir[f].context] = dir[f].focused] /\ flow[f].at = "upload"
      /\ UNCHANGED <<source, changes, drafts, dir, human, inputs, job, published,
                     starts, made>>
      /\ Goes(f, "confirm")
  BY DEF UploadPage, Scripting
<1>2. HumanInv /\ ScriptShape /\ JobShape /\ DraftsAreKnown /\ JobsAreBound /\ PublishedAlone
  BY DEF Ind
<1>3. /\ flow' \in [Flows -> FlowRec] /\ flow'[f].at = "confirm"
      /\ flow'[f].approved = FALSE /\ flow[f].approved = FALSE
      /\ \A g \in Flows : g # f => flow'[g] = flow[g]
  BY <1>1, ScriptingMoves
<1>4. /\ dir[f].focused \in Drafts /\ dir[f].focused <= Len(drafts)
      /\ drafts[dir[f].focused] = dir[f].context /\ dir[f].payload = dir[f].context
      /\ dir[f].context \in Versions
  BY <1>1, <1>2 DEF DraftsAreKnown, ScriptShape
<1>5. page' \in [Versions -> Drafts \cup {0}]
  BY <1>1, <1>2, <1>4 DEF ScriptShape
<1>6. ScriptShape'
  BY <1>1, <1>2, <1>3, <1>4, <1>5 DEF ScriptShape
<1>7. JobShape' /\ PublishedAlone'
  BY <1>1, <1>2, JobFrame
<1>8. DraftsAreKnown'
  <2>1. \A d \in Drafts : Paged(d)' => Paged(d) \/ d = dir[f].focused
    BY <1>1, <1>2 DEF Paged, human, ScriptShape
  <2> QED BY <1>1, <1>2, <1>3, <1>4, <2>1 DEF DraftsAreKnown
<1>9. JobsAreBound'
  BY <1>1, <1>2, <1>3, BoundWhileScripting
<1> QED BY <1>1, <1>2, <1>6, <1>7, <1>8, <1>9, HumanFrame DEF Ind

\* A frozen profile is bound to the focused one; what is recorded beside it is the
\* source of its draft.
LEMMA FreezeKeeps ==
  ASSUME Ind, NEW f \in Flows, NEW p \in downloads, NEW from \in {"confirm", "resume"},
         NEW record \in BOOLEAN, Freeze(f, p, from, record),
         from = "resume" => Resumable(f)
  PROVE  Ind'
<1>1. /\ Bound(f, p) /\ flow[f].at = from
      /\ flow' = [flow EXCEPT ![f].at = "logs", ![f].approved = TRUE]
      /\ dir' = [dir EXCEPT ![f].frozen = p,
                            ![f].record = IF record THEN Record(f, p) ELSE @]
      /\ UNCHANGED <<source, changes, drafts, page, human, inputs, job, published,
                     starts, made>>
  BY DEF Freeze
<1>2. HumanInv /\ ScriptShape /\ JobShape /\ DraftsAreKnown /\ JobsAreBound /\ PublishedAlone
  BY DEF Ind
<1>3. p \in Profile /\ p.draft \in Drafts /\ p.draft <= Len(drafts)
  BY <1>2 DEF HumanInv, HumanShape, Profile, DraftsAreKnown, Paged
<1>4. /\ flow' \in [Flows -> FlowRec] /\ flow'[f].at = "logs" /\ flow'[f].approved
      /\ \A g \in Flows : g # f => flow'[g] = flow[g]
  BY <1>1, <1>2 DEF ScriptShape, FlowRec, FlowAts
<1>5. Record(f, p) \in ApprovalRecord /\ p \in MaybeProfile
  BY <1>2, <1>3 DEF Record, ApprovalRecord, ScriptShape, DirRec, MaybeProfile
<1>6. /\ dir' \in [Flows -> DirRec] /\ dir'[f].frozen = p
      /\ dir'[f].context = dir[f].context /\ dir'[f].focused = dir[f].focused
      /\ dir'[f].payload = dir[f].payload
      /\ dir'[f].record \in {Record(f, p), dir[f].record}
      /\ \A g \in Flows : g # f => dir'[g] = dir[g]
  BY <1>1, <1>2, <1>5 DEF ScriptShape, DirRec
<1>7. ScriptShape'
  BY <1>1, <1>2, <1>3, <1>4, <1>6 DEF ScriptShape
<1>8. JobShape' /\ PublishedAlone'
  BY <1>1, <1>2, JobFrame
<1>9. /\ Record(f, p).draft \in 1 .. Len(drafts)
      /\ Record(f, p).focused # Torn => drafts[Record(f, p).draft] = Record(f, p).source
  <2>1. Record(f, p).draft = p.draft /\ Record(f, p).focused = dir[f].focused
        /\ Record(f, p).source = dir[f].context
    BY DEF Record
  <2>2. p.draft \in 1 .. Len(drafts)
    BY <1>2, <1>3, FlowAssumption DEF Drafts, ScriptShape
  <2>3. ASSUME dir[f].focused # Torn PROVE drafts[p.draft] = dir[f].context
    <3>1. p.draft = dir[f].focused
      BY <1>1, <2>3 DEF Bound
    <3>2. CASE from = "confirm"
      BY <1>1, <1>2, <3>1, <3>2 DEF DraftsAreKnown
    <3>3. CASE from = "resume"
      <4>1. Paged(p.draft)
        BY DEF Paged
      <4> QED BY <1>2, <1>3, <3>1, <3>3, <4>1 DEF DraftsAreKnown, Resumable
    <3> QED BY <3>2, <3>3
  <2> QED BY <2>1, <2>2, <2>3
<1>10. DraftsAreKnown'
  <2>1. \A d \in Drafts : Paged(d)' => Paged(d)
    BY <1>1 DEF Paged, human
  <2> QED BY <1>1, <1>2, <1>4, <1>6, <1>9, <2>1 DEF DraftsAreKnown
<1>11. JobsAreBound'
  <2>1. Fits(f, dir[f].frozen)'
    BY <1>1, <1>6 DEF Bound, Fits
  <2> QED BY <1>1, <1>2, <1>4, <1>6, <2>1, BoundWhileScripting
<1> QED BY <1>1, <1>2, <1>7, <1>8, <1>10, <1>11, HumanFrame DEF Ind

-------------------------------------------------------------------------------
(* The job.                                                                  *)

\* A job by hand runs on what is there, and binds nobody.
LEMMA LaunchKeeps ==
  ASSUME Ind, NEW f \in Flows, Launch(f)
  PROVE  Ind'
<1>1. PICK p \in BOOLEAN, s \in BOOLEAN :
         job' = [job EXCEPT ![f] = [NoJob EXCEPT !.at = "read", !.byHand = TRUE,
                                                 !.useProfile = p, !.useSource = s]]
  BY DEF Launch
<1> DEFINE j == [NoJob EXCEPT !.at = "read", !.byHand = TRUE, !.useProfile = p,
                              !.useSource = s]
<1>2. /\ UNCHANGED <<source, changes, drafts, dir, page, human, inputs, published, made>>
      /\ flow[f].at = "off" /\ Goes(f, "job") /\ starts' = starts + 1 /\ starts < MaxStarts
  BY DEF Launch, Idle, local
<1>3. HumanInv /\ ScriptShape /\ JobShape /\ DraftsAreKnown /\ JobsAreBound /\ PublishedAlone
  BY DEF Ind
<1>4. /\ flow' \in [Flows -> FlowRec] /\ flow'[f].at = "job" /\ flow'[f].approved = FALSE
      /\ \A g \in Flows : g # f => flow'[g] = flow[g]
  <2>1. flow \in [Flows -> FlowRec] /\ flow[f].approved = FALSE
    BY <1>2, <1>3 DEF ScriptShape, FlowRec
  <2> QED BY <1>2, <2>1, GoesOn DEF FlowAts
<1>5. 0 \in Runs /\ None \in MaybeProfile /\ "read" \in JobAts
  BY FlowAssumption DEF Runs, MaybeProfile, JobAts
<1>6. j \in JobRec /\ j.at = "read" /\ j.n = 0 /\ j.approved = None /\ j.byHand
  BY <1>5 DEF JobRec, NoJob
<1>7. job' = [job EXCEPT ![f] = j]
  BY <1>1
<1> HIDE DEF j
<1>8. /\ job' \in [Flows -> JobRec] /\ job'[f] = j
      /\ \A g \in Flows : g # f => job'[g] = job[g]
  BY <1>3, <1>6, <1>7 DEF JobShape
<1>9. ScriptShape'
  BY <1>2, <1>3, <1>4 DEF ScriptShape
<1>10. JobShape'
  BY <1>2, <1>3, <1>8, FlowAssumption DEF JobShape, published
<1>11. DraftsAreKnown'
  BY <1>2, <1>3, <1>4, DraftsFrame
<1>12. JobsAreBound'
  BY <1>2, <1>3, <1>4, <1>6, <1>8 DEF JobsAreBound, Fits
<1>13. PublishedAlone'
  BY <1>2, <1>3, <1>6, <1>8, PublishedFrame
<1> QED BY <1>2, <1>3, <1>9, <1>10, <1>11, <1>12, <1>13, HumanFrame DEF Ind

\* What a step of a running job leaves alone.
LEMMA WorkingFrame ==
  ASSUME Ind, UNCHANGED <<local, human, inputs, starts>>,
         \/ UNCHANGED flow
         \/ /\ flow' \in [Flows -> FlowRec]
            /\ \E f \in Flows :
                  /\ flow'[f].at \in {"off", "check"} /\ flow'[f].approved = FALSE
                  /\ \A g \in Flows : g # f => flow'[g] = flow[g]
  PROVE  HumanInv' /\ ScriptShape' /\ DraftsAreKnown'
<1>1. /\ UNCHANGED <<source, changes, drafts, dir, page>>
      /\ HumanInv /\ ScriptShape /\ DraftsAreKnown
  BY DEF local, Ind
<1>2. ScriptShape'
  BY <1>1 DEF ScriptShape
<1>3. DraftsAreKnown'
  BY <1>1, DraftsFrame
<1> QED BY <1>1, <1>2, <1>3, HumanFrame

\* A job reads what its environment names: a profile or the source.
LEMMA ReadKeeps ==
  ASSUME Ind, NEW f \in Flows, ReadInputs(f)
  PROVE  Ind'
<1> DEFINE j == [job[f] EXCEPT !.at = "run", !.source = job[f].useSource,
                 !.approved = IF job[f].useProfile THEN inputs[f].approved ELSE None]
<1>1. /\ job' = [job EXCEPT ![f] = j] /\ job[f].at = "read"
      /\ ~ (job[f].useProfile /\ job[f].useSource)
      /\ UNCHANGED <<local, human, inputs, starts, flow, published, made>>
  BY DEF ReadInputs, Working, Admitted
<1>2. HumanInv /\ ScriptShape /\ JobShape /\ DraftsAreKnown /\ JobsAreBound /\ PublishedAlone
  BY DEF Ind
<1>3. job[f] \in JobRec /\ inputs[f] \in InputRec /\ None \in MaybeProfile /\ "run" \in JobAts
  BY <1>2 DEF JobShape, MaybeProfile, JobAts
<1>4. /\ j \in JobRec /\ j.at = "run" /\ j.n = job[f].n /\ j.byHand = job[f].byHand
      /\ j.source = job[f].useSource
      /\ job[f].useProfile => j.approved = inputs[f].approved
      /\ ~ job[f].useProfile => j.approved = None
  BY <1>3 DEF JobRec, InputRec
<1> HIDE DEF j
<1>5. /\ job' \in [Flows -> JobRec] /\ job'[f] = j
      /\ \A g \in Flows : g # f => job'[g] = job[g]
  BY <1>1, <1>2, <1>4 DEF JobShape
<1>6. JobShape'
  BY <1>1, <1>2, <1>5 DEF JobShape, published
<1>7. JobsAreBound'
  BY <1>1, <1>2, <1>4, <1>5 DEF JobsAreBound, Fits, local
<1>8. PublishedAlone'
  <2>1. \A g \in Flows : Publishing(g)' => Publishing(g)
    BY <1>4, <1>5 DEF Publishing
  <2> QED BY <1>1, <1>2, <1>4, <1>5, <2>1 DEF PublishedAlone, published
<1> QED BY <1>1, <1>6, <1>7, <1>8, WorkingFrame DEF Ind

\* Steps of a job that is past its inputs, and of its publishing, bind nothing new.
LEMMA JobsFrame ==
  ASSUME Ind, UNCHANGED <<local, inputs, flow>>,
         \A g \in Flows :
            /\ job'[g].byHand = job[g].byHand \/ job'[g].approved = None
            /\ job'[g].approved # None =>
                  job'[g].approved = job[g].approved /\ job'[g].source = job[g].source
            /\ job'[g].at = job[g].at \/ /\ job[g].at \notin {"off", "end"}
                                         /\ job'[g].at \notin {"off", "read", "end"}
            /\ job'[g].at = "read" =>
                  job'[g].useProfile = job[g].useProfile /\ job'[g].byHand = job[g].byHand
            /\ job'[g].at \in {"off", "read", "end"} => job'[g].approved = None
  PROVE  JobsAreBound'
BY DEF Ind, JobsAreBound, Fits, local

\* A result has a number nobody has.
LEMMA RunKeeps ==
  ASSUME Ind, NEW f \in Flows, RunReview(f)
  PROVE  Ind'
<1> DEFINE j == [job[f] EXCEPT !.at = "precomputed", !.n = made + 1]
<1>1. /\ job' = [job EXCEPT ![f].at = "precomputed", ![f].n = made + 1] /\ job[f].at = "run"
      /\ made' = made + 1 /\ made < MaxReviews
      /\ UNCHANGED <<local, human, inputs, starts, flow, published>>
  BY DEF RunReview, Working
<1>2. HumanInv /\ ScriptShape /\ JobShape /\ DraftsAreKnown /\ JobsAreBound /\ PublishedAlone
  BY DEF Ind
<1>3. /\ job[f] \in JobRec /\ made \in Nat /\ made + 1 \in Runs /\ "precomputed" \in JobAts
      /\ \A g \in Flows : job[g].n \in Nat
      /\ last \in Nat
  BY <1>1, <1>2, FlowAssumption DEF JobShape, JobRec, Runs, JobAts
<1>4. /\ j \in JobRec /\ j.at = "precomputed" /\ j.n = made + 1 /\ j.byHand = job[f].byHand
      /\ j.source = job[f].source /\ j.approved = job[f].approved
  BY <1>3 DEF JobRec
<1>5. /\ job' \in [Flows -> JobRec] /\ job'[f] = j
      /\ \A g \in Flows : g # f => job'[g] = job[g]
  <2>1. job' = [job EXCEPT ![f] = j]
    BY <1>1, <1>2 DEF JobShape
  <2> HIDE DEF j
  <2> QED BY <1>2, <1>4, <2>1 DEF JobShape
<1> HIDE DEF j
<1>6. JobShape'
  BY <1>1, <1>2, <1>3, <1>5 DEF JobShape, published
<1>7. JobsAreBound'
  BY <1>1, <1>2, <1>4, <1>5, JobsFrame DEF JobsAreBound
<1>8. PublishedAlone'
  <2>1. \A g \in Flows : Publishing(g)' <=> Publishing(g)
    BY <1>1, <1>4, <1>5 DEF Publishing
  <2>2. last' = last /\ pub' = pub
    BY <1>1 DEF published
  <2> QED BY <1>1, <1>2, <1>3, <1>4, <1>5, <2>1, <2>2 DEF PublishedAlone
<1> QED BY <1>1, <1>6, <1>7, <1>8, WorkingFrame DEF Ind

\* A job that begins to publish is the last one, alone if no other publishes.
LEMMA PrecomputedKeeps ==
  ASSUME Ind, NEW f \in Flows, WritePrecomputed(f)
  PROVE  Ind'
<1>1. /\ job[f].at = "precomputed" /\ last' = job[f].n
      /\ pub' = [pub EXCEPT !["precomputed"] = job[f].n]
      /\ UNCHANGED <<local, human, inputs, starts, flow, made>>
      /\ job' = [g \in Flows |->
          IF g = f THEN [job[f] EXCEPT !.at = "index",
                            !.alone = \A h \in Flows \ {f} : ~ Publishing(h)]
          ELSE IF job[g].at = "end" THEN [NoJob EXCEPT !.at = "end"]
          ELSE [job[g] EXCEPT !.alone = @ /\ ~ Publishing(g)]]
  BY DEF WritePrecomputed, Working, Publishes
<1>2. HumanInv /\ ScriptShape /\ JobShape /\ DraftsAreKnown /\ JobsAreBound /\ PublishedAlone
  BY DEF Ind
<1>3. /\ job \in [Flows -> JobRec] /\ 0 \in Runs /\ None \in MaybeProfile
      /\ "index" \in JobAts /\ "end" \in JobAts
  BY <1>2, FlowAssumption DEF JobShape, JobRec, Runs, JobAts, MaybeProfile
<1>4. /\ job'[f] \in JobRec /\ job'[f].at = "index" /\ job'[f].n = job[f].n
      /\ job'[f].byHand = job[f].byHand /\ job'[f].source = job[f].source
      /\ job'[f].approved = job[f].approved
      /\ job'[f].alone => \A h \in Flows \ {f} : ~ Publishing(h)
  <2> DEFINE a == \A h \in Flows \ {f} : ~ Publishing(h)
  <2>1. a \in BOOLEAN
    OBVIOUS
  <2>2. job'[f] = [job[f] EXCEPT !.at = "index", !.alone = a]
    BY <1>1
  <2>3. a => \A h \in Flows \ {f} : ~ Publishing(h)
    OBVIOUS
  <2> HIDE DEF a
  <2>4. /\ job'[f] \in JobRec /\ job'[f].at = "index" /\ job'[f].n = job[f].n
        /\ job'[f].byHand = job[f].byHand /\ job'[f].source = job[f].source
        /\ job'[f].approved = job[f].approved
    BY <1>3, <2>1, <2>2 DEF JobRec
  <2>5. job'[f].alone => a
    BY <1>3, <2>1, <2>2 DEF JobRec
  <2> QED BY <2>3, <2>4, <2>5
<1>5. ASSUME NEW g \in Flows, g # f, job[g].at = "end"
      PROVE  /\ job'[g] \in JobRec /\ job'[g].at = "end" /\ job'[g].n = 0
             /\ job'[g].approved = None /\ job'[g].alone = FALSE
  <2>1. job'[g] = [NoJob EXCEPT !.at = "end"]
    BY <1>1, <1>5
  <2> QED BY <1>3, <2>1 DEF NoJob, JobRec
<1>6. ASSUME NEW g \in Flows, g # f, job[g].at # "end"
      PROVE  /\ job'[g] \in JobRec /\ job'[g].at = job[g].at /\ job'[g].n = job[g].n
             /\ job'[g].byHand = job[g].byHand /\ job'[g].source = job[g].source
             /\ job'[g].useProfile = job[g].useProfile
             /\ job'[g].approved = job[g].approved
  <2> DEFINE a == job[g].alone /\ ~ Publishing(g)
  <2>1. a \in BOOLEAN
    OBVIOUS
  <2>2. job'[g] = [job[g] EXCEPT !.alone = a]
    BY <1>1, <1>6
  <2> HIDE DEF a
  <2> QED BY <1>3, <2>1, <2>2 DEF JobRec
<1>7. /\ job' \in [Flows -> JobRec] /\ pub' \in [Parts -> Runs] /\ last' \in Runs
      /\ pub'["precomputed"] = job[f].n
  <2>1. \A g \in Flows : job'[g] \in JobRec
    BY <1>4, <1>5, <1>6
  <2>2. job[f].n \in Runs
    BY <1>3 DEF JobRec
  <2> QED BY <1>1, <1>2, <2>1, <2>2 DEF JobShape, Parts
<1>8. JobShape'
  BY <1>1, <1>2, <1>7 DEF JobShape
<1>9. JobsAreBound'
  <2>1. /\ job[f].at \notin {"off", "end"} /\ job'[f].at \notin {"off", "read", "end"}
        /\ job'[f].byHand = job[f].byHand /\ job'[f].source = job[f].source
        /\ job'[f].approved = job[f].approved
    BY <1>1, <1>4
  <2>2. ASSUME NEW g \in Flows, g # f
        PROVE  /\ job'[g].at = job[g].at
               /\ job[g].at \in {"off", "read", "end"} => job'[g].approved = None
               /\ \/ job'[g].approved = None /\ job[g].at = "end"
                  \/ /\ job'[g].byHand = job[g].byHand /\ job'[g].source = job[g].source
                     /\ job'[g].useProfile = job[g].useProfile
                     /\ job'[g].approved = job[g].approved
    BY <1>2, <1>5, <1>6, <2>2 DEF JobsAreBound
  <2>3. flow' = flow /\ dir' = dir /\ inputs' = inputs
    BY <1>1 DEF local
  <2> QED BY <1>2, <2>1, <2>2, <2>3 DEF JobsAreBound, Fits
<1>10. PublishedAlone'
  <2>1. \A g \in Flows \ {f} : Publishing(g)' => Publishing(g)
    BY <1>5, <1>6 DEF Publishing
  <2>2. job[f].n # 0 /\ \A g \in Flows \ {f} : job[f].n # job[g].n
    BY <1>1, <1>2 DEF PublishedAlone
  <2>3. \A g \in Flows \ {f} : job'[g].n \in {0, job[g].n} /\ job'[g].at = job[g].at
    BY <1>5, <1>6
  <2>4. \A g \in Flows \ {f} : job'[g].n # last'
    BY <1>1, <2>2, <2>3
  <2>5. made \in Nat /\ last' <= made' /\ \A g \in Flows : job'[g].n <= made'
    <3>1. made \in Nat
      BY <1>2, FlowAssumption DEF JobShape, Runs
    <3>2. \A g \in Flows : job[g].n <= made
      BY <1>2 DEF PublishedAlone
    <3>3. \A g \in Flows : job'[g].n \in {0, job[g].n}
      BY <1>4, <2>3
    <3>4. made' = made /\ last' = job[f].n
      BY <1>1
    <3> QED BY <3>1, <3>2, <3>3, <3>4
  <2>6. \A g \in Flows : job'[g].at \in {"precomputed", "index", "report", "payload", "result"}
           => job'[g].n # 0
    <3>1. job'[f].n # 0
      BY <1>4, <2>2
    <3>2. ASSUME NEW g \in Flows \ {f}, job[g].at = "end" PROVE job'[g].at = "end"
      BY <1>5, <3>2
    <3>3. ASSUME NEW g \in Flows \ {f}, job[g].at # "end"
          PROVE  job'[g].at = job[g].at /\ job'[g].n = job[g].n
      BY <1>6, <3>3
    <3>4. \A g \in Flows :
             job[g].at \in {"precomputed", "index", "report", "payload", "result"}
               => job[g].n # 0
      BY <1>2 DEF PublishedAlone
    <3> QED BY <3>1, <3>2, <3>3, <3>4
  <2>7. \A g \in Flows : \A h \in Flows \ {g} : job'[g].n # 0 => job'[g].n # job'[h].n
    BY <1>2, <1>4, <2>2, <2>3 DEF PublishedAlone
  <2>8. job'[f].alone =>
           /\ \A g \in Flows \ {f} : ~ Publishing(g)'
           /\ \A part \in Written(job'[f].at) : pub'[part] = last'
    BY <1>1, <1>4, <1>7, <2>1 DEF Written
  <2> QED BY <2>4, <2>5, <2>6, <2>7, <2>8 DEF PublishedAlone
<1> QED BY <1>1, <1>8, <1>9, <1>10, WorkingFrame DEF Ind

\* The other objects are written one after the other.
LEMMA WriteKeeps ==
  ASSUME Ind, NEW f \in Flows,
         NEW at \in {"index", "report", "payload"},
         NEW to \in {"report", "payload", "result"},
         Written(to) = Written(at) \cup {at},
         Working(f, at), Publishes(f, at), Turns(f, to), UNCHANGED <<flow, last, made>>
  PROVE  Ind'
<1>1. /\ job[f].at = at /\ pub' = [pub EXCEPT ![at] = job[f].n]
      /\ job' = [job EXCEPT ![f].at = to]
      /\ UNCHANGED <<local, human, inputs, starts, flow, last, made>>
  BY DEF Working, Publishes, Turns
<1>2. HumanInv /\ ScriptShape /\ JobShape /\ DraftsAreKnown /\ JobsAreBound /\ PublishedAlone
  BY DEF Ind
<1>3. job[f] \in JobRec /\ to \in JobAts /\ at \in Parts /\ job[f].n \in Runs
  BY <1>2 DEF JobShape, JobRec, JobAts, Parts
<1>4. /\ job' \in [Flows -> JobRec] /\ job'[f].at = to /\ job'[f].n = job[f].n
      /\ job'[f].byHand = job[f].byHand /\ job'[f].source = job[f].source
      /\ job'[f].approved = job[f].approved /\ job'[f].alone = job[f].alone
      /\ \A g \in Flows : g # f => job'[g] = job[g]
  BY <1>1, <1>2, <1>3 DEF JobShape, JobRec
<1>5. /\ pub' \in [Parts -> Runs] /\ pub'[at] = job[f].n
      /\ \A part \in Parts : part # at => pub'[part] = pub[part]
  BY <1>1, <1>2, <1>3 DEF JobShape
<1>6. JobShape'
  BY <1>1, <1>2, <1>4, <1>5 DEF JobShape
<1>7. JobsAreBound'
  BY <1>1, <1>2, <1>4, JobsFrame DEF JobsAreBound
<1>8. PublishedAlone'
  <2>1. \A g \in Flows : Publishing(g)' => Publishing(g)
    BY <1>1, <1>4 DEF Publishing
  <2>2. Publishing(f)
    BY <1>1 DEF Publishing
  <2>3. Written(at) \subseteq Parts /\ Written(to) \subseteq Parts
    BY <1>3 DEF Written, Parts
  <2>4. job'[f].alone /\ job'[f].n = last' =>
           /\ \A g \in Flows \ {f} : ~ Publishing(g)'
           /\ \A part \in Written(job'[f].at) : pub'[part] = last'
    BY <1>1, <1>2, <1>4, <1>5, <2>1, <2>3 DEF PublishedAlone
  <2>5. ASSUME NEW g \in Flows \ {f},
               job[g].at \in {"index", "report", "payload", "result", "end"},
               job[g].alone, job[g].n = last
        PROVE  FALSE
    BY <1>2, <2>2, <2>5 DEF PublishedAlone
  <2> QED BY <1>1, <1>2, <1>4, <2>4, <2>5 DEF PublishedAlone
<1> QED BY <1>1, <1>6, <1>7, <1>8, WorkingFrame DEF Ind

\* A job that ends keeps what it published; its script goes on, or was a hand.
LEMMA ResultKeeps ==
  ASSUME Ind, NEW f \in Flows, WriteResult(f)
  PROVE  Ind'
<1> DEFINE j == [NoJob EXCEPT !.at = "end", !.n = job[f].n, !.alone = job[f].alone]
<1>1. /\ job[f].at = "result" /\ job' = [job EXCEPT ![f] = j]
      /\ UNCHANGED <<local, human, inputs, starts, pub, last, made>>
      /\ Leaves(f, "off") \/ Goes(f, "check")
  BY DEF WriteResult, Working
<1>2. HumanInv /\ ScriptShape /\ JobShape /\ DraftsAreKnown /\ JobsAreBound /\ PublishedAlone
  BY DEF Ind
<1>3. job[f] \in JobRec /\ "end" \in JobAts /\ None \in MaybeProfile
  BY <1>2 DEF JobShape, JobAts, MaybeProfile
<1>4. /\ j \in JobRec /\ j.at = "end" /\ j.n = job[f].n /\ j.alone = job[f].alone
      /\ j.approved = None
  BY <1>3 DEF JobRec, NoJob
<1> HIDE DEF j
<1>5. /\ job' \in [Flows -> JobRec] /\ job'[f] = j
      /\ \A g \in Flows : g # f => job'[g] = job[g]
  BY <1>1, <1>2, <1>4 DEF JobShape
<1>6. /\ flow' \in [Flows -> FlowRec] /\ flow'[f].at \in {"off", "check"}
      /\ flow'[f].approved = FALSE
      /\ \A g \in Flows : g # f => flow'[g] = flow[g]
  <2>1. flow \in [Flows -> FlowRec] /\ flow[f].approved = FALSE
    BY <1>1, <1>2 DEF ScriptShape, FlowRec, JobsAreBound
  <2>2. CASE Leaves(f, "off")
    BY <2>1, <2>2, LeavesTo DEF FlowAts
  <2>3. CASE Goes(f, "check")
    BY <2>1, <2>3, GoesOn DEF FlowAts
  <2> QED BY <1>1, <2>2, <2>3
<1>7. JobShape'
  BY <1>1, <1>2, <1>5 DEF JobShape
<1>8. JobsAreBound'
  BY <1>1, <1>2, <1>4, <1>5, <1>6 DEF JobsAreBound, Fits, local
<1>9. PublishedAlone'
  <2>1. \A g \in Flows : Publishing(g)' => Publishing(g)
    BY <1>4, <1>5 DEF Publishing
  <2>2. Written("end") = Written("result")
    BY DEF Written
  <2> QED BY <1>1, <1>2, <1>4, <1>5, <2>1, <2>2 DEF PublishedAlone
<1>10. HumanInv' /\ ScriptShape' /\ DraftsAreKnown'
  BY <1>1, <1>6, WorkingFrame
<1> QED BY <1>7, <1>8, <1>9, <1>10 DEF Ind

-------------------------------------------------------------------------------
(* The invariant, and what follows from it.                                  *)

\* Nothing has happened yet.
LEMMA IndInit == Init => Ind
<1> SUFFICES ASSUME Init PROVE Ind
  OBVIOUS
<1>1. IsFiniteSet({}) /\ Cardinality({}) = 0
  BY FS_EmptySet
<1>2. /\ {MaxStarts, MaxDrafts, MaxReviews, MaxChanges, MaxRequests, MaxDownloads} \subseteq Nat
      /\ 0 \in Runs
  BY FlowAssumption DEF Runs
<1>3. HumanInv
  <2>1. /\ NoTab \in TabRec /\ NoTab.reviewed = None /\ NoTab.ticked = "no"
        /\ NoTab.approved = None /\ NoTab.normalized = FALSE /\ NoTab.patch = None
    BY DEF NoTab, TabRec, Drawn, Ticks, MaybeProfile
  <2>2. /\ tab = NoTab /\ saved = FALSE /\ requests = {} /\ downloads = {}
        /\ 0 <= MaxRequests /\ 0 <= MaxDownloads
    BY <1>2 DEF Init
  <2>3. HumanShape
    BY <1>1, <2>1, <2>2 DEF HumanShape
  <2>4. TicksAreMeant
    BY <2>1, <2>2 DEF TicksAreMeant, ApprovedWasConfirmed
  <2> QED BY <2>3, <2>4 DEF HumanInv
<1>4. /\ NoDir \in DirRec /\ NoFlow \in FlowRec /\ NoJob \in JobRec
  BY <1>2 DEF NoDir, DirRec, Focus, MaybeProfile, NoFlow, FlowRec, FlowAts, Modes, NoJob,
     JobRec, JobAts
<1>5. [bundle |-> FALSE, source |-> FALSE, approved |-> None] \in InputRec
  BY DEF InputRec, MaybeProfile
<1>6. ScriptShape
  BY <1>2, <1>4 DEF Init, ScriptShape, Versions, NoFlow
<1>7. JobShape
  BY <1>2, <1>4, <1>5 DEF Init, JobShape
<1>8. DraftsAreKnown
  <2>1. \A d \in Drafts : ~ Paged(d)
    BY <1>2 DEF Init, Paged, NoTab, Drafts
  <2>2. 0 \notin Drafts
    BY <1>2 DEF Drafts
  <2> QED BY <2>1, <2>2 DEF Init, DraftsAreKnown, NoDir, NoFlow
<1>9. JobsAreBound
  BY DEF Init, JobsAreBound, NoJob, NoFlow
<1>10. PublishedAlone
  BY DEF Init, PublishedAlone, NoJob
<1> QED BY <1>3, <1>6, <1>7, <1>8, <1>9, <1>10 DEF Ind

\* Every step of the page, the scripts and the jobs keeps the invariant.
LEMMA IndNext == Ind /\ [Next]_vars => Ind'
<1> SUFFICES ASSUME Ind, [Next]_vars PROVE Ind'
  OBVIOUS
<1>1. HumanInv /\ ScriptShape /\ JobShape /\ DraftsAreKnown /\ JobsAreBound /\ PublishedAlone
  BY DEF Ind
<1>2. CASE Page
  <2>1. Kept /\ UNCHANGED Others
    BY <1>1, <1>2, PageKeeps DEF ScriptShape
  <2>2. UNCHANGED <<source, changes, drafts, dir, page, flow, inputs, job, published,
                    starts, made>>
    BY <2>1 DEF Others, local
  <2>3. ScriptShape'
    BY <1>1, <2>2 DEF ScriptShape
  <2>4. JobShape' /\ PublishedAlone'
    BY <1>1, <2>2, JobFrame
  <2>5. JobsAreBound'
    BY <1>1, <2>2 DEF JobsAreBound, Fits
  <2>6. DraftsAreKnown'
    BY <1>1, <2>1, <2>2 DEF DraftsAreKnown, Kept
  <2> QED BY <2>1, <2>3, <2>4, <2>5, <2>6 DEF Ind, Kept
<1>3. CASE ChangeSource
  BY <1>3, ChangeKeeps
<1>4. ASSUME NEW f \in Flows, Script(f) PROVE Ind'
  <2>1. CASE Confirm(f)
    <3>1. PICK p \in downloads : Freeze(f, p, "confirm", flow[f].mode # "skipped")
      BY <2>1 DEF Confirm
    <3>2. (flow[f].mode # "skipped") \in BOOLEAN
      OBVIOUS
    <3> QED BY <3>1, <3>2, FreezeKeeps
  <2>2. CASE Resume(f)
    <3>1. PICK p \in downloads : Freeze(f, p, "resume", TRUE)
      BY <2>2 DEF Resume
    <3> QED BY <2>2, <3>1, FreezeKeeps DEF Resume
  <2> QED BY <1>4, <2>1, <2>2, StartKeeps, SanitizeKeeps, DraftKeeps, TearKeeps,
             WritePageKeeps, UploadPageKeeps, MoveKeeps, StopKeeps, UploadKeeps DEF Script
<1>5. ASSUME NEW f \in Flows, Job(f) PROVE Ind'
  <2>1. CASE WriteIndex(f)
    BY <2>1, WriteKeeps DEF WriteIndex, Written
  <2>2. CASE WriteReport(f)
    BY <2>2, WriteKeeps DEF WriteReport, Written
  <2>3. CASE WritePayload(f)
    BY <2>3, WriteKeeps DEF WritePayload, Written, Parts
  <2> QED BY <1>5, <2>1, <2>2, <2>3, LaunchKeeps, ReadKeeps, RunKeeps, PrecomputedKeeps,
             ResultKeeps DEF Job
<1>6. CASE UNCHANGED vars
  <2>1. UNCHANGED <<source, changes, drafts, dir, page, human, flow, inputs, job, published,
                    starts, made>>
    BY <1>6 DEF vars, local
  <2>2. ScriptShape'
    BY <1>1, <2>1 DEF ScriptShape
  <2>3. JobShape' /\ PublishedAlone'
    BY <1>1, <2>1, JobFrame
  <2>4. JobsAreBound'
    BY <1>1, <2>1 DEF JobsAreBound, Fits
  <2>5. DraftsAreKnown'
    BY <1>1, <2>1, DraftsFrame
  <2> QED BY <1>1, <2>1, <2>2, <2>3, <2>4, <2>5, HumanFrame DEF Ind
<1> QED BY <1>2, <1>3, <1>4, <1>5, <1>6 DEF Next

\* The inductive invariant holds.
LEMMA IndHolds == Spec => []Ind
<1>1. Init => Ind
  BY IndInit
<1>2. Ind /\ [Next]_vars => Ind'
  BY IndNext
<1> QED BY <1>1, <1>2, PTL DEF Spec

\* Jobs run on what was approved for them, and on the source only without a profile
\* (gcs_review_flow.py, chunked_review_job.py), for any number of flows.
THEOREM JobsRunOnWhatWasApproved == Spec => []FlowInv
<1>1. Ind => FlowInv
  <2> SUFFICES ASSUME Ind PROVE FlowInv
    OBVIOUS
  <2>1. HumanInv /\ ScriptShape /\ JobShape /\ JobsAreBound
    BY DEF Ind
  <2>2. TypeOK
    BY <2>1 DEF HumanInv, HumanShape, ScriptShape, JobShape, TypeOK, DirRec, TabRec, FlowRec,
       InputRec, JobRec, Focus, Drawn, MaybeProfile, FlowAts, JobAts
  <2>3. JobRunsOnItsProfile /\ SourceStaysOut
    BY <2>1 DEF JobsAreBound, Fits, JobRunsOnItsProfile, SourceStaysOut
  <2> QED BY <2>2, <2>3 DEF FlowInv
<1> QED BY <1>1, IndHolds, PTL

\* What a human can download as approved, they confirmed with its interpretation on the
\* page (the approve route and the script of the page).
THEOREM OnlyConfirmedIsApproved == Spec => []ApprovedWasConfirmed
<1>1. Ind => ApprovedWasConfirmed
  BY DEF Ind, HumanInv, TicksAreMeant
<1> QED BY <1>1, IndHolds, PTL

\* The approval record names the source of the draft it is about (_freeze_approved_
\* operational_profile and the resume of gcs_review_flow.py).
THEOREM RecordsTellTheTruth == Spec => []RecordIsTrue
<1>1. Ind => RecordIsTrue
  BY DEF Ind, DraftsAreKnown, RecordIsTrue
<1> QED BY <1>1, IndHolds, PTL

\* A review whose job published alone is whole until the next one publishes
\* (the uploads of chunked_review_job.py).
THEOREM PublishedReviewIsWhole == Spec => []PageIsWhole
<1>1. Ind => PageIsWhole
  BY DEF Ind, PublishedAlone, PageIsWhole, Written
<1> QED BY <1>1, IndHolds, PTL
===============================================================================
