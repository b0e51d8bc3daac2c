----------------------------- MODULE ReviewFlow -----------------------------
(***************************************************************************)
(* The GCS review flow (scripts/gcs_review_flow.py): an operator's script  *)
(* profiles the source, publishes a page on which a human edits, previews  *)
(* and approves an operational profile (routes of api_routes.py over       *)
(* profile_review.py), freezes the downloaded profile, and runs            *)
(* gcp/chunked_review_job.py, which publishes the review of the evidence.  *)
(* Several flows work on the same source and the same logs: the code       *)
(* profile page is named after the source, the review after the evidence,  *)
(* so that they write the same objects; run directories are their own.     *)
(*                                                                         *)
(* A focused profile is its number, a patch a model value; a hash is what  *)
(* it is a hash of.  Context and analysis of the source are one file.      *)
(* What only the operator reads (reports, the run, its artifacts, the      *)
(* results of jobs) is not kept.                                           *)
(***************************************************************************)
EXTENDS Integers, Sequences, FiniteSets

CONSTANTS
    Flows,        \* run ids, each with its output directory
    Patches,      \* profile review patches
    None,
    MaxStarts,    \* bound: starts of the script and of jobs by hand
    MaxDrafts,    \* bound: focused profiles
    MaxReviews,   \* bound: results of run_multi_ai
    MaxChanges,   \* bound: changes of the source
    MaxRequests,  \* bound: requests of the page in flight
    MaxDownloads  \* bound: downloaded profiles

ASSUME FlowAssumption ==
    /\ Flows # {} /\ Patches # {} /\ None \notin Patches
    /\ {"no", "restored"} \cap Patches = {}
    /\ {MaxStarts, MaxDrafts, MaxReviews, MaxChanges, MaxRequests, MaxDownloads}
          \subseteq Nat

VARIABLES
    source,     \* the version of the source tree
    changes,
    drafts,     \* the source version of each focused profile
    dir,        \* the output directories
    page,       \* the draft in the code profile page of each source version
    tab,        \* the page in the human's browser
    saved,      \* interpretation_review_confirmed in its local storage
    requests,   \* the requests of the page in flight
    downloads,  \* the downloaded approved profiles
    flow,       \* the scripts
    inputs,     \* job-inputs/<run id>/
    job,        \* the jobs
    pub,        \* the review of the evidence: which job wrote each object
    last,       \* auxiliary: the last job that began to publish
    starts, made

local == <<source, changes, drafts, dir, page>>
human == <<tab, saved, requests, downloads>>
published == <<pub, last>>
vars == <<local, human, flow, inputs, job, published, starts, made>>

Torn == -1
Versions == {0, 1}
Drafts == 1 .. MaxDrafts
Runs == 0 .. MaxReviews
Parts == {"precomputed", "index", "report", "payload"}

\* --skip-source-confirmation; without a source root; else, at the terminal or with
\* --no-prompts, confirmed.
Modes == {"confirmed", "skipped", "plain"}


(* ticked: the patch whose interpretation the human had on the page when   *)
(* they ticked the second review, or "restored" from the local storage.    *)
Ticks == Patches \cup {"no", "restored"}
Profile == [draft : Drafts, patch : Patches, ticked : Ticks]

NoDir == [context |-> None, focused |-> 0, payload |-> None, frozen |-> None,
          record |-> None]
NoTab == [draft |-> 0, patch |-> None, normalized |-> FALSE, reviewed |-> None,
          ticked |-> "no", approved |-> None]
NoFlow == [at |-> "off", mode |-> "plain", approved |-> FALSE]
NoJob == [at |-> "off", byHand |-> FALSE, useProfile |-> FALSE, useSource |-> FALSE,
          approved |-> None, source |-> FALSE, n |-> 0, alone |-> FALSE]

TypeOK ==
    /\ source \in Versions /\ changes \in 0 .. MaxChanges
    /\ drafts \in Seq(Versions) /\ Len(drafts) <= MaxDrafts
    /\ \A f \in Flows :
          /\ dir[f].context \in Versions \cup {None}
          /\ dir[f].focused \in Drafts \cup {0, Torn}
          /\ dir[f].payload \in Versions \cup {None}
          /\ dir[f].frozen \in Profile \cup {None}
    /\ page \in [Versions -> Drafts \cup {0}]
    /\ tab \in [draft : Drafts \cup {0}, patch : Patches \cup {None},
                normalized : BOOLEAN, reviewed : Patches \cup {None},
                ticked : Ticks, approved : Profile \cup {None}]
    /\ tab.reviewed # None => tab.normalized
    /\ saved \in BOOLEAN
    /\ Cardinality(requests) <= MaxRequests
    /\ downloads \subseteq Profile /\ Cardinality(downloads) <= MaxDownloads
    /\ flow \in [Flows -> [at : {"off", "resume", "sanitize", "draft", "page", "upload",
                                 "confirm", "logs", "job", "check"},
                           mode : Modes, approved : BOOLEAN]]
    /\ inputs \in [Flows -> [bundle : BOOLEAN, source : BOOLEAN,
                             approved : Profile \cup {None}]]
    /\ job \in [Flows -> [at : {"off", "read", "run", "precomputed", "index",
                                "report", "payload", "result", "end"},
                          byHand : BOOLEAN, useProfile : BOOLEAN, useSource : BOOLEAN,
                          approved : Profile \cup {None}, source : BOOLEAN,
                          n : Runs, alone : BOOLEAN]]
    /\ pub \in [Parts -> Runs] /\ last \in Runs
    /\ starts \in 0 .. MaxStarts /\ made \in Runs

Init ==
    /\ source = 0 /\ changes = 0 /\ drafts = <<>>
    /\ dir = [f \in Flows |-> NoDir]
    /\ page = [v \in Versions |-> 0]
    /\ tab = NoTab /\ saved = FALSE /\ requests = {} /\ downloads = {}
    /\ flow = [f \in Flows |-> NoFlow]
    /\ inputs = [f \in Flows |-> [bundle |-> FALSE, source |-> FALSE, approved |-> None]]
    /\ job = [f \in Flows |-> NoJob]
    /\ pub = [p \in Parts |-> 0]
    /\ last = 0 /\ starts = 0 /\ made = 0

-----------------------------------------------------------------------------
(* The page in the browser.  Human and scripts meet only in the source,    *)
(* the uploaded pages and the downloads: as a bound on the interleavings,  *)
(* no rule of the code, a session of the human is not interleaved with     *)
(* steps of scripts that are under way, nor these with an open page, and   *)
(* comes before the first review; a page is open while some script waits   *)
(* for a profile (it does after every change of a page), until             *)
(* MaxDownloads profiles are downloaded.                                   *)

HumanWorks ==
    /\ \A f \in Flows : flow[f].at \in {"off", "confirm"}
    /\ made = 0
ScriptsWork == tab = NoTab

ChangeSource ==
    /\ HumanWorks /\ changes < MaxChanges
    /\ source' = 1 - source
    /\ changes' = changes + 1
    /\ UNCHANGED <<drafts, dir, page, human, flow, inputs, job, published, starts, made>>

OnPage(next) ==
    /\ HumanWorks /\ \E f \in Flows : flow[f].at = "confirm"
    /\ tab' = next
    /\ UNCHANGED <<local, flow, inputs, job, published, starts, made>>

\* Mutant of Load: the answers a page waits for reach the page that replaces it.
LoadAnswered ==
    \E v \in Versions :
        /\ page[v] # 0 /\ Cardinality(downloads) < MaxDownloads
        /\ OnPage([NoTab EXCEPT !.draft = page[v],
                                !.ticked = IF saved THEN "restored" ELSE "no"])
        /\ UNCHANGED <<saved, requests, downloads>>

\* The page is loaded, again perhaps: its own answers wait for nobody, and what
\* the local storage holds is put back into the form.
Load ==
    \E v \in Versions :
        /\ page[v] # 0 /\ Cardinality(downloads) < MaxDownloads
        /\ OnPage([NoTab EXCEPT !.draft = page[v],
                                !.ticked = IF saved THEN "restored" ELSE "no"])
        /\ requests' = {}
        /\ UNCHANGED <<saved, downloads>>

\* The form is stored as collect() reads it; a disabled box is not read.
Collected == tab.ticked # "no" /\ tab.reviewed # None

Close ==
    /\ tab.draft # 0
    /\ OnPage(NoTab)
    /\ requests' = {}
    /\ UNCHANGED <<saved, downloads>>

SaveForm ==
    /\ tab.draft # 0
    /\ saved' = Collected
    /\ OnPage(tab)
    /\ UNCHANGED <<requests, downloads>>

Edit ==
    /\ tab.draft # 0
    /\ \E p \in Patches : OnPage([tab EXCEPT !.patch = p, !.reviewed = None,
                                             !.ticked = "no"])
    /\ UNCHANGED <<saved, requests, downloads>>

Tick ==
    /\ tab.reviewed # None
    /\ OnPage([tab EXCEPT !.ticked = IF @ = "no" THEN tab.reviewed ELSE "no"])
    /\ UNCHANGED <<saved, requests, downloads>>

Request(kind) ==
    [kind |-> kind, draft |-> tab.draft, patch |-> tab.patch,
     reviewed |-> tab.reviewed, ticked |-> tab.ticked]

Ask(kind) ==
    /\ Cardinality(requests) < MaxRequests
    /\ requests' = requests \cup {Request(kind)}
    /\ OnPage(tab)
    /\ UNCHANGED downloads

ClickNormalize == tab.draft # 0 /\ Ask("normalize") /\ saved' = Collected

ClickPreview ==
    /\ tab.normalized
    /\ tab.patch # None
    /\ Ask("preview")
    /\ UNCHANGED saved

ClickApprove ==
    /\ tab.patch # None /\ tab.reviewed # None /\ tab.ticked # "no"
    /\ Ask("approve")
    /\ UNCHANGED saved

Answered(q) == requests' = requests \ {q}

\* Gemini turns the answers into a patch of its own.
Normalized(q) == IF q.kind = "normalize" THEN Patches ELSE {}

\* The page starts over.
AnswerNormalize(q) ==
    /\ \E p \in Normalized(q) :
          OnPage([NoTab EXCEPT !.draft = tab.draft, !.patch = p, !.normalized = TRUE])
    /\ Answered(q)
    /\ UNCHANGED <<saved, downloads>>

\* The interpretation of a patch and the patch's hash.
Interpretation(q) == q.patch

\* Mutant of AnswerPreview: the box keeps its tick.
AnswerPreviewTicked(q) ==
    /\ q.kind = "preview"
    /\ OnPage([tab EXCEPT !.reviewed = Interpretation(q)])
    /\ Answered(q)
    /\ UNCHANGED <<saved, downloads>>

\* Whatever the page holds by now, it shows the interpretation that was asked for.
AnswerPreview(q) ==
    /\ q.kind = "preview"
    /\ OnPage([tab EXCEPT !.reviewed = Interpretation(q), !.ticked = "no"])
    /\ Answered(q)
    /\ UNCHANGED <<saved, downloads>>

\* Mutant of Approvable: the server trusts the page.
ApprovableUnbound(q) == q.ticked # "no"

\* The patch must be the one that was reviewed, the review confirmed.
Approvable(q) == q.ticked # "no" /\ q.reviewed = q.patch

\* The focused profile with the patch applied, frozen.
ApprovedProfile(q) == [draft |-> q.draft, patch |-> q.patch, ticked |-> q.ticked]

AnswerApprove(q) ==
    /\ q.kind = "approve" /\ Approvable(q)
    /\ OnPage([tab EXCEPT !.approved = ApprovedProfile(q)])
    /\ Answered(q)
    /\ UNCHANGED <<saved, downloads>>

\* 400 or no answer: the page only says so.
Refuse(q) ==
    /\ Answered(q)
    /\ OnPage(tab)
    /\ UNCHANGED <<saved, downloads>>

Download ==
    /\ tab.approved # None
    /\ Cardinality(downloads \cup {tab.approved}) <= MaxDownloads
    /\ downloads' = downloads \cup {tab.approved}
    /\ OnPage(tab)
    /\ UNCHANGED <<saved, requests>>

Page ==
    \/ Load \/ Close \/ SaveForm \/ Edit \/ Tick \/ Download
    \/ ClickNormalize \/ ClickPreview \/ ClickApprove
    \/ \E q \in requests : AnswerNormalize(q) \/ AnswerPreview(q) \/ AnswerApprove(q)
                           \/ Refuse(q)

-----------------------------------------------------------------------------
(* The script.                                                             *)

Idle(f) == flow[f].at = "off"

Goes(f, at) == flow' = [flow EXCEPT ![f].at = at]
Leaves(f, at) == flow' = [flow EXCEPT ![f] = [NoFlow EXCEPT !.at = at]]

Start(f) ==
    /\ Idle(f) /\ starts < MaxStarts
    /\ starts' = starts + 1
    /\ \E mode \in Modes :
          \E at \in CASE mode = "plain" -> {"logs"}
                      [] mode = "confirmed" -> {"sanitize", "resume"}
                      [] OTHER -> {"sanitize"} :
              flow' = [flow EXCEPT ![f] = [at |-> at, mode |-> mode, approved |-> FALSE]]
    /\ job' = [job EXCEPT ![f] = NoJob]
    /\ UNCHANGED <<local, human, inputs, published, made>>

Scripting(f, at, to) ==
    /\ flow[f].at = at
    /\ Goes(f, to)
    /\ UNCHANGED <<source, changes, human, inputs, job, published, starts, made>>

SanitizeSource(f) ==
    /\ Scripting(f, "sanitize", "draft")
    /\ dir' = [dir EXCEPT ![f].context = source]
    /\ UNCHANGED <<drafts, page>>

DraftProfile(f) ==
    /\ Len(drafts) < MaxDrafts
    /\ Scripting(f, "draft", "page")
    /\ drafts' = Append(drafts, dir[f].context)
    /\ dir' = [dir EXCEPT ![f].focused = Len(drafts) + 1]
    /\ UNCHANGED page

\* The process dies while it writes the focused profile.
TearProfile(f) ==
    /\ flow[f].at = "draft"
    /\ Leaves(f, "off")
    /\ UNCHANGED <<source, changes, human, inputs, job, published, starts, made>>
    /\ dir' = [dir EXCEPT ![f].focused = Torn]
    /\ UNCHANGED <<drafts, page>>

WritePage(f) ==
    /\ Scripting(f, "page", "upload")
    /\ dir' = [dir EXCEPT ![f].payload = dir[f].context]
    /\ UNCHANGED <<drafts, page>>

\* The id of the page is a hash of the source, whatever the run and the draft.
UploadPage(f) ==
    /\ Scripting(f, "upload", "confirm")
    /\ page' = [page EXCEPT ![dir[f].context] = dir[f].focused]
    /\ UNCHANGED <<drafts, dir>>

\* Mutant of Bound: the profile is validated without the focused profile.
BoundToNothing(f, p) == TRUE

\* An unreadable focused profile binds nothing.
Bound(f, p) == dir[f].focused = Torn \/ p.draft = dir[f].focused

Record(f, p) == [draft |-> p.draft, source |-> dir[f].context, focused |-> dir[f].focused]

\* _freeze_approved_operational_profile, and the approval record unless the
\* confirmation was skipped.
Freeze(f, p, from, record) ==
    /\ Bound(f, p)
    /\ flow[f].at = from
    /\ flow' = [flow EXCEPT ![f].at = "logs", ![f].approved = TRUE]
    /\ dir' = [dir EXCEPT ![f].frozen = p,
                          ![f].record = IF record THEN Record(f, p) ELSE @]
    /\ UNCHANGED <<source, changes, drafts, page, human, inputs, job, published,
                   starts, made>>

\* APPROVE is typed and a path given, or --approved-profile alone.
Confirm(f) ==
    \E p \in downloads : Freeze(f, p, "confirm", flow[f].mode # "skipped")

\* --skip-source-confirmation without a profile.
SkipConfirmation(f) ==
    /\ flow[f].mode = "skipped"
    /\ Scripting(f, "confirm", "logs")
    /\ UNCHANGED <<drafts, dir, page>>

\* Mutant of Resumable: that the files exist is enough.
ResumableUnchecked(f) == dir[f].payload # None /\ dir[f].focused # 0

\* The page's payload names the source context and analysis of the directory.
Resumable(f) ==
    /\ dir[f].payload # None /\ dir[f].focused # 0
    /\ dir[f].payload = dir[f].context

Resume(f) ==
    /\ flow[f].at = "resume" /\ Resumable(f)
    /\ \E p \in downloads : Freeze(f, p, "resume", TRUE)

(* The script exits, dies or is refused anywhere, its job with it.         *)
Stop(f) ==
    /\ ~ Idle(f)
    /\ Leaves(f, "off")
    /\ job' = [job EXCEPT ![f] = NoJob]
    /\ UNCHANGED <<local, human, inputs, published, starts, made>>

\* The logs become a bundle; bundle, source context and profile are uploaded, and
\* the job's environment names either the profile or the source.
UploadInputs(f) ==
    /\ flow[f].at = "logs"
    /\ Leaves(f, "job")
    /\ inputs' = [inputs EXCEPT ![f] =
          [bundle |-> TRUE, source |-> @.source \/ flow[f].mode # "plain",
           approved |-> IF flow[f].approved THEN dir[f].frozen ELSE @.approved]]
    /\ job' = [job EXCEPT ![f] =
          [NoJob EXCEPT !.at = "read", !.useProfile = flow[f].approved,
                        !.useSource = flow[f].mode # "plain" /\ ~ flow[f].approved]]
    /\ UNCHANGED <<local, human, published, starts, made>>

CheckPage(f) ==
    /\ pub["precomputed"] # 0
    /\ flow[f].at = "check"
    /\ Leaves(f, "off")
    /\ UNCHANGED <<local, human, inputs, job, published, starts, made>>

Script(f) ==
    \/ Start(f) \/ SanitizeSource(f) \/ DraftProfile(f) \/ TearProfile(f)
    \/ WritePage(f) \/ UploadPage(f) \/ Confirm(f) \/ SkipConfirmation(f)
    \/ Resume(f) \/ Stop(f) \/ UploadInputs(f) \/ CheckPage(f)

-----------------------------------------------------------------------------
(* The job.                                                                *)

\* An operator runs the job on the inputs of a run, as its environment says.
Launch(f) ==
    /\ Idle(f) /\ inputs[f].bundle /\ starts < MaxStarts
    /\ starts' = starts + 1
    /\ Goes(f, "job")
    /\ \E useProfile, useSource \in BOOLEAN :
          /\ useProfile => inputs[f].approved # None
          /\ useSource => inputs[f].source
          /\ job' = [job EXCEPT ![f] =
                [NoJob EXCEPT !.at = "read", !.byHand = TRUE, !.useProfile = useProfile,
                              !.useSource = useSource]]
    /\ UNCHANGED <<local, human, inputs, published, made>>

Working(f, at) ==
    /\ job[f].at = at
    /\ UNCHANGED <<local, human, inputs, starts>>

Turns(f, to) == job' = [job EXCEPT ![f].at = to]

\* Mutant of Admitted: source and profile may come together.
AdmittedBoth(f) == TRUE

\* A frozen profile keeps the source out.
Admitted(f) == ~ (job[f].useProfile /\ job[f].useSource)

\* Profiles that fail validation, and source beside a profile, raise (Stop).
ReadInputs(f) ==
    /\ Working(f, "read") /\ Admitted(f)
    /\ job' = [job EXCEPT ![f] =
          [job[f] EXCEPT !.at = "run", !.source = job[f].useSource,
               !.approved = IF job[f].useProfile THEN inputs[f].approved ELSE None]]
    /\ UNCHANGED <<flow, published, made>>

\* run_multi_ai and the write of its result.
RunReview(f) ==
    /\ Working(f, "run") /\ made < MaxReviews
    /\ made' = made + 1
    /\ job' = [job EXCEPT ![f].at = "precomputed", ![f].n = made + 1]
    /\ UNCHANGED <<flow, published>>

Publishing(f) == job[f].at \in {"index", "report", "payload"}

Publishes(f, part) == pub' = [pub EXCEPT ![part] = job[f].n]

WritePrecomputed(f) ==
    /\ Working(f, "precomputed")
    /\ Publishes(f, "precomputed")
    /\ last' = job[f].n
    /\ job' = [g \in Flows |->
          IF g = f THEN [job[f] EXCEPT !.at = "index",
                            !.alone = \A h \in Flows \ {f} : ~ Publishing(h)]
          ELSE IF job[g].at = "end" THEN [NoJob EXCEPT !.at = "end"]
          ELSE [job[g] EXCEPT !.alone = @ /\ ~ Publishing(g)]]
    /\ UNCHANGED <<flow, made>>

\* Mutant of WriteIndex: a page that exists is kept.
WriteIndexOnce(f) ==
    /\ Working(f, "index")
    /\ pub' = IF pub["index"] = 0 THEN [pub EXCEPT !["index"] = job[f].n] ELSE pub
    /\ Turns(f, "report")
    /\ UNCHANGED <<flow, last, made>>

WriteIndex(f) ==
    /\ Working(f, "index")
    /\ Publishes(f, "index")
    /\ Turns(f, "report")
    /\ UNCHANGED <<flow, last, made>>

WriteReport(f) ==
    /\ Working(f, "report")
    /\ Publishes(f, "report")
    /\ Turns(f, "payload")
    /\ UNCHANGED <<flow, last, made>>

WritePayload(f) ==
    /\ Working(f, "payload")
    /\ Publishes(f, "payload")
    /\ Turns(f, "result")
    /\ UNCHANGED <<flow, last, made>>

\* The job ends; the script goes on.
WriteResult(f) ==
    /\ Working(f, "result")
    /\ job' = [job EXCEPT ![f] = [NoJob EXCEPT !.at = "end", !.n = job[f].n,
                                              !.alone = job[f].alone]]
    /\ IF job[f].byHand THEN Leaves(f, "off") ELSE Goes(f, "check")
    /\ UNCHANGED <<pub, last, made>>

Job(f) ==
    \/ Launch(f) \/ ReadInputs(f) \/ RunReview(f) \/ WritePrecomputed(f) \/ WriteIndex(f)
    \/ WriteReport(f) \/ WritePayload(f) \/ WriteResult(f)

Next ==
    \/ Page
    \/ ScriptsWork /\ (ChangeSource \/ \E f \in Flows : Script(f) \/ Job(f))

Spec == Init /\ [][Next]_vars

-----------------------------------------------------------------------------
(* Properties.                                                             *)

\* What a human can download as approved is a patch whose interpretation was on the
\* page when they confirmed it: after edits that race a preview, answers out of order,
\* and a form that is restored.
ApprovedWasConfirmed == \A p \in downloads : p.ticked = p.patch

\* The approval record tells which source the approved profile is about, also after
\* crashes, new drafts of the same page and a resume.
RecordIsTrue ==
    \A f \in Flows :
        dir[f].record # None /\ dir[f].record.focused # Torn =>
            drafts[dir[f].record.draft] = dir[f].record.source

\* A job of the script that runs on a profile runs on the one that was approved for
\* the focused profile of this run's directory, not for one another flow put on the
\* page of the same source.
JobRunsOnItsProfile ==
    \A f \in Flows :
        job[f].at # "off" /\ ~ job[f].byHand /\ job[f].approved # None
            /\ dir[f].focused # Torn =>
            job[f].approved.draft = dir[f].focused

\* No job sees both an approved profile and the source, whoever starts it.
SourceStaysOut ==
    \A f \in Flows : ~ (job[f].approved # None /\ job[f].source)

\* A job runs on what was approved for it, and on the source only without a profile.
FlowInv ==
    /\ TypeOK
    /\ JobRunsOnItsProfile
    /\ SourceStaysOut

\* Once a job that published alone has stored its result, every object of the
\* review is its own until the next job publishes: whatever earlier jobs left.
PageIsWhole ==
    \A f \in Flows :
        job[f].at = "end" /\ job[f].alone /\ job[f].n = last =>
            \A part \in Parts : pub[part] = last
=============================================================================
