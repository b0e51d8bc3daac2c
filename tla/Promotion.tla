------------------------------ MODULE Promotion ------------------------------
(***************************************************************************)
(* From the claims of the providers to the class of one review unit:       *)
(* synthesize_multi_ai groups them by what they are about and what they    *)
(* cite (synthesis/multi_ai.py), merge_candidate_observations makes one    *)
(* candidate of the unit's groups and legacy targets                       *)
(* (synthesis/output_ingest.py), and arbitration lets it be a primary      *)
(* candidate or not (synthesis/review_arbitration.py).  Scores are in      *)
(* thousandths.  A text is what it says about user impact, missing         *)
(* evidence or a blocking caveat; what a target's wording reads as (a      *)
(* normal observation, an absence) only takes it out of promotion and is   *)
(* left out.  Every known evidence id has a runtime prefix.                *)
(***************************************************************************)
EXTENDS Integers, FiniteSets

LOCAL INSTANCE FiniteSetsExt

CONSTANTS
    Providers,     \* providers of the run, all of them successful
    Evidence,      \* evidence ids of the bundle
    Family,        \* the prefix of each id, of unknown ones too
    ImpactItems,   \* items that show direct user impact
    SharedTraces,  \* pairs of items with a shared trace, at most one pair an item
    SeverityTypes, \* SEVERITY_ONLY_SIGNALS
    Claims,        \* claims a provider may make
    LegacyRows,    \* targets of the single-model pipeline for this unit
    MaxClaims      \* bound: claims of one input

ASSUME PromotionAssumption ==
    /\ IsFiniteSet(Providers)
    /\ Evidence \subseteq DOMAIN Family
    /\ ImpactItems \subseteq Evidence
    /\ SharedTraces \subseteq SUBSET Evidence
    /\ \A s, t \in SharedTraces : s # t => s \cap t = {}
    /\ \A c \in Claims : c.by \in Providers
    /\ \A row \in LegacyRows : row.score \in Nat
    /\ MaxClaims \in Nat

Lesser(m, n) == IF m < n THEN m ELSE n
Greater(m, n) == IF m > n THEN m ELSE n
Flag(condition, reason) == IF condition THEN {reason} ELSE {}

-----------------------------------------------------------------------------
(* Claim groups.                                                           *)

EffectiveStance(c) ==
    IF c.type = "insufficient_evidence" \/ c.status \in {"insufficient_evidence", "no_finding"}
    THEN "insufficient_evidence"
    ELSE IF c.status = "contradicted" /\ c.type = "support" THEN "counter_evidence"
    ELSE c.type

Cited(c) == c.refs \cup c.counter
GroupKey(c) == <<c.about, Cited(c)>>
ClaimGroups(claims) ==
    {{c \in claims : GroupKey(c) = k} : k \in {GroupKey(c) : c \in claims}}

Participants(g) == {c.by : c \in g}
Supporters(g) == {c.by : c \in {d \in g : EffectiveStance(d) = "support"}}
GroupRefs(g) == UNION {Cited(c) : c \in g}

\* Mutant of Unsupported: a reference is not looked up.
UnsupportedUncited(g) ==
    \E c \in g : EffectiveStance(c) = "support" /\ c.refs = {}

\* An unknown reference, or support that cites nothing.
Unsupported(g) ==
    \/ ~ GroupRefs(g) \subseteq Evidence
    \/ \E c \in g : EffectiveStance(c) = "support" /\ c.refs = {}

\* Mutant of Agreement: whoever took part agreed.
AgreementOfParticipants(g) ==
    ~ Unsupported(g) /\ Cardinality(Participants(g)) >= 2

Agreement(g) == ~ Unsupported(g) /\ Cardinality(Supporters(g)) >= 2

Disagreement(g) ==
    /\ ~ Unsupported(g)
    /\ \/ \E c \in g : EffectiveStance(c) # "support" \/ c.missing # "none"
       \/ Cardinality(Providers) > 1 /\ Cardinality(Participants(g)) = 1

-----------------------------------------------------------------------------
(* Candidates.  The caveats of claims are not carried into a claim group.  *)

\* _candidate_from_group, _candidate_from_multi_ai; deduplication keeps one of a group
\* that is listed as both.
CandidateOf(g) ==
    LET primary == Agreement(g) /\ ~ Disagreement(g)
        support == {c \in g : EffectiveStance(c) = "support"}
    IN  [id |-> GroupKey(CHOOSE c \in g : TRUE),
         class |-> IF primary THEN "primary_candidate" ELSE "validation_target",
         score |-> IF primary THEN 750 ELSE 620,
         refs |-> GroupRefs(g),
         supportRefs |-> UNION {c.refs : c \in support},
         supporters |-> Supporters(g),
         about |-> (CHOOSE c \in g : TRUE).about,
         missing |-> {c.missing : c \in g} \ {"none"},
         caveat |-> FALSE]

\* Mutant of Candidates: what is unsupported is reviewed with the rest.
CandidatesOfAll(in) ==
    {CandidateOf(g) : g \in ClaimGroups(in.claims)} \cup in.legacy

Candidates(in) ==
    {CandidateOf(g) : g \in {h \in ClaimGroups(in.claims) : Agreement(h) \/ Disagreement(h)}}
        \cup in.legacy

-----------------------------------------------------------------------------
(* One candidate of a unit.                                                *)

\* The candidate whose own fields the merged one keeps; a tie is settled by the ids,
\* which are hashes.
Top(cs) ==
    CHOOSE t \in cs : \A c \in cs :
        \/ t.score > c.score
        \/ t.score = c.score /\ (t.class = "primary_candidate" \/ c.class # "primary_candidate")

\* What a provider supports more than once.
Repeats(cs) ==
    FoldSet(LAMBDA p, n : n + Greater(0, Cardinality({c \in cs : p \in c.supporters}) - 1),
            0, Providers)

\* _rollup_profile and _convergence_priority_bonus.
ConvergenceBonus(cs) ==
    LET supporters == Cardinality(UNION {c.supporters : c \in cs})
        supported == Cardinality({c \in cs : c.supporters # {}})
        refs == UNION {c.supportRefs : c \in cs}
        families == Cardinality({Family[e] : e \in refs})
        byProviders == IF supporters >= 3 THEN 100 ELSE IF supporters = 2 THEN 60 ELSE 0
        byEvidence == Lesser(60, 30 * Greater(0, families - 1)
                                 + 5 * Greater(0, Cardinality(refs) - 1))
        divergence == Lesser(60, 30 * (Cardinality({c.about : c \in cs}) - 1))
    IN  Greater(0, Lesser(180, byProviders + byEvidence
                               + Lesser(40, 10 * Greater(0, supported - 1))
                               + Lesser(20, 5 * Repeats(cs)) - divergence))

\* Mutant of Merged: the caveats and what is missing are those of the top candidate.
MergedFromTop(cs) ==
    [class |-> IF \E c \in cs : c.class = "primary_candidate" THEN "primary_candidate"
               ELSE Top(cs).class,
     score |-> Top(cs).score,
     bonus |-> ConvergenceBonus(cs),
     refs |-> UNION {c.refs : c \in cs},
     about |-> {c.about : c \in cs},
     severity |-> Top(cs).about \in SeverityTypes,
     missing |-> Top(cs).missing,
     caveat |-> Top(cs).caveat]

Merged(cs) ==
    [class |-> IF \E c \in cs : c.class = "primary_candidate" THEN "primary_candidate"
               ELSE Top(cs).class,
     score |-> Top(cs).score,
     bonus |-> ConvergenceBonus(cs),
     refs |-> UNION {c.refs : c \in cs},
     about |-> {c.about : c \in cs},
     severity |-> Top(cs).about \in SeverityTypes,
     missing |-> UNION {c.missing : c \in cs},
     caveat |-> \E c \in cs : c.caveat]

-----------------------------------------------------------------------------
(* Arbitration.                                                            *)

LinkedTo(refs) == refs \cup UNION {pair \in SharedTraces : pair \cap refs # {}}

\* Mutant of HasUserImpact: the traces of the bundle count for every unit.
HasUserImpactOfBundle(refs) ==
    (refs \cup UNION SharedTraces) \cap ImpactItems # {}

HasUserImpact(refs) == LinkedTo(refs) \cap ImpactItems # {}

\* The agreement dimensions are those of all units: "elsewhere" is an agreement on
\* another unit.
NoBaseline(in) ==
    ~ in.elsewhere /\ ~ \E g \in ClaimGroups(in.claims) : Agreement(g)

BlockingReasons(in, m) ==
    LET impact == HasUserImpact(m.refs)
    IN  Flag(NoBaseline(in), "no_baseline_agreement_or_causal_alignment")
        \cup Flag(m.refs = {}, "support_is_context_not_runtime_evidence")
        \cup Flag(Cardinality(m.refs) <= 1 /\ ~ impact, "single_metric_only")
        \cup Flag(m.severity, "severity_only_signal")
        \cup Flag(~ impact, "user_impact_unverified")
        \cup Flag(m.caveat, "blocking_caveat_present")
        \cup Flag(Cardinality(m.about) > 1, "target_type_divergence")
        \cup Flag("core" \in m.missing, "core_missing_evidence")

ScoreCap ==
    [r \in {"support_is_context_not_runtime_evidence", "single_metric_only",
            "severity_only_signal", "user_impact_unverified", "blocking_caveat_present",
            "target_type_divergence"} |->
        CASE r = "support_is_context_not_runtime_evidence" -> 500
          [] r = "single_metric_only" -> 700
          [] r = "severity_only_signal" -> 450
          [] r = "blocking_caveat_present" -> 650
          [] OTHER -> 720]

\* A legacy target without a score counts by its class.
PriorScore(m) ==
    IF m.score > 0 THEN m.score ELSE IF m.class = "primary_candidate" THEN 750 ELSE 550

PromotionScore(m, reasons) ==
    FoldSet(LAMBDA r, score : Lesser(score, ScoreCap[r]),
            Lesser(1000, PriorScore(m) + m.bonus),
            reasons \cap DOMAIN ScoreCap)

FinalClass(m, reasons) ==
    IF m.refs = {} THEN "auto_archived"
    ELSE IF /\ reasons = {} /\ m.class = "primary_candidate"
            /\ PromotionScore(m, reasons) >= 750
         THEN "primary_candidate" ELSE "validation_target"

Arbitrated(in) ==
    LET cs == Candidates(in)
        m == Merged(cs)
    IN  IF cs = {} THEN "none" ELSE FinalClass(m, BlockingReasons(in, m))

-----------------------------------------------------------------------------
(* Properties.                                                             *)

Inputs == [claims : {{}} \cup {{f[i] : i \in 1 .. MaxClaims} : f \in [1 .. MaxClaims -> Claims]},
           legacy : {{}} \cup {{row} : row \in LegacyRows},
           elsewhere : BOOLEAN]

\* Both providers support the finding about the unit that rests on this evidence of the
\* bundle.
BothSupport(in, p, q, refs) ==
    /\ p # q
    /\ \A r \in {p, q} : \E c \in in.claims :
          c.by = r /\ EffectiveStance(c) = "support" /\ Cited(c) = refs /\ c.refs # {}

\* The claims of the groups that count.
Valid(in) == UNION {g \in ClaimGroups(in.claims) : ~ Unsupported(g)}

Unopposed(in, refs) ==
    \A c \in Valid(in) : Cited(c) = refs => EffectiveStance(c) = "support" /\ c.missing = "none"

\* A primary candidate is earned, whatever its unit's candidates are merged from.  It was
\* a finding that two providers support and nobody objects to, or a primary target of the
\* single-model pipeline in a bundle where two providers agree on something; and what is
\* cited for the unit, or shares a trace with it, shows the impact on users.  Nothing
\* that is missing for the core of any of its candidates and no blocking caveat of a
\* legacy target is lost in the merge, and a group of claims that is unsupported counts
\* for nothing, neither for the finding nor against it.
PrimaryIsEarned ==
    \A in \in Inputs : Arbitrated(in) = "primary_candidate" =>
        LET cited == UNION ({Cited(c) : c \in Valid(in)} \cup {row.refs : row \in in.legacy})
        IN  /\ \/ \E row \in in.legacy : row.class = "primary_candidate"
               \/ \E p, q \in Providers, refs \in SUBSET Evidence :
                      BothSupport(in, p, q, refs) /\ Unopposed(in, refs)
            /\ \/ in.elsewhere
               \/ \E p, q \in Providers, refs \in SUBSET Evidence : BothSupport(in, p, q, refs)
            /\ \E e \in cited :
                  \/ e \in ImpactItems
                  \/ \E pair \in SharedTraces : e \in pair /\ pair \cap ImpactItems # {}
            /\ \A row \in in.legacy : ~ row.caveat /\ "core" \notin row.missing
            /\ \A c \in Valid(in) : c.missing # "core"
=============================================================================
