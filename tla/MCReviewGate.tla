---------------------------- MODULE MCReviewGate ----------------------------
(* Two graphs that share a target and one without targets; and the claims   *)
(* of three providers about one review unit of a bundle with three items.   *)
EXTENDS StoredReview, TLC

CONSTANTS a, b, none, t1, t2, thread1, thread2, human

MCGraphs == {a, b, none}
MCTargets == {t1, t2}
MCTargetsOf == [g \in Graphs |->
    CASE g = a -> {t1, t2} [] g = b -> {t2} [] OTHER -> {}]
MCRank == [g \in Graphs |-> CASE g = a -> 1 [] g = b -> 2 [] OTHER -> 3]
MCVerdicts == {"confirmed_candidate", "false_positive"}
MCTwoResolvers == {thread1, thread2}
MCOneResolver == {thread1}
MCOneReviewer == {human}
MCNoReviewer == {}
MCSymmetry == Permutations(Resolvers)

MCProviders == {"p", "q", "r"}
MCEvidence == {"restart", "trace", "http_5xx"}
MCFamily == [e \in Evidence \cup {"unknown"} |-> IF e = "restart" THEN "LOG" ELSE "PATTERN"]
MCImpactItems == {"http_5xx"}
MCSharedTraces == {{"trace", "http_5xx"}}
MCSeverityTypes == {"warning"}

MCStance(type, status) == [type |-> type, status |-> status]
MCClaim(p, stance, refs, missing, about) ==
    [by |-> p, type |-> stance.type, status |-> stance.status, refs |-> refs,
     counter |-> {}, missing |-> missing, about |-> about]
Supports == MCStance("support", "supported")
Contradicts == MCStance("support", "contradicted")

MCClaims ==
    {MCClaim(p, Supports, refs, "none", "restart_loop") :
        p \in Providers, refs \in {{}, {"restart"}, {"trace"}, {"http_5xx"},
                                   {"restart", "trace"}, {"restart", "unknown"}}}
    \cup {MCClaim(p, stance, {"http_5xx"}, "none", "restart_loop") :
             p \in {"r"}, stance \in {Contradicts, MCStance("caveat", "supported")}}
    \cup {MCClaim(p, Supports, {"http_5xx"}, "none", "warning") : p \in {"p", "q"}}
    \cup {MCClaim("r", Supports, {"http_5xx"}, missing, "restart_loop") :
             missing \in {"core", "other"}}
    \cup {MCClaim("r", Supports, {"http_5xx", "unknown"}, "none", "restart_loop")}
    \cup {MCClaim("q", Contradicts, {"restart", "trace"}, "none", "restart_loop"),
          MCClaim("r", MCStance("insufficient_evidence", "no_finding"), {}, "core",
                  "restart_loop"),
          [MCClaim("r", Supports, {}, "core", "warning") EXCEPT !.counter = {"http_5xx"}]}

MCLegacyRow(id, class, score, refs, missing, caveat) ==
    [id |-> id, class |-> class, score |-> score, refs |-> refs, supportRefs |-> {},
     supporters |-> {}, about |-> "restart_loop", missing |-> missing, caveat |-> caveat]
MCLegacyRows ==
    {MCLegacyRow(<<"l1", {}>>, "primary_candidate", 800, {"restart", "http_5xx"}, {}, FALSE),
     MCLegacyRow(<<"l2", {}>>, "primary_candidate", 600, {"http_5xx"}, {}, FALSE),
     MCLegacyRow(<<"l5", {}>>, "primary_candidate", 0, {"trace"}, {}, FALSE),
     MCLegacyRow(<<"l3", {}>>, "validation_target", 500, {"http_5xx"}, {}, TRUE),
     MCLegacyRow(<<"l4", {}>>, "validation_target", 500, {"http_5xx"}, {"core"}, FALSE)}
=============================================================================
