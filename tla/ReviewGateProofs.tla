-------------------------- MODULE ReviewGateProofs --------------------------
(***************************************************************************)
(* Proofs about ReviewGate and what it stores (StoredReview): for every    *)
(* set of graphs, targets, verdicts, resolvers, reviewers, claims and      *)
(* legacy targets and all bounds.                                          *)
(***************************************************************************)
EXTENDS StoredReview, FiniteSetTheorems, TLAPS

(* Zero is a time, whatever the bound.                                     *)
LEMMA ZeroType == 0 \in Time
BY BoundAssumption DEF Time

(* Every response record of a resolver is well formed.                     *)
LEMMA AnsweredType ==
    ASSUME NEW x \in Answers, NEW g \in Graphs, NEW w \in BOOLEAN
    PROVE  Answered(x, g, w) \in Resolve
BY ZeroType DEF Answered, Resolve

(* What the resolver becomes when its graph is stored: it goes on to       *)
(* project the target groups.                                              *)
LEMMA ProjectingType ==
    ASSUME NEW q \in Resolve
    PROVE  Projecting(q) \in Resolve
BY ZeroType DEF Projecting, Resolve

(* Its targets come next, if it has any.                                   *)
LEMMA AfterGroupsType ==
    ASSUME NEW q \in Resolve, NEW w \in BOOLEAN
    PROVE  AfterGroups(q, w) \in Resolve
<1>1. Answered("persisted", q.graph, w) \in Resolve
  BY AnsweredType DEF Answers, Resolve
<1>2. [q EXCEPT !.at = "clear", !.warned = w] \in Resolve
  BY DEF Resolve
<1> QED BY <1>1, <1>2 DEF AfterGroups

(* A response that reports the graph as not persisted.                     *)
LEMMA UnsavedType ==
    ASSUME NEW q \in Resolve
    PROVE  Unsaved(q) \in Resolve
<1>1. q.graph \in Graphs
  BY DEF Resolve
<1> QED BY <1>1, AnsweredType DEF Unsaved, Answers

(* The branch taken after the latest snapshot is known.                    *)
LEMMA DecidedType ==
    ASSUME NEW q \in Resolve, NEW g \in Graphs \cup {NoGraph}, clock \in Time
    PROVE  Decided(q, g) \in Resolve
<1>1. Answered("persisted", q.graph, FALSE) \in Resolve
  BY AnsweredType DEF Answers, Resolve
<1>2. [q EXCEPT !.at = "look", !.seen = g, !.stamp = clock] \in Resolve
  BY DEF Resolve
<1>3. [q EXCEPT !.seen = g] \in Resolve
  BY DEF Resolve
<1>4. Unsaved([q EXCEPT !.seen = g]) \in Resolve
  BY <1>3, UnsavedType
<1>5. Projecting(q) \in Resolve
  BY ProjectingType
<1> QED BY <1>1, <1>2, <1>4, <1>5 DEF Decided

(* The record of a reviewer without a request is a review record too.      *)
LEMMA NoReviewType == NoReview \in Review
<1>1. (CHOOSE t \in Targets : TRUE) \in Targets
  BY GraphAssumption
<1>2. (CHOOSE d \in Verdicts : TRUE) \in Verdicts
  BY VerdictAssumption
<1> QED BY <1>1, <1>2, ZeroType DEF NoReview, Review

-----------------------------------------------------------------------------
(* TypeOK, initially.                                                      *)
LEMMA TypeInit == Init => TypeOK
<1> SUFFICES ASSUME Init PROVE TypeOK
  OBVIOUS
<1>1. (CHOOSE g \in Graphs : TRUE) \in Graphs
  BY GraphAssumption
<1>2. resolver \in [Resolvers -> Resolve]
  BY <1>1, AnsweredType DEF Init, Answers
<1>3. reviewer \in [Reviewers -> Review]
  BY NoReviewType DEF Init
<1>4. reviews \in [Targets -> Seq([status: Verdicts, at: Time])]
  BY DEF Init
<1>5. /\ snapshots \subseteq [graph: Graphs, at: Time]
      /\ groups \in Graphs \cup {NoGraph}
      /\ rows \in [Targets -> RowStatus]
  BY DEF Init, RowStatus
<1>6. clock \in Time /\ resolves \in 0 .. MaxResolves /\ faults \in 0 .. MaxFaults
  BY BoundAssumption DEF Init, Time
<1> QED BY <1>2, <1>3, <1>4, <1>5, <1>6 DEF TypeOK

(* A step of one resolver keeps the types if its new record and whatever   *)
(* table it writes are well typed.                                         *)
LEMMA TypeNext == TypeOK /\ [Next]_vars => TypeOK'
<1> SUFFICES ASSUME TypeOK, [Next]_vars PROVE TypeOK'
  OBVIOUS
<1> USE DEF TypeOK
<1>a. \A r \in Resolvers, q \in Resolve :
        Goes(r, q) => resolver' \in [Resolvers -> Resolve]
  BY DEF Goes
<1>b. faults < MaxFaults /\ faults' = faults + 1 => faults' \in 0 .. MaxFaults
  BY BoundAssumption
<1>1. ASSUME NEW r \in Resolvers, Request(r) PROVE TypeOK'
  <2>0. \A q \in Resolve : [q EXCEPT !.alone = FALSE] \in Resolve
    BY DEF Resolve
  <2>1. \A o \in Resolvers : [resolver[o] EXCEPT !.alone = FALSE] \in Resolve
    BY <2>0
  <2>2. \A g \in Graphs, m \in BOOLEAN, st \in BOOLEAN, al \in BOOLEAN :
          [at |-> "read", graph |-> g, missing |-> m, stale |-> st,
           seen |-> NoGraph, stamp |-> 0, answer |-> "none",
           warned |-> FALSE, alone |-> al] \in Resolve
    BY ZeroType DEF Resolve, Answers
  <2>3. PICK g \in Graphs, m \in BOOLEAN, st \in BOOLEAN :
          resolver' = [o \in Resolvers |->
              IF o = r
              THEN [at |-> "read", graph |-> g, missing |-> m,
                    stale |-> st, seen |-> NoGraph, stamp |-> 0,
                    answer |-> "none", warned |-> FALSE,
                    alone |-> \A p \in Resolvers \ {r} : Idle(p)]
              ELSE [resolver[o] EXCEPT !.alone = FALSE]]
    BY <1>1 DEF Request
  <2> DEFINE al == \A p \in Resolvers \ {r} : Idle(p)
  <2>6. al \in BOOLEAN
    OBVIOUS
  <2> HIDE DEF al
  <2>7. [at |-> "read", graph |-> g, missing |-> m, stale |-> st,
         seen |-> NoGraph, stamp |-> 0, answer |-> "none",
         warned |-> FALSE, alone |-> al] \in Resolve
    BY <2>2, <2>6
  <2>8. resolver' = [o \in Resolvers |->
              IF o = r
              THEN [at |-> "read", graph |-> g, missing |-> m,
                    stale |-> st, seen |-> NoGraph, stamp |-> 0,
                    answer |-> "none", warned |-> FALSE, alone |-> al]
              ELSE [resolver[o] EXCEPT !.alone = FALSE]]
    BY <2>3, Zenon DEF al
  <2>4. resolver' \in [Resolvers -> Resolve]
    BY <2>1, <2>7, <2>8
  <2>5. resolves' \in 0 .. MaxResolves
    BY <1>1, BoundAssumption DEF Request
  <2> QED BY <1>1, <2>4, <2>5 DEF Request
<1>2. ASSUME NEW r \in Resolvers, ReadLatest(r) PROVE TypeOK'
  <2>1. \A g \in Graphs \cup {NoGraph} : Decided(resolver[r], g) \in Resolve
    BY DecidedType
  <2> QED BY <1>2, <1>a, <2>1 DEF ReadLatest
<1>3. ASSUME NEW r \in Resolvers, ReadFails(r) PROVE TypeOK'
  <2>1. Decided(resolver[r], NoGraph) \in Resolve
    BY DecidedType
  <2> QED BY <1>3, <1>a, <1>b, <2>1 DEF ReadFails
<1>4. ASSUME NEW r \in Resolvers, LookForSame(r) PROVE TypeOK'
  <2>1. Projecting(resolver[r]) \in Resolve
    BY ProjectingType
  <2>2. [resolver[r] EXCEPT !.at = "insert"] \in Resolve
    BY DEF Resolve
  <2> QED BY <1>4, <1>a, <2>1, <2>2 DEF LookForSame
<1>5. ASSUME NEW r \in Resolvers, Insert(r) PROVE TypeOK'
  <2>1. Projecting(resolver[r]) \in Resolve /\ Unsaved(resolver[r]) \in Resolve
    BY ProjectingType, UnsavedType
  <2>2. resolver[r].graph \in Graphs /\ resolver[r].stamp \in Time
    BY DEF Resolve
  <2>3. snapshots' \subseteq [graph: Graphs, at: Time]
    BY <1>5, <2>2 DEF Insert
  <2>4. resolver' \in [Resolvers -> Resolve]
    BY <1>5, <1>a, <2>1 DEF Insert
  <2> QED BY <1>5, <2>3, <2>4 DEF Insert
<1>6. ASSUME NEW r \in Resolvers, SaveFails(r) PROVE TypeOK'
  <2>1. Unsaved(resolver[r]) \in Resolve
    BY UnsavedType
  <2> QED BY <1>6, <1>a, <1>b, <2>1 DEF SaveFails
<1>7. ASSUME NEW r \in Resolvers, SaveGroups(r) PROVE TypeOK'
  <2>1. AfterGroups(resolver[r], FALSE) \in Resolve
    BY AfterGroupsType
  <2>2. resolver[r].graph \in Graphs
    BY DEF Resolve
  <2> QED BY <1>7, <1>a, <2>1, <2>2 DEF SaveGroups
<1>8. ASSUME NEW r \in Resolvers, Clear(r) PROVE TypeOK'
  <2>1. [resolver[r] EXCEPT !.at = "fill"] \in Resolve
    BY DEF Resolve
  <2> QED BY <1>8, <1>a, <2>1 DEF Clear, RowStatus
<1>9. ASSUME NEW r \in Resolvers, Fill(r) PROVE TypeOK'
  <2>1. Answered("persisted", resolver[r].graph, resolver[r].warned) \in Resolve
    BY AnsweredType DEF Answers, Resolve
  <2>2. rows' \in [Targets -> RowStatus]
    BY <1>9 DEF Fill, Filled, RowStatus
  <2> QED BY <1>9, <1>a, <2>1, <2>2 DEF Fill
<1>10. ASSUME NEW r \in Resolvers, ProjectionFails(r) PROVE TypeOK'
  <2>0. resolver[r] \in Resolve
    OBVIOUS
  <2>1. Answered("persisted", resolver[r].graph, TRUE) \in Resolve
    BY <2>0, AnsweredType DEF Answers, Resolve
  <2>2. AfterGroups(resolver[r], TRUE) \in Resolve
    BY <2>0, AfterGroupsType
  <2> QED BY <1>10, <1>a, <1>b, <2>1, <2>2 DEF ProjectionFails
<1>11. ASSUME NEW v \in Reviewers, Look(v) PROVE TypeOK'
  <2>1. reviewer' \in [Reviewers -> Review]
    BY <1>11, ZeroType DEF Look, Review, Present
  <2> QED BY <1>11, <2>1 DEF Look
<1>12. ASSUME NEW v \in Reviewers, Reread(v) PROVE TypeOK'
  <2>1. [reviewer[v] EXCEPT !.at = "commit", !.stamp = clock] \in Review
    BY DEF Review
  <2>2. reviewer' \in [Reviewers -> Review]
    BY <1>12, <2>1, NoReviewType DEF Reread
  <2> QED BY <1>12, <2>2 DEF Reread
<1>13. ASSUME NEW v \in Reviewers, Commit(v) PROVE TypeOK'
  <2>1. /\ reviewer[v].target \in Targets /\ reviewer[v].verdict \in Verdicts
        /\ reviewer[v].stamp \in Time
    BY DEF Review
  <2> DEFINE d == [status |-> reviewer[v].verdict, at |-> reviewer[v].stamp]
             D == [status: Verdicts, at: Time]
  <2>4. d \in D
    BY <2>1
  <2>5. reviews' = [reviews EXCEPT ![reviewer[v].target] = Append(@, d)]
    BY <1>13 DEF Commit
  <2>6. reviews \in [Targets -> Seq(D)]
    OBVIOUS
  <2>2. reviews' \in [Targets -> Seq(D)]
    <3> HIDE DEF d, D
    <3> QED BY <2>1, <2>4, <2>5, <2>6
  <2>3. rows' \in [Targets -> RowStatus]
    BY <1>13, <2>1 DEF Commit, RowStatus
  <2> QED BY <1>13, <2>2, <2>3, NoReviewType DEF Commit
<1>14. ASSUME NEW v \in Reviewers, CommitFails(v) PROVE TypeOK'
  <2>1. reviewer' \in [Reviewers -> Review]
    BY <1>14, NoReviewType DEF CommitFails
  <2> QED BY <1>14, <1>b, <2>1 DEF CommitFails
<1>15. CASE Tick
  <2>1. clock' \in Time
    BY <1>15, BoundAssumption DEF Tick, Time
  <2> QED BY <1>15, <2>1 DEF Tick
<1>16. CASE Crash
  <2>1. \A r \in Resolvers : Answered("none", resolver[r].graph, FALSE) \in Resolve
    BY AnsweredType DEF Answers, Resolve
  <2> QED BY <1>16, <1>b, <2>1, NoReviewType DEF Crash
<1>17. CASE UNCHANGED vars
  BY <1>17 DEF vars
<1> QED
  BY <1>1, <1>2, <1>3, <1>4, <1>5, <1>6, <1>7, <1>8, <1>9, <1>10, <1>11,
     <1>12, <1>13, <1>14, <1>15, <1>16, <1>17 DEF Next

(* Every table and every request in flight keeps its type.                 *)
THEOREM GateTypeCorrect == Spec => []TypeOK
BY TypeInit, TypeNext, PTL DEF Spec

-----------------------------------------------------------------------------
(* Only Commit gives a row a verdict, in the transaction that records the  *)
(* review; every other write of a row keeps what is there or stores a      *)
(* status that is no verdict.                                              *)
LEMMA HumanNext ==
    TypeOK /\ DecisionFromHuman /\ [Next]_vars => DecisionFromHuman'
<1> SUFFICES ASSUME TypeOK, DecisionFromHuman, [Next]_vars
             PROVE  DecisionFromHuman'
  OBVIOUS
<1>1. \/ \E r \in Resolvers : Clear(r)
      \/ \E r \in Resolvers : Fill(r)
      \/ \E v \in Reviewers : Commit(v)
      \/ UNCHANGED <<rows, reviews>>
  BY DEF Next, vars, Request, ReadLatest, ReadFails, LookForSame, Insert,
         SaveFails, SaveGroups, ProjectionFails, Look, Reread, CommitFails,
         Tick, Crash
<1>2. ASSUME NEW r \in Resolvers, Clear(r) PROVE DecisionFromHuman'
  BY <1>2, VerdictAssumption DEF Clear, DecisionFromHuman
<1>3. ASSUME NEW r \in Resolvers, Fill(r) PROVE DecisionFromHuman'
  <2>1. ASSUME NEW t \in Targets, rows'[t] \in Verdicts
        PROVE  rows'[t] = rows[t]
    BY <1>3, <2>1, VerdictAssumption DEF Fill, Filled
  <2> QED BY <1>3, <2>1 DEF Fill, DecisionFromHuman
<1>4. ASSUME NEW v \in Reviewers, Commit(v) PROVE DecisionFromHuman'
  <2> DEFINE q == reviewer[v]
             d == [status |-> q.verdict, at |-> q.stamp]
             D == [status: Verdicts, at: Time]
  <2>1. q.target \in Targets /\ d \in D /\ d.status = q.verdict
    BY DEF TypeOK, Review
  <2>2. reviews \in [Targets -> Seq(D)] /\ rows \in [Targets -> RowStatus]
    BY DEF TypeOK
  <2>3. reviews' = [reviews EXCEPT ![q.target] = Append(@, d)]
    BY <1>4 DEF Commit
  <2>4. rows' = [rows EXCEPT ![q.target] =
                    IF @ = "absent" THEN @ ELSE q.verdict]
    BY <1>4 DEF Commit
  <2>5. SUFFICES ASSUME NEW t \in Targets, rows'[t] \in Verdicts
        PROVE  /\ reviews'[t] # <<>>
               /\ rows'[t] = reviews'[t][Len(reviews'[t])].status
    BY DEF DecisionFromHuman
  <2>6. CASE t = q.target
    <3>1. rows'[t] = q.verdict
      BY <2>1, <2>2, <2>4, <2>5, <2>6, VerdictAssumption
    <3>2. reviews'[t] = Append(reviews[t], d)
      BY <2>1, <2>2, <2>3, <2>6
    <3>3. reviews[t] \in Seq(D)
      BY <2>2
    <3>4. /\ reviews'[t] # <<>>
          /\ reviews'[t][Len(reviews'[t])] = d
      <4> HIDE DEF d, D
      <4> QED BY <2>1, <3>2, <3>3
    <3> QED BY <2>1, <3>1, <3>4
  <2>7. CASE t # q.target
    <3>1. rows'[t] = rows[t] /\ reviews'[t] = reviews[t]
      BY <2>2, <2>3, <2>4, <2>7
    <3> QED BY <2>5, <3>1 DEF DecisionFromHuman
  <2> QED BY <2>6, <2>7
<1>5. CASE UNCHANGED <<rows, reviews>>
  BY <1>5 DEF DecisionFromHuman
<1> QED BY <1>1, <1>2, <1>3, <1>4, <1>5

(* A row carries a verdict only if a human gave it: the one committed last *)
(* for its target, whatever resolves, failures and crashes interleave.     *)
THEOREM VerdictsAreHuman == Spec => []DecisionFromHuman
<1>1. Init => DecisionFromHuman
  BY VerdictAssumption DEF Init, DecisionFromHuman
<1> QED BY <1>1, TypeInit, TypeNext, HumanNext, PTL DEF Spec

-----------------------------------------------------------------------------
(* What makes PersistedIsStored inductive: a request in flight has no      *)
(* answer yet, and one that projects has its graph stored already, so its  *)
(* later answer is true; snapshots are never removed.                      *)
Truthful(q) ==
    /\ q.at # "idle" => q.answer = "none"
    /\ q.answer = "persisted" \/ q.at \in {"groups", "clear", "fill"}
       => Stored(q.graph)

OneSnapshot == \A s, t \in snapshots : s.graph = t.graph => s = t
AllTruthful == \A r \in Resolvers : Truthful(resolver[r])

(* A resolver that finds its graph stored stays truthful as it goes on.    *)
LEMMA ProjectingTruthful ==
    ASSUME NEW q \in Resolve, Stored(q.graph), q.answer = "none"
    PROVE  Truthful(Projecting(q))
BY DEF Projecting, Truthful, Resolve

LEMMA AfterGroupsTruthful ==
    ASSUME NEW q \in Resolve, NEW w \in BOOLEAN, Truthful(q), q.at = "groups"
    PROVE  Truthful(AfterGroups(q, w))
<1>1. Truthful(Answered("persisted", q.graph, w))
  BY DEF Answered, Truthful
<1>2. Truthful([q EXCEPT !.at = "clear", !.warned = w])
  BY DEF Truthful, Resolve
<1> QED BY <1>1, <1>2 DEF AfterGroups

(* An answer that claims nothing is truthful.                              *)
LEMMA UnsavedTruthful ==
    ASSUME NEW q \in Resolve
    PROVE  Truthful(Unsaved(q))
BY DEF Unsaved, Answered, Truthful

(* The graph the read routes serve has a snapshot.                         *)
LEMMA ServesStored ==
    ASSUME NEW g \in Graphs, Serves(g)
    PROVE  Stored(g)
BY GraphAssumption DEF Serves, Stored

(* The branch after the latest snapshot is known keeps the record          *)
(* truthful: it answers "persisted" for a stored graph only.               *)
LEMMA DecidedTruthful ==
    ASSUME NEW q \in Resolve, NEW g \in Graphs \cup {NoGraph},
           g # NoGraph => Stored(g), q.answer = "none"
    PROVE  Truthful(Decided(q, g))
<1>1. [q EXCEPT !.seen = g] \in Resolve
  BY DEF Resolve
<1>2. Truthful(Unsaved([q EXCEPT !.seen = g]))
  BY <1>1, UnsavedTruthful
<1>3. CASE g = q.graph
  <2>1. Stored(q.graph)
    BY <1>3, GraphAssumption DEF Resolve
  <2> QED BY <1>3, <2>1, ProjectingTruthful
          DEF Decided, Answered, Truthful
<1>4. CASE g # q.graph
  <2>1. Truthful([q EXCEPT !.at = "look", !.seen = g, !.stamp = clock])
    BY DEF Truthful, Resolve
  <2> QED BY <1>2, <1>4, <2>1 DEF Decided
<1> QED BY <1>3, <1>4

(* A step that removes no snapshot keeps the records it does not touch     *)
(* truthful.                                                               *)
LEMMA TruthfulStays ==
    ASSUME NEW q, Truthful(q), snapshots \subseteq snapshots'
    PROVE  Truthful(q)'
BY DEF Truthful, Stored

(* A step of one resolver that leaves its own record truthful leaves       *)
(* every record truthful.                                                  *)
LEMMA GoesTruthful ==
    ASSUME TypeOK, AllTruthful, snapshots \subseteq snapshots',
           NEW r \in Resolvers, NEW q, Goes(r, q), Truthful(q)'
    PROVE  AllTruthful'
<1> SUFFICES ASSUME NEW o \in Resolvers PROVE Truthful(resolver[o])'
  BY DEF AllTruthful
<1>1. CASE o = r
  BY <1>1 DEF Goes, TypeOK, Truthful, Stored
<1>2. CASE o # r
  BY <1>2, TruthfulStays DEF Goes, TypeOK, AllTruthful, Truthful, Stored
<1> QED BY <1>1, <1>2

(* Every step keeps every resolver truthful.                               *)
LEMMA TruthfulNext ==
    TypeOK /\ AllTruthful /\ [Next]_vars => AllTruthful'
<1> SUFFICES ASSUME TypeOK, AllTruthful, [Next]_vars PROVE AllTruthful'
  OBVIOUS
<1>a. \A r \in Resolvers : resolver[r] \in Resolve /\ Truthful(resolver[r])
  BY DEF TypeOK, AllTruthful
<1>b. ASSUME NEW r \in Resolvers, NEW q, Goes(r, q), Truthful(q),
             snapshots' = snapshots
      PROVE  AllTruthful'
  BY <1>b, TruthfulStays, GoesTruthful
<1>1. ASSUME NEW r \in Resolvers, Request(r) PROVE AllTruthful'
  <2> SUFFICES ASSUME NEW o \in Resolvers PROVE Truthful(resolver[o])'
    BY DEF AllTruthful
  <2>1. snapshots' = snapshots
    BY <1>1 DEF Request
  <2>2. CASE o = r
    BY <1>1, <2>2 DEF Request, Truthful
  <2>3. CASE o # r
    <3>1. resolver'[o] = [resolver[o] EXCEPT !.alone = FALSE]
      BY <1>1, <2>3 DEF Request
    <3> QED BY <1>a, <2>1, <3>1 DEF Truthful, Stored, Resolve
  <2> QED BY <2>2, <2>3
<1>2. ASSUME NEW r \in Resolvers, ReadLatest(r) PROVE AllTruthful'
  <2>1. PICK g \in Graphs \cup {NoGraph} :
          Serves(g) /\ Goes(r, Decided(resolver[r], g))
    BY <1>2 DEF ReadLatest
  <2>2. resolver[r].answer = "none"
    BY <1>2, <1>a DEF ReadLatest, Truthful
  <2>3. Truthful(Decided(resolver[r], g))
    BY <1>a, <2>1, <2>2, ServesStored, DecidedTruthful
  <2> QED BY <1>2, <1>b, <2>1, <2>3 DEF ReadLatest
<1>3. ASSUME NEW r \in Resolvers, ReadFails(r) PROVE AllTruthful'
  <2>1. Truthful(Decided(resolver[r], NoGraph))
    BY <1>3, <1>a, DecidedTruthful DEF ReadFails, Truthful
  <2> QED BY <1>3, <1>b, <2>1 DEF ReadFails
<1>4. ASSUME NEW r \in Resolvers, LookForSame(r) PROVE AllTruthful'
  <2>1. resolver[r].answer = "none"
    BY <1>4, <1>a DEF LookForSame, Truthful
  <2>2. Truthful([resolver[r] EXCEPT !.at = "insert"])
    BY <1>a, <2>1 DEF Truthful, Resolve
  <2>3. Stored(resolver[r].graph) => Truthful(Projecting(resolver[r]))
    BY <1>a, <2>1, ProjectingTruthful
  <2> QED BY <1>4, <1>b, <2>2, <2>3 DEF LookForSame
<1>5. ASSUME NEW r \in Resolvers, Insert(r) PROVE AllTruthful'
  <2>1. PICK q \in Resolve : q = resolver[r] /\ q.answer = "none"
    BY <1>5, <1>a DEF Insert, Truthful
  <2>2. CASE Stored(q.graph)
    BY <1>5, <1>b, <2>1, <2>2, UnsavedTruthful DEF Insert
  <2>3. CASE ~ Stored(q.graph)
    <3> DEFINE s == [graph |-> q.graph, at |-> q.stamp]
    <3>1. snapshots' = snapshots \cup {s}
      BY <1>5, <2>1, <2>3 DEF Insert
    <3>2. PICK p : p = Projecting(q)
      OBVIOUS
    <3>3. Goes(r, p)
      BY <1>5, <2>1, <2>3, <3>2 DEF Insert
    <3>4. Stored(q.graph)'
      <4>1. s \in snapshots' /\ s.graph = q.graph
        BY <3>1
      <4> HIDE DEF s
      <4> QED BY <4>1 DEF Stored
    <3>5. p.graph = q.graph /\ (p.at # "idle" => p.answer = "none")
      BY <2>1, <3>2 DEF Projecting, Resolve
    <3>6. Truthful(p)'
      BY <3>4, <3>5 DEF Truthful
    <3> QED BY <3>1, <3>3, <3>6, GoesTruthful
  <2> QED BY <2>2, <2>3
<1>6. ASSUME NEW r \in Resolvers, SaveFails(r) PROVE AllTruthful'
  BY <1>6, <1>a, <1>b, UnsavedTruthful DEF SaveFails
<1>7. ASSUME NEW r \in Resolvers, SaveGroups(r) PROVE AllTruthful'
  <2>1. Truthful(AfterGroups(resolver[r], FALSE))
    BY <1>7, <1>a, AfterGroupsTruthful DEF SaveGroups
  <2> QED BY <1>7, <1>b, <2>1 DEF SaveGroups
<1>8. ASSUME NEW r \in Resolvers, Clear(r) PROVE AllTruthful'
  <2>1. Truthful([resolver[r] EXCEPT !.at = "fill"])
    BY <1>8, <1>a DEF Clear, Truthful, Resolve
  <2> QED BY <1>8, <1>b, <2>1 DEF Clear
<1>9. ASSUME NEW r \in Resolvers, Fill(r) PROVE AllTruthful'
  <2>1. Truthful(Answered("persisted", resolver[r].graph, resolver[r].warned))
    BY <1>9, <1>a DEF Fill, Truthful, Answered
  <2> QED BY <1>9, <1>b, <2>1 DEF Fill
<1>10. ASSUME NEW r \in Resolvers, ProjectionFails(r) PROVE AllTruthful'
  <2>1. Truthful(Answered("persisted", resolver[r].graph, TRUE))
    BY <1>10, <1>a DEF ProjectionFails, Truthful, Answered
  <2>2. resolver[r].at = "groups" => Truthful(AfterGroups(resolver[r], TRUE))
    BY <1>a, AfterGroupsTruthful
  <2> QED BY <1>10, <1>b, <2>1, <2>2 DEF ProjectionFails
<1>11. CASE Crash
  <2> SUFFICES ASSUME NEW r \in Resolvers PROVE Truthful(resolver[r])'
    BY DEF AllTruthful
  <2>1. snapshots' = snapshots
    BY <1>11 DEF Crash
  <2>2. CASE Idle(r)
    BY <1>11, <1>a, <2>1, <2>2 DEF Crash, Truthful, Stored
  <2>3. CASE ~ Idle(r)
    BY <1>11, <2>3 DEF Crash, Truthful, Answered
  <2> QED BY <2>2, <2>3
<1>12. CASE UNCHANGED <<resolver, snapshots>>
  BY <1>12 DEF AllTruthful, Truthful, Stored
<1>13. Next \/ UNCHANGED vars
  OBVIOUS
<1> QED
  BY <1>1, <1>2, <1>3, <1>4, <1>5, <1>6, <1>7, <1>8, <1>9, <1>10, <1>11,
     <1>12, <1>13 DEF Next, vars, Look, Reread, Commit, CommitFails, Tick

(* Insert is the only step that adds a snapshot, and only for a graph      *)
(* that has none.                                                          *)
LEMMA OneSnapshotNext ==
    TypeOK /\ OneSnapshot /\ [Next]_vars => OneSnapshot'
<1> SUFFICES ASSUME TypeOK, OneSnapshot, [Next]_vars PROVE OneSnapshot'
  OBVIOUS
<1>1. \/ UNCHANGED snapshots
      \/ \E r \in Resolvers :
            /\ ~ Stored(resolver[r].graph)
            /\ snapshots' = snapshots
                  \cup {[graph |-> resolver[r].graph, at |-> resolver[r].stamp]}
  BY DEF Next, vars, Request, ReadLatest, ReadFails, LookForSame, Insert,
         SaveFails, SaveGroups, Clear, Fill, ProjectionFails, Look, Reread,
         Commit, CommitFails, Tick, Crash
<1> QED BY <1>1 DEF OneSnapshot, Stored

(* However the saves of concurrent requests race, a graph has at most one  *)
(* snapshot, and a request that answered "persisted" told the truth.       *)
THEOREM PersistedAnswersAreTrue == Spec => []PersistedIsStored
<1>1. Init => OneSnapshot /\ AllTruthful
  BY DEF Init, OneSnapshot, AllTruthful, Truthful, Answered
<1>2. OneSnapshot /\ AllTruthful => PersistedIsStored
  BY DEF OneSnapshot, AllTruthful, Truthful, PersistedIsStored
<1> QED BY <1>1, <1>2, TypeInit, TypeNext, OneSnapshotNext, TruthfulNext,
           PTL DEF Spec

-----------------------------------------------------------------------------
(* What makes ProjectionIsExact hold: a resolver that nobody has joined is *)
(* the only one that runs, and between its DELETE and its upsert the table *)
(* has no rows, since a reviewer only changes rows that are there.         *)
Undisturbed(r) ==
    resolver[r].alone /\ ~ Idle(r) =>
        /\ \A o \in Resolvers : ~ Idle(o) => o = r
        /\ resolver[r].at = "fill" => \A t \in Targets : rows[t] = "absent"

AllUndisturbed == \A r \in Resolvers : Undisturbed(r)

(* A resolver goes on, not to the upsert, as alone as it was, or ends.     *)
GoesOn(q, p) == p.at = "idle" \/ (p.alone = q.alone /\ p.at # "fill")

LEMMA ProjectingGoesOn ==
    ASSUME NEW q \in Resolve
    PROVE  /\ GoesOn(q, Projecting(q)) /\ GoesOn(q, Unsaved(q))
           /\ \A g \in Graphs \cup {NoGraph} : GoesOn(q, Decided(q, g))
<1>1. GoesOn(q, Projecting(q))
  BY DEF GoesOn, Projecting, Resolve
<1>2. \A p : Unsaved(p).at = "idle"
  BY DEF Unsaved, Answered
<1>3. ASSUME NEW g \in Graphs \cup {NoGraph}  PROVE GoesOn(q, Decided(q, g))
  <2>1. GoesOn(q, [q EXCEPT !.at = "look", !.seen = g, !.stamp = clock])
    BY DEF GoesOn, Resolve
  <2>2. Answered("persisted", q.graph, FALSE).at = "idle"
    BY DEF Answered
  <2> QED BY <1>1, <1>2, <2>1, <2>2 DEF Decided, GoesOn
<1> QED BY <1>1, <1>2, <1>3 DEF GoesOn

LEMMA AfterGroupsGoesOn ==
    ASSUME NEW q \in Resolve, NEW w \in BOOLEAN
    PROVE  GoesOn(q, AfterGroups(q, w))
BY DEF GoesOn, AfterGroups, Answered, Resolve

(* A step of a running resolver disturbs no one: nobody else runs alone.   *)
LEMMA GoesUndisturbed ==
    ASSUME TypeOK, AllUndisturbed, NEW r \in Resolvers, NEW q, Goes(r, q), ~ Idle(r),
           \/ GoesOn(resolver[r], q)
           \/ q.alone = resolver[r].alone /\ \A t \in Targets : rows'[t] = "absent"
    PROVE  AllUndisturbed'
<1>1. resolver'[r] = q /\ \A o \in Resolvers : o # r => resolver'[o] = resolver[o]
  BY DEF Goes, TypeOK
<1> SUFFICES ASSUME NEW o \in Resolvers, resolver'[o].alone, resolver'[o].at # "idle"
             PROVE  /\ \A p \in Resolvers : resolver'[p].at # "idle" => p = o
                    /\ resolver'[o].at = "fill" => \A t \in Targets : rows'[t] = "absent"
  BY DEF AllUndisturbed, Undisturbed, Idle
<1>2. o = r
  <2>1. o # r => resolver[o].alone /\ ~ Idle(o)
    BY <1>1 DEF Idle
  <2> QED BY <2>1 DEF AllUndisturbed, Undisturbed
<1>3. q.at # "idle" /\ q.alone
  BY <1>1, <1>2
<1>4. resolver[r].alone
  BY <1>3 DEF GoesOn
<1>5. \A p \in Resolvers : ~ Idle(p) => p = r
  BY <1>4 DEF AllUndisturbed, Undisturbed
<1>6. \A p \in Resolvers : resolver'[p].at # "idle" => p = r
  BY <1>1, <1>5 DEF Idle
<1>7. q.at = "fill" => \A t \in Targets : rows'[t] = "absent"
  BY <1>3 DEF GoesOn
<1> QED BY <1>1, <1>2, <1>6, <1>7

(* Every step keeps it.                                                    *)
LEMMA UndisturbedNext ==
    TypeOK /\ AllUndisturbed /\ [Next]_vars => AllUndisturbed'
<1> SUFFICES ASSUME TypeOK, AllUndisturbed, [Next]_vars PROVE AllUndisturbed'
  OBVIOUS
<1>a. \A r \in Resolvers : resolver[r] \in Resolve
  BY DEF TypeOK
<1>b. \A r \in Resolvers : \A q :
        Goes(r, q) /\ ~ Idle(r) /\ GoesOn(resolver[r], q) => AllUndisturbed'
  BY GoesUndisturbed
<1>1. ASSUME NEW r \in Resolvers, Request(r) PROVE AllUndisturbed'
  <2> SUFFICES ASSUME NEW o \in Resolvers PROVE Undisturbed(o)'
    BY DEF AllUndisturbed
  <2>1. ASSUME NEW p \in Resolvers, p # r
        PROVE  resolver'[p] = [resolver[p] EXCEPT !.alone = FALSE]
    BY <1>1, <2>1 DEF Request
  <2>2. ASSUME NEW p \in Resolvers, p # r
        PROVE  resolver'[p].at = resolver[p].at /\ ~ resolver'[p].alone
    BY <1>a, <2>1, <2>2 DEF Resolve
  <2>3. /\ resolver'[r].at = "read"
        /\ resolver'[r].alone => \A p \in Resolvers \ {r} : Idle(p)
    BY <1>1 DEF Request
  <2>4. CASE o = r
    BY <2>2, <2>3, <2>4 DEF Undisturbed, Idle
  <2>5. CASE o # r
    BY <2>2, <2>5 DEF Undisturbed
  <2> QED BY <2>4, <2>5
<1>2. ASSUME NEW r \in Resolvers, ReadLatest(r) \/ ReadFails(r) PROVE AllUndisturbed'
  <2>1. PICK g \in Graphs \cup {NoGraph} : Goes(r, Decided(resolver[r], g))
    BY <1>2 DEF ReadLatest, ReadFails
  <2>2. ~ Idle(r)
    BY <1>2 DEF ReadLatest, ReadFails, Idle
  <2>3. GoesOn(resolver[r], Decided(resolver[r], g))
    BY <1>a, ProjectingGoesOn
  <2> QED BY <1>b, <2>1, <2>2, <2>3
<1>3. ASSUME NEW r \in Resolvers, LookForSame(r) \/ Insert(r) \/ SaveFails(r)
      PROVE  AllUndisturbed'
  <2>1. ~ Idle(r)
    BY <1>3 DEF LookForSame, Insert, SaveFails, Idle
  <2>2. GoesOn(resolver[r], [resolver[r] EXCEPT !.at = "insert"])
    BY <1>a DEF GoesOn, Resolve
  <2>3. \E q : Goes(r, q) /\ GoesOn(resolver[r], q)
    BY <1>a, <1>3, <2>2, ProjectingGoesOn DEF LookForSame, Insert, SaveFails
  <2> QED BY <1>b, <2>1, <2>3
<1>4. ASSUME NEW r \in Resolvers, SaveGroups(r) PROVE AllUndisturbed'
  <2>1. GoesOn(resolver[r], AfterGroups(resolver[r], FALSE))
    BY <1>a, AfterGroupsGoesOn
  <2> QED BY <1>4, <1>b, <2>1 DEF SaveGroups, Idle
<1>5. ASSUME NEW r \in Resolvers, Clear(r) PROVE AllUndisturbed'
  <2> DEFINE q == [resolver[r] EXCEPT !.at = "fill"]
  <2>1. Goes(r, q) /\ ~ Idle(r) /\ \A t \in Targets : rows'[t] = "absent"
    BY <1>5 DEF Clear, Idle
  <2>2. q.alone = resolver[r].alone
    BY <1>a DEF Resolve
  <2> HIDE DEF q
  <2> QED BY <2>1, <2>2, GoesUndisturbed
<1>6. ASSUME NEW r \in Resolvers, Fill(r) PROVE AllUndisturbed'
  <2>1. \A g, w : GoesOn(resolver[r], Answered("persisted", g, w))
    BY DEF GoesOn, Answered
  <2> QED BY <1>6, <1>b, <2>1 DEF Fill, Idle
<1>7. ASSUME NEW r \in Resolvers, ProjectionFails(r) PROVE AllUndisturbed'
  <2>1. GoesOn(resolver[r], Answered("persisted", resolver[r].graph, TRUE))
    BY DEF GoesOn, Answered
  <2>2. GoesOn(resolver[r], AfterGroups(resolver[r], TRUE))
    BY <1>a, AfterGroupsGoesOn
  <2>3. ~ Idle(r) /\ \E q : Goes(r, q) /\ GoesOn(resolver[r], q)
    BY <1>7, <2>1, <2>2 DEF ProjectionFails, Idle
  <2> QED BY <1>b, <2>3
<1>8. ASSUME NEW v \in Reviewers, Commit(v) PROVE AllUndisturbed'
  <2>1. resolver' = resolver /\ \A t \in Targets : rows[t] = "absent" => rows'[t] = "absent"
    BY <1>8 DEF Commit, TypeOK
  <2> QED BY <2>1 DEF AllUndisturbed, Undisturbed, Idle
<1>9. CASE Crash
  <2>1. \A r \in Resolvers : resolver'[r].at = "idle"
    BY <1>9 DEF Crash, Idle, Answered
  <2> QED BY <2>1 DEF AllUndisturbed, Undisturbed, Idle
<1>10. CASE UNCHANGED <<resolver, rows>>
  BY <1>10 DEF AllUndisturbed, Undisturbed, Idle
<1>11. Next \/ UNCHANGED vars
  OBVIOUS
<1> QED
  BY <1>1, <1>2, <1>3, <1>4, <1>5, <1>6, <1>7, <1>8, <1>9, <1>10, <1>11
     DEF Next, vars, Look, Reread, CommitFails, Tick

(* A resolver that ends with a full answer of persisted has either nothing *)
(* to project or just filled the table.                                    *)
LEMMA PersistsFills ==
    ASSUME TypeOK, Next, NEW r \in Resolvers, Persists(r),
           TargetsOf[resolver[r].graph] # {}
    PROVE  Fill(r)
<1>a. /\ resolver[r] \in Resolve /\ resolver[r].at # "idle" /\ resolver'[r].at = "idle"
      /\ resolver'[r].answer = "persisted" /\ ~ resolver'[r].warned
      /\ resolver[r].missing \/ resolver[r].stale
  BY DEF Persists, Ends, Idle, TypeOK
<1>b. \A o \in Resolvers : \A q : Goes(o, q) => o = r /\ resolver'[r] = q
  BY <1>a DEF Goes, TypeOK
<1>c. \A q \in Resolve : q.graph = resolver[r].graph => Projecting(q).at # "idle"
  BY DEF Projecting, Resolve
<1>d. \A q \in Resolve : Unsaved(q).answer # "persisted"
  BY DEF Unsaved, Answered
<1>1. ASSUME NEW o \in Resolvers, Request(o) PROVE FALSE
  <2>1. CASE o = r
    BY <1>1, <1>a, <2>1 DEF Request, Idle
  <2>2. CASE o # r
    <3>1. resolver'[r] = [resolver[r] EXCEPT !.alone = FALSE]
      BY <1>1, <2>2 DEF Request
    <3> QED BY <1>a, <3>1 DEF Resolve
  <2> QED BY <2>1, <2>2
<1>2. ASSUME NEW o \in Resolvers, ReadLatest(o) \/ ReadFails(o) PROVE FALSE
  <2>1. PICK g \in Graphs \cup {NoGraph} : Goes(o, Decided(resolver[o], g))
    BY <1>2 DEF ReadLatest, ReadFails
  <2>2. resolver'[r] = Decided(resolver[r], g)
    BY <1>b, <2>1
  <2>3. [resolver[r] EXCEPT !.seen = g] \in Resolve
    BY <1>a, <2>1 DEF Resolve
  <2>4. [resolver[r] EXCEPT !.at = "look", !.seen = g, !.stamp = clock].at = "look"
    BY <1>a DEF Resolve
  <2> QED BY <1>a, <1>c, <1>d, <2>2, <2>3, <2>4 DEF Decided
<1>3. ASSUME NEW o \in Resolvers, LookForSame(o) \/ Insert(o) \/ SaveFails(o) PROVE FALSE
  <2>1. [resolver[r] EXCEPT !.at = "insert"].at = "insert"
    BY <1>a DEF Resolve
  <2>2. \/ Goes(o, Projecting(resolver[o])) \/ Goes(o, Unsaved(resolver[o]))
        \/ Goes(o, [resolver[o] EXCEPT !.at = "insert"])
    BY <1>3 DEF LookForSame, Insert, SaveFails
  <2> QED BY <1>a, <1>b, <1>c, <1>d, <2>1, <2>2
<1>4. ASSUME NEW o \in Resolvers, SaveGroups(o) \/ Clear(o) PROVE FALSE
  <2>1. \/ Goes(o, AfterGroups(resolver[o], FALSE))
        \/ Goes(o, [resolver[o] EXCEPT !.at = "fill"])
    BY <1>4 DEF SaveGroups, Clear
  <2>2. AfterGroups(resolver[r], FALSE).at # "idle"
    BY <1>a DEF AfterGroups, Resolve
  <2>3. [resolver[r] EXCEPT !.at = "fill"].at = "fill"
    BY <1>a DEF Resolve
  <2> QED BY <1>a, <1>b, <2>1, <2>2, <2>3
<1>5. ASSUME NEW o \in Resolvers, ProjectionFails(o) PROVE FALSE
  <2>1. \/ Goes(o, Answered("persisted", resolver[o].graph, TRUE))
        \/ Goes(o, AfterGroups(resolver[o], TRUE))
    BY <1>5 DEF ProjectionFails
  <2>2. Answered("persisted", resolver[r].graph, TRUE).warned
    BY DEF Answered
  <2>3. AfterGroups(resolver[r], TRUE).at # "idle"
    BY <1>a DEF AfterGroups, Resolve
  <2> QED BY <1>a, <1>b, <2>1, <2>2, <2>3
<1>6. ASSUME Crash PROVE FALSE
  BY <1>6, <1>a DEF Crash, Idle, Answered
<1>7. ASSUME UNCHANGED resolver PROVE FALSE
  BY <1>7, <1>a
<1>8. ASSUME NEW o \in Resolvers, Fill(o) PROVE Fill(r)
  BY <1>8, <1>b DEF Fill
<1> QED
  BY <1>1, <1>2, <1>3, <1>4, <1>5, <1>6, <1>7, <1>8
     DEF Next, Look, Reread, Commit, CommitFails, Tick

(* Whatever requests before it raced, failed or crashed and left in the    *)
(* rows: a resolve that no other one overlaps and that answers "persisted" *)
(* without a warning leaves its graph's targets as rows, and no others.    *)
THEOREM ProjectionsAreExact == Spec => ProjectionIsExact
<1> DEFINE Exact ==
      \A r \in Resolvers :
          Persists(r) /\ resolver[r].alone
              /\ TargetsOf[resolver[r].graph] # {}
          => {t \in Targets : rows'[t] # "absent"}
                = TargetsOf[resolver[r].graph]
<1>1. TypeOK /\ AllUndisturbed /\ [Next]_vars => [Exact]_vars
  <2> SUFFICES ASSUME TypeOK, AllUndisturbed, Next, NEW r \in Resolvers, Persists(r),
                      resolver[r].alone, TargetsOf[resolver[r].graph] # {}
               PROVE  {t \in Targets : rows'[t] # "absent"} = TargetsOf[resolver[r].graph]
    OBVIOUS
  <2>1. Fill(r)
    BY PersistsFills
  <2>2. \A t \in Targets : rows[t] = "absent"
    BY <2>1 DEF Fill, AllUndisturbed, Undisturbed, Idle
  <2>3. rows' = Filled(resolver[r].graph)
    BY <2>1 DEF Fill
  <2>4. resolver[r].graph \in Graphs
    BY DEF TypeOK, Resolve
  <2>5. TargetsOf[resolver[r].graph] \subseteq Targets
    BY <2>4, GraphAssumption
  <2>6. \A t \in Targets :
          rows'[t] = IF t \in TargetsOf[resolver[r].graph] THEN "pending" ELSE "absent"
    BY <2>2, <2>3, VerdictAssumption DEF Filled
  <2> QED BY <2>5, <2>6
<1>2. Init => AllUndisturbed
  BY DEF Init, AllUndisturbed, Undisturbed, Idle, Answered
<1>3. TypeOK /\ AllUndisturbed /\ [Next]_vars => AllUndisturbed'
  BY UndisturbedNext
<1>4. ProjectionIsExact <=> [][Exact]_vars
  BY DEF ProjectionIsExact
<1> HIDE DEF Exact
<1> QED BY <1>1, <1>2, <1>3, <1>4, TypeInit, TypeNext, PTL DEF Spec

-----------------------------------------------------------------------------
(* Promotion: what arbitration makes of the claims and legacy targets of a *)
(* review unit, for any claims, evidence and scores.                       *)

(* A set that is counted has as many elements as it takes.                 *)
LEMMA TwoOfMany ==
    ASSUME NEW S, IsFiniteSet(S)
    PROVE  Cardinality(S) >= 2 <=> \E x, y \in S : x # y
<1>1. Cardinality(S) \in Nat
  BY FS_CardinalityType
<1>2. ASSUME Cardinality(S) >= 2 PROVE \E x, y \in S : x # y
  <2>1. S # {}
    BY <1>2, FS_EmptySet
  <2>2. PICK x : x \in S
    BY <2>1
  <2>3. S # {x}
    BY <1>2, FS_Singleton
  <2> QED BY <2>2, <2>3
<1>3. ASSUME NEW x \in S, NEW y \in S, x # y PROVE Cardinality(S) >= 2
  <2>1. Cardinality(S) # 0 /\ Cardinality(S) # 1
    BY <1>3, FS_EmptySet, FS_Singleton
  <2> QED BY <1>1, <2>1
<1> QED BY <1>2, <1>3

(* The values a function takes on a finite set are finitely many.          *)
LEMMA FiniteRange ==
    ASSUME NEW S, IsFiniteSet(S), NEW f, DOMAIN f = S
    PROVE  IsFiniteSet({f[x] : x \in S})
<1> DEFINE T == {f[x] : x \in S}
           h == [x \in S |-> f[x]]
<1>1. h \in Surjection(S, T)
  BY DEF Surjection
<1> HIDE DEF h, T
<1>2. IsFiniteSet(T)
  BY <1>1, FS_Surjection
<1> QED BY <1>2 DEF T

(* An input: finitely many claims, and one legacy target or none.          *)
LEMMA InputFacts ==
    ASSUME NEW in \in Inputs
    PROVE  /\ in.claims \subseteq Claims /\ IsFiniteSet(in.claims)
           /\ in.legacy = {} \/ \E row \in LegacyRows : in.legacy = {row}
<1>1. /\ in.claims \in {{}} \cup {{f[i] : i \in 1 .. MaxClaims} :
                                     f \in [1 .. MaxClaims -> Claims]}
      /\ in.legacy \in {{}} \cup {{row} : row \in LegacyRows}
  BY DEF Inputs
<1>2. CASE in.claims = {}
  BY <1>1, <1>2, FS_EmptySet
<1>3. CASE in.claims # {}
  <2>1. PICK f \in [1 .. MaxClaims -> Claims] : in.claims = {f[i] : i \in 1 .. MaxClaims}
    BY <1>1, <1>3
  <2>2. IsFiniteSet(1 .. MaxClaims)
    BY PromotionAssumption, FS_Interval
  <2>3. IsFiniteSet({f[i] : i \in 1 .. MaxClaims})
    <3>1. DOMAIN f = 1 .. MaxClaims
      BY <2>1
    <3> QED BY <2>2, <3>1, FiniteRange
  <2> QED BY <1>1, <2>1, <2>3
<1> QED BY <1>2, <1>3

(* The claims of a group are all the claims that are about the same and    *)
(* cite the same.                                                          *)
LEMMA GroupFacts ==
    ASSUME NEW claims, NEW g \in ClaimGroups(claims)
    PROVE  /\ g \subseteq claims /\ (CHOOSE c \in g : TRUE) \in g
           /\ \A d \in g : \A c \in claims :
                 c \in g <=> c.about = d.about /\ Cited(c) = Cited(d)
<1>1. PICK e \in claims : g = {c \in claims : GroupKey(c) = GroupKey(e)}
  BY DEF ClaimGroups
<1>2. e \in g
  BY <1>1
<1>3. \A c, d : GroupKey(c) = GroupKey(d) <=> c.about = d.about /\ Cited(c) = Cited(d)
  BY DEF GroupKey
<1> QED BY <1>1, <1>2, <1>3

(* What becomes of the evidence of a group that agrees.                    *)
LEMMA AgreedFacts ==
    ASSUME NEW in \in Inputs, NEW g \in ClaimGroups(in.claims), Agreement(g),
           NEW d \in g
    PROVE  \E p, q \in Providers, refs \in SUBSET Evidence :
              BothSupport(in, p, q, refs) /\ refs = Cited(d)
<1>1. g \subseteq in.claims /\ in.claims \subseteq Claims /\ \A c \in g : Cited(c) = Cited(d)
  BY InputFacts, GroupFacts
<1>2. GroupRefs(g) \subseteq Evidence
      /\ \A c \in g : EffectiveStance(c) = "support" => c.refs # {}
  BY DEF Agreement, Unsupported
<1>3. Cited(d) \in SUBSET Evidence
  BY <1>2 DEF GroupRefs
<1>4. Supporters(g) \subseteq Providers
  BY <1>1, PromotionAssumption DEF Supporters
<1>5. IsFiniteSet(Supporters(g))
  BY <1>4, FS_Subset, PromotionAssumption
<1>6. PICK p \in Supporters(g), q \in Supporters(g) : p # q
  BY <1>5, TwoOfMany DEF Agreement
<1>7. \A r \in {p, q} : \E c \in g : c.by = r /\ EffectiveStance(c) = "support"
  BY DEF Supporters
<1>8. BothSupport(in, p, q, Cited(d))
  BY <1>1, <1>2, <1>6, <1>7 DEF BothSupport
<1> QED BY <1>3, <1>4, <1>8

(* The fields of a group's candidate.                                      *)
LEMMA CandidateFacts ==
    ASSUME NEW g
    PROVE  /\ CandidateOf(g).refs = GroupRefs(g)
           /\ CandidateOf(g).about = (CHOOSE c \in g : TRUE).about
           /\ CandidateOf(g).missing = {c.missing : c \in g} \ {"none"}
           /\ CandidateOf(g).class = "primary_candidate" <=> Agreement(g) /\ ~ Disagreement(g)
BY DEF CandidateOf

(* A group's candidate has one of two scores.                              *)
LEMMA CandidateScore ==
    ASSUME NEW g
    PROVE  CandidateOf(g).score \in {750, 620}
BY DEF CandidateOf

(* There are finitely many candidates, so the one that is kept is one.     *)
LEMMA TopFacts ==
    ASSUME NEW in \in Inputs, Candidates(in) # {}
    PROVE  IsFiniteSet(Candidates(in)) /\ Top(Candidates(in)) \in Candidates(in)
<1> DEFINE cs == Candidates(in)
           formed == ClaimGroups(in.claims)
           chosen == {h \in formed : Agreement(h) \/ Disagreement(h)}
<1>1. IsFiniteSet(in.claims) /\ (in.legacy = {} \/ \E row \in LegacyRows : in.legacy = {row})
  BY InputFacts
<1>2. IsFiniteSet(formed)
  <2> DEFINE keys == {GroupKey(c) : c \in in.claims}
             f == [c \in in.claims |-> GroupKey(c)]
             h == [k \in keys |-> {c \in in.claims : GroupKey(c) = k}]
  <2>1. keys = {f[c] : c \in in.claims} /\ DOMAIN f = in.claims
    OBVIOUS
  <2>2. formed = {h[k] : k \in keys} /\ DOMAIN h = keys
    BY DEF ClaimGroups
  <2> HIDE DEF f, h, keys
  <2>3. IsFiniteSet(keys)
    BY <1>1, <2>1, FiniteRange
  <2> QED BY <2>2, <2>3, FiniteRange
<1>3. IsFiniteSet(chosen)
  BY <1>2, FS_Subset
<1>4. cs = {CandidateOf(g) : g \in chosen} \cup in.legacy
  BY DEF Candidates
<1> HIDE DEF cs, formed, chosen
<1>5. IsFiniteSet({CandidateOf(g) : g \in chosen})
  <2> DEFINE f == [g \in chosen |-> CandidateOf(g)]
  <2>1. {CandidateOf(g) : g \in chosen} = {f[g] : g \in chosen} /\ DOMAIN f = chosen
    OBVIOUS
  <2> HIDE DEF f
  <2> QED BY <1>3, <2>1, FiniteRange
<1>6. IsFiniteSet(in.legacy)
  <2>1. CASE in.legacy = {}
    BY <2>1, FS_EmptySet
  <2>2. CASE \E row \in LegacyRows : in.legacy = {row}
    <3>1. PICK row \in LegacyRows : in.legacy = {row}
      BY <2>2
    <3>2. IsFiniteSet({row})
      BY FS_Singleton
    <3> QED BY <3>1, <3>2
  <2> QED BY <1>1, <2>1, <2>2
<1>7. IsFiniteSet(cs)
  BY <1>4, <1>5, <1>6, FS_Union
<1>8. PICK s \in Nat : \A c \in cs : c.score \in {750, 620, s}
  <2>1. PICK s \in Nat : \A c \in in.legacy : c.score = s
    BY <1>1, PromotionAssumption
  <2>2. \A c \in cs : c.score \in {750, 620, s}
    <3>1. \A g : CandidateOf(g).score \in {750, 620}
      BY CandidateScore
    <3>2. TAKE c \in cs
    <3>3. CASE c \in in.legacy
      BY <2>1, <3>3
    <3>4. CASE \E g \in chosen : c = CandidateOf(g)
      BY <3>1, <3>4
    <3> QED BY <1>4, <3>3, <3>4
  <2> QED BY <2>2
<1>9. PICK b \in cs : \A c \in cs : c.score <= b.score
  <2> DEFINE Has(n) == \E c \in cs : c.score = n
  <2>1. \E n \in {750, 620, s} : Has(n) /\ \A m \in {750, 620, s} : Has(m) => m <= n
    <3>1. Has(750) \/ Has(620) \/ Has(s)
      BY <1>8 DEF cs
    <3> HIDE DEF Has
    <3> QED BY <3>1
  <2> QED BY <1>8, <2>1
<1>10. \E t \in cs : \A c \in cs :
          \/ t.score > c.score
          \/ /\ t.score = c.score
             /\ t.class = "primary_candidate" \/ c.class # "primary_candidate"
  <2>1. \A c \in cs : c.score \in Nat
    BY <1>8
  <2>2. CASE \E u \in cs : u.score = b.score /\ u.class = "primary_candidate"
    BY <1>9, <2>1, <2>2
  <2>3. CASE ~ \E u \in cs : u.score = b.score /\ u.class = "primary_candidate"
    BY <1>9, <2>1, <2>3
  <2> QED BY <2>2, <2>3
<1>11. Top(cs) \in cs
  BY <1>10 DEF Top
<1> QED BY <1>7, <1>11 DEF cs

(* A reason that blocks is given where its condition holds.                *)
LEMMA NothingBlocks ==
    ASSUME NEW in, NEW m, BlockingReasons(in, m) = {}
    PROVE  /\ ~ NoBaseline(in) /\ HasUserImpact(m.refs) /\ ~ m.caveat
           /\ ~ Cardinality(m.about) > 1 /\ "core" \notin m.missing
<1>1. \A condition, reason : Flag(condition, reason) = {} => ~ condition
  BY DEF Flag
<1> QED BY <1>1 DEF BlockingReasons

(* A primary candidate: nothing blocks it, and one of the candidates it    *)
(* was merged from was one.                                                *)
LEMMA PromotedFacts ==
    ASSUME NEW in \in Inputs, Arbitrated(in) = "primary_candidate"
    PROVE  /\ \E c \in Candidates(in) : c.class = "primary_candidate"
           /\ BlockingReasons(in, Merged(Candidates(in))) = {}
<1> DEFINE cs == Candidates(in)
           m == Merged(cs)
           reasons == BlockingReasons(in, m)
<1>1. cs # {} /\ FinalClass(m, reasons) = "primary_candidate"
  BY DEF Arbitrated
<1> HIDE DEF m, reasons
<1>2. reasons = {} /\ m.class = "primary_candidate"
  BY <1>1 DEF FinalClass
<1>3. m.class = IF \E c \in cs : c.class = "primary_candidate" THEN "primary_candidate"
                ELSE Top(cs).class
  BY DEF m, Merged
<1>4. Top(cs) \in cs
  BY <1>1, TopFacts
<1> QED BY <1>2, <1>3, <1>4 DEF reasons, m

(* The candidates that are merged without divergence are about the same.   *)
LEMMA AboutTheSame ==
    ASSUME NEW in \in Inputs, ~ Cardinality(Merged(Candidates(in)).about) > 1,
           NEW c \in Candidates(in), NEW d \in Candidates(in)
    PROVE  c.about = d.about
<1> DEFINE cs == Candidates(in)
           f == [e \in cs |-> e.about]
           abouts == {f[e] : e \in cs}
<1>1. Merged(cs).about = abouts
  BY DEF Merged
<1>2. IsFiniteSet(cs) /\ DOMAIN f = cs
  BY TopFacts
<1>3. IsFiniteSet(abouts)
  <2> HIDE DEF cs, f
  <2> QED BY <1>2, FiniteRange
<1>4. c.about \in abouts /\ d.about \in abouts
  OBVIOUS
<1>5. Cardinality(abouts) \in Nat /\ ~ Cardinality(abouts) > 1
  BY <1>1, <1>3, FS_CardinalityType
<1> HIDE DEF abouts
<1>6. ~ Cardinality(abouts) >= 2
  BY <1>5
<1> QED BY <1>3, <1>4, <1>6, TwoOfMany

(* A claim that counts is in a group that is not unsupported.              *)
LEMMA ValidFacts ==
    ASSUME NEW in, NEW c \in Valid(in)
    PROVE  \E h \in ClaimGroups(in.claims) : c \in h /\ ~ Unsupported(h)
BY DEF Valid

(* A claim that counts and objects makes a candidate of its group.         *)
LEMMA ObjectionIsReviewed ==
    ASSUME NEW in, NEW c \in Valid(in), EffectiveStance(c) # "support" \/ c.missing # "none"
    PROVE  \E h \in ClaimGroups(in.claims) :
              c \in h /\ Disagreement(h) /\ CandidateOf(h) \in Candidates(in)
<1>1. PICK h \in ClaimGroups(in.claims) : c \in h /\ ~ Unsupported(h)
  BY ValidFacts
<1>2. Disagreement(h)
  BY <1>1 DEF Disagreement
<1>3. CandidateOf(h) \in Candidates(in)
  BY <1>2 DEF Candidates
<1> QED BY <1>1, <1>2, <1>3

(* A group that agrees disagrees as well as soon as one of its claims      *)
(* objects.                                                                *)
LEMMA ObjectionDisagrees ==
    ASSUME NEW g, NEW c \in g, Agreement(g),
           EffectiveStance(c) # "support" \/ c.missing # "none"
    PROVE  Disagreement(g)
<1>1. ~ Unsupported(g)
  BY DEF Agreement
<1> QED BY <1>1 DEF Disagreement

(* A finding that becomes primary has no objection: one about the same     *)
(* would be in its group, one about something else in a candidate that     *)
(* diverges.                                                               *)
LEMMA NoObjection ==
    ASSUME NEW in \in Inputs, NEW g \in ClaimGroups(in.claims), NEW d \in g,
           Agreement(g), ~ Disagreement(g),
           ~ Cardinality(Merged(Candidates(in)).about) > 1
    PROVE  Unopposed(in, Cited(d))
<1> SUFFICES ASSUME NEW c \in Valid(in), Cited(c) = Cited(d),
                    EffectiveStance(c) # "support" \/ c.missing # "none"
             PROVE  FALSE
  BY DEF Unopposed
<1>1. PICK h \in ClaimGroups(in.claims) :
          c \in h /\ Disagreement(h) /\ CandidateOf(h) \in Candidates(in)
  BY ObjectionIsReviewed
<1>2. CandidateOf(g) \in Candidates(in)
  BY DEF Candidates
<1>3. CandidateOf(g).about = d.about
  BY GroupFacts, CandidateFacts
<1>4. CandidateOf(h).about = c.about
  BY <1>1, GroupFacts, CandidateFacts
<1>5. CandidateOf(g).about = CandidateOf(h).about
  BY <1>1, <1>2, AboutTheSame
<1>6. c \in in.claims
  BY <1>1, GroupFacts
<1>7. c \in g
  <2>1. \A e \in in.claims : e \in g <=> e.about = d.about /\ Cited(e) = Cited(d)
    BY GroupFacts
  <2>2. c.about = d.about
    BY <1>3, <1>4, <1>5
  <2> QED BY <1>6, <2>1, <2>2
<1> QED BY <1>7, ObjectionDisagrees

(* A group of a primary candidate has a claim.                             *)
LEMMA GroupHasClaim ==
    ASSUME NEW claims, NEW g \in ClaimGroups(claims)
    PROVE  \E d \in g : TRUE
BY GroupFacts

(* A candidate is a legacy target or what is made of a group that agrees   *)
(* or disagrees.                                                           *)
LEMMA CandidateSource ==
    ASSUME NEW in, NEW c \in Candidates(in), c \notin in.legacy
    PROVE  \E g \in ClaimGroups(in.claims) :
              c = CandidateOf(g) /\ ~ Unsupported(g)
BY DEF Candidates, Agreement, Disagreement

(* A primary candidate was a primary target of the single-model pipeline   *)
(* or a finding that two providers support and nobody objects to.          *)
LEMMA EarnedByFinding ==
    ASSUME NEW in \in Inputs, NEW c \in Candidates(in), c.class = "primary_candidate",
           ~ Cardinality(Merged(Candidates(in)).about) > 1
    PROVE  \/ \E row \in in.legacy : row.class = "primary_candidate"
           \/ \E p, q \in Providers, refs \in SUBSET Evidence :
                  BothSupport(in, p, q, refs) /\ Unopposed(in, refs)
<1>1. CASE c \in in.legacy
  BY <1>1
<1>2. CASE c \notin in.legacy
  <2>1. PICK g \in ClaimGroups(in.claims) : c = CandidateOf(g)
    BY <1>2, CandidateSource
  <2>2. Agreement(g) /\ ~ Disagreement(g)
    BY <2>1, CandidateFacts
  <2>3. PICK d \in g : TRUE
    BY GroupHasClaim
  <2>4. PICK p, q \in Providers, refs \in SUBSET Evidence :
            BothSupport(in, p, q, refs) /\ refs = Cited(d)
    BY <2>2, AgreedFacts
  <2>5. Unopposed(in, refs)
    BY <2>2, <2>4, NoObjection
  <2> QED BY <2>4, <2>5
<1> QED BY <1>1, <1>2

(* The baseline that lets a unit be promoted is a finding two providers    *)
(* support.                                                                *)
LEMMA BaselineIsAgreement ==
    ASSUME NEW in \in Inputs, ~ NoBaseline(in), ~ in.elsewhere
    PROVE  \E p, q \in Providers, refs \in SUBSET Evidence : BothSupport(in, p, q, refs)
<1>1. PICK g \in ClaimGroups(in.claims) : Agreement(g)
  BY DEF NoBaseline
<1>2. PICK d \in g : TRUE
  BY GroupHasClaim
<1> QED BY <1>1, AgreedFacts

(* What a merged target cites is cited by a claim that counts or by a      *)
(* legacy target.                                                          *)
LEMMA CitedFrom ==
    ASSUME NEW in, NEW e \in Merged(Candidates(in)).refs
    PROVE  e \in UNION ({Cited(c) : c \in Valid(in)} \cup {row.refs : row \in in.legacy})
<1>1. PICK c \in Candidates(in) : e \in c.refs
  BY DEF Merged
<1>2. CASE c \in in.legacy
  BY <1>1, <1>2
<1>3. CASE c \notin in.legacy
  <2>1. PICK g \in ClaimGroups(in.claims) : c = CandidateOf(g) /\ ~ Unsupported(g)
    BY <1>3, CandidateSource
  <2>2. e \in GroupRefs(g)
    BY <1>1, <2>1, CandidateFacts
  <2>3. PICK d \in g : e \in Cited(d)
    BY <2>2 DEF GroupRefs
  <2>4. d \in Valid(in)
    BY <2>1, <2>3 DEF Valid
  <2> QED BY <2>3, <2>4
<1> QED BY <1>2, <1>3

(* User impact is shown by an item of the references or by one that shares *)
(* a trace with one of them.                                               *)
LEMMA ImpactFrom ==
    ASSUME NEW refs, HasUserImpact(refs)
    PROVE  \E e \in refs :
              \/ e \in ImpactItems
              \/ \E pair \in SharedTraces : e \in pair /\ pair \cap ImpactItems # {}
BY DEF HasUserImpact, LinkedTo

(* No caveat of a legacy target, and nothing missing for the core of it or *)
(* of a claim that counts, is lost in the merge.                           *)
LEMMA NothingLost ==
    ASSUME NEW in, ~ Merged(Candidates(in)).caveat,
           "core" \notin Merged(Candidates(in)).missing
    PROVE  /\ \A row \in in.legacy : ~ row.caveat /\ "core" \notin row.missing
           /\ \A c \in Valid(in) : c.missing # "core"
<1>1. \A d \in Candidates(in) : ~ d.caveat /\ "core" \notin d.missing
  BY DEF Merged
<1>2. in.legacy \subseteq Candidates(in)
  BY DEF Candidates
<1>3. ASSUME NEW c \in Valid(in), c.missing = "core" PROVE FALSE
  <2>0. EffectiveStance(c) # "support" \/ c.missing # "none"
    BY <1>3
  <2>1. PICK h \in ClaimGroups(in.claims) :
            c \in h /\ Disagreement(h) /\ CandidateOf(h) \in Candidates(in)
    BY <2>0, ObjectionIsReviewed
  <2>2. "core" \in CandidateOf(h).missing
    BY <1>3, <2>1, CandidateFacts
  <2> QED BY <1>1, <2>1, <2>2
<1> QED BY <1>1, <1>2, <1>3

(* A primary candidate is earned, whatever claims and legacy targets its   *)
(* unit's candidates are merged from.                                      *)
LEMMA PrimaryEarned == PrimaryIsEarned
<1> SUFFICES ASSUME NEW in \in Inputs, Arbitrated(in) = "primary_candidate"
             PROVE  LET cited == UNION ({Cited(c) : c \in Valid(in)}
                                            \cup {row.refs : row \in in.legacy})
                    IN  /\ \/ \E row \in in.legacy : row.class = "primary_candidate"
                           \/ \E p, q \in Providers, refs \in SUBSET Evidence :
                                  BothSupport(in, p, q, refs) /\ Unopposed(in, refs)
                        /\ \/ in.elsewhere
                           \/ \E p, q \in Providers, refs \in SUBSET Evidence :
                                  BothSupport(in, p, q, refs)
                        /\ \E e \in cited :
                              \/ e \in ImpactItems
                              \/ \E pair \in SharedTraces :
                                    e \in pair /\ pair \cap ImpactItems # {}
                        /\ \A row \in in.legacy : ~ row.caveat /\ "core" \notin row.missing
                        /\ \A c \in Valid(in) : c.missing # "core"
  BY DEF PrimaryIsEarned
<1> DEFINE m == Merged(Candidates(in))
           cited == UNION ({Cited(c) : c \in Valid(in)} \cup {row.refs : row \in in.legacy})
<1>1. PICK c \in Candidates(in) : c.class = "primary_candidate"
  BY PromotedFacts
<1>2. /\ ~ NoBaseline(in) /\ HasUserImpact(m.refs) /\ ~ m.caveat
      /\ ~ Cardinality(m.about) > 1 /\ "core" \notin m.missing
  BY PromotedFacts, NothingBlocks
<1>3. \/ \E row \in in.legacy : row.class = "primary_candidate"
      \/ \E p, q \in Providers, refs \in SUBSET Evidence :
             BothSupport(in, p, q, refs) /\ Unopposed(in, refs)
  BY <1>1, <1>2, EarnedByFinding
<1>4. \/ in.elsewhere
      \/ \E p, q \in Providers, refs \in SUBSET Evidence : BothSupport(in, p, q, refs)
  BY <1>2, BaselineIsAgreement
<1>5. PICK e \in m.refs :
          \/ e \in ImpactItems
          \/ \E pair \in SharedTraces : e \in pair /\ pair \cap ImpactItems # {}
  BY <1>2, ImpactFrom
<1>6. e \in cited
  BY CitedFrom
<1>7. /\ \A row \in in.legacy : ~ row.caveat /\ "core" \notin row.missing
      /\ \A d \in Valid(in) : d.missing # "core"
  BY <1>2, NothingLost
<1> HIDE DEF m, cited
<1>8. \E x \in cited : \/ x \in ImpactItems
                       \/ \E pair \in SharedTraces : x \in pair /\ pair \cap ImpactItems # {}
  BY <1>5, <1>6
<1> QED BY <1>3, <1>4, <1>7, <1>8 DEF cited

(* Every primary candidate that is stored was earned by the claims and     *)
(* legacy targets of its unit: two providers support it and none objects,  *)
(* or the single-model pipeline found it while two providers agree on      *)
(* something; the impact on users is cited; nothing that blocks is lost.   *)
THEOREM StoredGraphsAreEarned == Spec => []StoredIsEarned
<1>1. StoredIsEarned
  BY PrimaryEarned DEF StoredIsEarned
<1> QED BY <1>1, PTL
=============================================================================
