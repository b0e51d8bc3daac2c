---------------------------- MODULE DatabaseProofs ----------------------------
(***************************************************************************)
(* Proofs about the two records of a run that a database keeps: its        *)
(* provider chunks (ChunkStore) and its progress (PipelineProgress).       *)
(*                                                                         *)
(* ChunkStore, for any contracts, workers, scopes, outcomes, lease and     *)
(* delays: types, the attempts table, the leases, and the refinement of    *)
(* ChunkResult.                                                            *)
(*                                                                         *)
(* PipelineProgress, for any number of providers and of snapshots in one   *)
(* second: every snapshot counts no more than the events, and as much      *)
(* while no two snapshots share a second, so that no success is told that  *)
(* no answer earned, and the events rebuild the snapshot.                  *)
(***************************************************************************)
EXTENDS ChunkStore, PipelineProgress, FiniteSetTheorems, SequenceTheorems, TLAPS

-----------------------------------------------------------------------------
(* The chunk store.                                                        *)

\* The countdown operator stays inside its range and never grows.
LEMMA LessFacts ==
    ASSUME NEW n \in Nat
    PROVE  Less(n) \in Nat /\ Less(n) <= n /\ (Less(n) > 0 => n > 0)
BY DEF Less

\* Every variable keeps its type: Spec => []TypeOK.
LEMMA TypeInit == Init => TypeOK
BY StoreAssumption DEF Init, TypeOK

LEMMA TypeStep == TypeOK /\ [Next]_vars => TypeOK'
<1> SUFFICES ASSUME TypeOK, [Next]_vars PROVE TypeOK'
    OBVIOUS
<1> USE StoreAssumption DEF TypeOK
<1>1. ASSUME NEW w \in Claimers, Claim(w) PROVE TypeOK'
  <2>1. PICK c \in Scope[w] :
            /\ lease' = [lease EXCEPT ![c] = LeaseTicks]
            /\ worker' = [worker EXCEPT ![c] = w]
            /\ older' = Touched(c)
            /\ task' = [task EXCEPT ![w] = c]
            /\ left' = [left EXCEPT ![w] = LeaseTicks]
      BY <1>1 DEF Claim
  <2>2. c \in Contracts /\ w \in Workers /\ LeaseTicks \in 0 .. LeaseTicks
      BY DEF Workers
  <2>3. older' \subseteq Contracts \X Contracts
      BY <2>1, <2>2 DEF Touched
  <2> QED BY <1>1, <2>1, <2>2, <2>3 DEF Claim
<1>2. ASSUME NEW w \in Runners, NEW c \in Contracts, TakeDirectly(w, c)
      PROVE  TypeOK'
  <2>1. w \in Workers BY DEF Workers
  <2> QED BY <1>2, <2>1 DEF TakeDirectly
<1>3. ASSUME NEW w \in Workers, NEW s \in Outcomes, NEW delay \in 0 .. MaxDelay,
             Upsert(w, s, delay)
      PROVE  TypeOK'
  <2> DEFINE c == task[w]
  <2>1. c \in Contracts /\ s \in Status
      BY <1>3 DEF Upsert
  <2>2. NextRetry(s, delay) \in (0 .. MaxDelay) \cup {Null}
      BY DEF NextRetry
  <2>3. Touched(c) \subseteq Contracts \X Contracts
      BY <2>1 DEF Touched
  <2>4. /\ status' \in [Contracts -> Status \cup {"absent"}]
        /\ retryIn' \in [Contracts -> (0 .. MaxDelay) \cup {Null}]
        /\ older' \subseteq Contracts \X Contracts
      BY <1>3, <2>1, <2>2, <2>3 DEF Upsert
  <2>5. /\ attempts' \in [Contracts -> SUBSET Status]
        /\ last' \in [Contracts -> Status \cup {"absent"}]
      BY <1>3, <2>1 DEF Upsert
  <2> QED BY <1>3, <2>4, <2>5 DEF Upsert
<1>4. ASSUME NEW w \in Workers, Crash(w) PROVE TypeOK'
    BY <1>4 DEF Crash, rowVars
<1>5. CASE Tick
  <2>1. \A n \in Nat : \A m \in 0 .. n : Less(m) \in 0 .. n
      BY DEF Less
  <2>2. lease' \in [Contracts -> 0 .. LeaseTicks]
      BY <1>5, <2>1 DEF Tick
  <2>3. left' \in [Workers -> 0 .. LeaseTicks]
      BY <1>5, <2>1 DEF Tick
  <2>4. retryIn' \in [Contracts -> (0 .. MaxDelay) \cup {Null}]
      BY <1>5, <2>1 DEF Tick
  <2> QED BY <1>5, <2>2, <2>3, <2>4 DEF Tick
<1>6. CASE UNCHANGED vars
    BY <1>6 DEF vars
<1> QED BY <1>1, <1>2, <1>3, <1>4, <1>5, <1>6 DEF Next

THEOREM TypeCorrect == Spec => []TypeOK
<1>1. Init => TypeOK BY TypeInit
<1>2. TypeOK /\ [Next]_vars => TypeOK' BY TypeStep
<1> QED BY <1>1, <1>2, PTL DEF Spec

-------------------------------------------------------------------------------
\* The newest attempt is in the table: what makes RowReflectsAttempts inductive.
LastIsAttempt ==
    \A c \in Contracts : last[c] \in attempts[c] \cup {"absent"}

\* RowReflectsAttempts for every value of the constants: the row is what the
\* attempts say, although the upsert of a late failure leaves it alone.
THEOREM RowFollowsAttempts == Spec => []RowReflectsAttempts
<1> DEFINE Inv == TypeOK /\ LastIsAttempt /\ RowReflectsAttempts
<1>1. Init => Inv
    BY TypeInit DEF Init, LastIsAttempt, RowReflectsAttempts
<1>2. Inv /\ [Next]_vars => Inv'
  <2> SUFFICES ASSUME Inv, [Next]_vars PROVE (LastIsAttempt /\ RowReflectsAttempts)'
      BY TypeStep
  <2> USE DEF LastIsAttempt, RowReflectsAttempts
  <2>1. ASSUME UNCHANGED <<status, attempts, last>>
        PROVE  (LastIsAttempt /\ RowReflectsAttempts)'
      BY <2>1
  <2>2. ASSUME NEW w \in Workers, NEW s \in Outcomes,
               NEW delay \in 0 .. MaxDelay, Upsert(w, s, delay)
        PROVE  (LastIsAttempt /\ RowReflectsAttempts)'
    <3> DEFINE c == task[w]
    <3>1. c \in Contracts /\ s \in Status
        BY <2>2, StoreAssumption DEF Upsert, TypeOK
    <3>2. /\ attempts' = [attempts EXCEPT ![c] = @ \cup {s}]
          /\ last' = [last EXCEPT ![c] = s]
          /\ status' = IF Replaces(s, c) THEN [status EXCEPT ![c] = s] ELSE status
        BY <2>2 DEF Upsert
    <3>3. ASSUME NEW d \in Contracts, d # c
          PROVE  /\ status'[d] = status[d] /\ last'[d] = last[d]
                 /\ attempts'[d] = attempts[d]
        BY <3>1, <3>2, <3>3 DEF TypeOK
    <3>4. /\ attempts'[c] = attempts[c] \cup {s} /\ last'[c] = s
          /\ status'[c] = IF Replaces(s, c) THEN s ELSE status[c]
        BY <3>1, <3>2 DEF TypeOK
    <3>5. /\ last'[c] \in attempts'[c] \cup {"absent"}
          /\ status'[c] = IF "ok" \in attempts'[c] THEN "ok" ELSE last'[c]
        BY <3>1, <3>4 DEF Replaces, Status, ClaimExcluded
    <3> QED BY <3>3, <3>5
  <2> QED BY <2>1, <2>2
        DEF Next, Claim, TakeDirectly, Crash, rowVars, Tick, vars
<1> QED BY <1>1, <1>2, PTL DEF Spec

-------------------------------------------------------------------------------
\* A worker whose own claim still runs is the worker_id of its row, and the row
\* stays locked at least as long: what makes LeasesExclusive inductive.
ClaimIsHeld ==
    \A w \in Workers :
        left[w] > 0 => /\ task[w] # Nobody
                       /\ worker[task[w]] = w
                       /\ left[w] <= lease[task[w]]

\* LeasesExclusive for every value of the constants: the lease keeps a second
\* claimer off a row until the first one's claim has run out.
THEOREM ClaimsAreExclusive == Spec => []LeasesExclusive
<1> DEFINE Inv == TypeOK /\ ClaimIsHeld
<1>1. Init => Inv
    BY TypeInit DEF Init, ClaimIsHeld
<1>2. Inv /\ [Next]_vars => Inv'
  <2> SUFFICES ASSUME Inv, [Next]_vars PROVE ClaimIsHeld'
      BY TypeStep
  <2> USE StoreAssumption DEF TypeOK, ClaimIsHeld
  <2>1. ASSUME NEW w \in Claimers, Claim(w) PROVE ClaimIsHeld'
    <3>1. PICK c \in Scope[w] :
              /\ Claimable(c)
              /\ lease' = [lease EXCEPT ![c] = LeaseTicks]
              /\ worker' = [worker EXCEPT ![c] = w]
              /\ task' = [task EXCEPT ![w] = c]
              /\ left' = [left EXCEPT ![w] = LeaseTicks]
        BY <2>1 DEF Claim
    <3>2. c \in Contracts /\ w \in Workers /\ lease[c] = 0
        BY <3>1 DEF Workers, Claimable
    <3>3. ASSUME NEW v \in Workers, left'[v] > 0, v # w
          PROVE  /\ task'[v] # Nobody /\ worker'[task'[v]] = v
                 /\ left'[v] <= lease'[task'[v]]
      <4>1. left'[v] = left[v] /\ task'[v] = task[v]
          BY <3>1, <3>3
      <4>2. task[v] # c
          BY <3>2, <3>3, <4>1
      <4> QED BY <3>1, <3>2, <3>3, <4>1, <4>2
    <3>4. /\ task'[w] # Nobody /\ worker'[task'[w]] = w
          /\ left'[w] <= lease'[task'[w]]
        BY <3>1, <3>2
    <3> QED BY <3>3, <3>4
  <2>2. ASSUME NEW w \in Runners, NEW c \in Contracts, TakeDirectly(w, c)
        PROVE  ClaimIsHeld'
      BY <2>2 DEF TakeDirectly, Workers
  <2>3. ASSUME NEW w \in Workers, NEW s \in Outcomes,
               NEW delay \in 0 .. MaxDelay, Upsert(w, s, delay)
        PROVE  ClaimIsHeld'
      BY <2>3 DEF Upsert
  <2>4. ASSUME NEW w \in Workers, Crash(w) PROVE ClaimIsHeld'
      BY <2>4 DEF Crash, rowVars
  <2>5. ASSUME Tick PROVE ClaimIsHeld'
    <3> SUFFICES ASSUME NEW w \in Workers, left'[w] > 0
                 PROVE  /\ task'[w] # Nobody /\ worker'[task'[w]] = w
                        /\ left'[w] <= lease'[task'[w]]
        OBVIOUS
    <3>1. /\ task' = task /\ worker' = worker /\ left'[w] = Less(left[w])
        BY <2>5 DEF Tick
    <3>2. left[w] > 0
        BY <3>1 DEF Less
    <3>3. task[w] \in Contracts /\ left[w] <= lease[task[w]]
        BY <3>2
    <3>4. lease'[task[w]] = Less(lease[task[w]])
        BY <2>5, <3>3 DEF Tick
    <3> QED BY <3>1, <3>2, <3>3, <3>4 DEF Less
  <2>6. CASE UNCHANGED vars
      BY <2>6 DEF vars
  <2> QED BY <2>1, <2>2, <2>3, <2>4, <2>5, <2>6 DEF Next
<1>3. Inv => LeasesExclusive
    BY DEF TypeOK, ClaimIsHeld, LeasesExclusive
<1> QED BY <1>1, <1>2, <1>3, PTL DEF Spec

-------------------------------------------------------------------------------
\* ChunkStore implements ChunkResult: in no interleaving of claims, direct runs,
\* crashes and late answers does a stored success become anything else.
THEOREM StoreImplementsResult == Spec => SuccessIsFinal
<1>1. Init => Abstract!Init
    BY DEF Init, Abstract!Init, Result
<1>2. TypeOK /\ [Next]_vars => [Abstract!Next]_Result
  <2> SUFFICES ASSUME TypeOK, [Next]_vars PROVE [Abstract!Next]_Result
      OBVIOUS
  <2>1. ASSUME status' = status PROVE Result' = Result
      BY <2>1 DEF Result
  <2>2. ASSUME NEW w \in Workers, NEW s \in Outcomes,
               NEW delay \in 0 .. MaxDelay, Upsert(w, s, delay)
        PROVE  [Abstract!Next]_Result
    <3> DEFINE c == task[w]
               r == IF s = "ok" THEN "ok" ELSE "failed"
    <3>1. c \in Contracts /\ s \in Status /\ s # "absent"
        BY <2>2, StoreAssumption DEF Upsert, TypeOK, Status, ClaimExcluded
    <3>2. CASE ~Replaces(s, c)
        BY <2>1, <2>2, <3>2 DEF Upsert
    <3>3. CASE Replaces(s, c)
      <4>1. status' = [status EXCEPT ![c] = s]
          BY <2>2, <3>3 DEF Upsert
      <4>2. Result[c] = "ok" => r = "ok"
          BY <3>1, <3>3 DEF Result, Replaces
      <4>3. Result' = [Result EXCEPT ![c] = r]
        <5>1. \A d \in Contracts : status'[d] = IF d = c THEN s ELSE status[d]
            BY <3>1, <4>1 DEF TypeOK
        <5>2. \A d \in Contracts : Result'[d] = IF d = c THEN r ELSE Result[d]
            BY <3>1, <5>1 DEF Result
        <5> QED BY <3>1, <5>2 DEF Result
      <4>4. Abstract!Record(c, r)
          BY <4>2, <4>3 DEF Abstract!Record
      <4> QED BY <3>1, <4>4 DEF Abstract!Next
    <3> QED BY <3>2, <3>3
  <2> QED BY <2>1, <2>2
        DEF Next, Claim, TakeDirectly, Crash, rowVars, Tick, vars
<1> QED BY <1>1, <1>2, TypeCorrect, PTL DEF Spec, SuccessIsFinal, Abstract!Spec

-----------------------------------------------------------------------------
(* The progress of a run.                                                  *)

Operations == {"multi_ai", "synthesis"}

\* What the entries of either script are called.
Names ==
    {"bundle_persisted", "bundle_validated", "model_input_announced", "model_input_validated",
     "providers_scheduled", "providers_completed", "outputs_persisted", "outputs_parsed",
     "claims_routed", "scores_written", "clusters_built", "canonical_graph_resolved",
     "review_targets_ready", "review_targets_persisted"}

\* The place of the providers' first entry in the script.
First == IF operation = "multi_ai" THEN 6 ELSE 3

\* How many of the first k entries are providers'.
Provided(k) ==
    IF k < First THEN 0 ELSE IF k < First + Providers THEN k - First + 1 ELSE Providers

-----------------------------------------------------------------------------
(* The script.                                                             *)

(* Two sequences, one after the other.                                     *)
LEMMA Joined ==
    ASSUME NEW a \in Seq(Names), NEW b \in Seq(Names)
    PROVE  /\ a \o b \in Seq(Names) /\ Len(a \o b) = Len(a) + Len(b)
           /\ \A i \in 1 .. Len(a) : (a \o b)[i] = a[i]
           /\ \A i \in 1 .. Len(b) : (a \o b)[Len(a) + i] = b[i]
BY ConcatProperties

(* The providers' part of the script.                                      *)
LEMMA ProvidingFacts ==
    /\ Providing \in Seq(Names) /\ Len(Providing) = Providers
    /\ \A i \in 1 .. Providers : Providing[i] = "providers_completed"
<1>1. Providers \in Nat
  BY ProgressAssumption
<1>2. Providing \in [1 .. Providers -> Names]
  BY DEF Providing, Names
<1>3. Providing \in Seq(Names)
  BY <1>1, <1>2, SeqDef
<1>4. Len(Providing) = Providers
  BY <1>1, <1>2, <1>3, LenProperties
<1> QED BY <1>3, <1>4 DEF Providing

(* A script of two ends with the providers between them.                   *)
LEMMA Between ==
    ASSUME NEW a \in Seq(Names), NEW b \in Seq(Names),
           \A i \in 1 .. Len(a) : a[i] # "providers_completed",
           \A i \in 1 .. Len(b) : b[i] # "providers_completed"
    PROVE  /\ a \o Providing \o b \in Seq(Names)
           /\ Len(a \o Providing \o b) = Len(a) + Providers + Len(b)
           /\ \A i \in 1 .. Len(a) + Providers + Len(b) :
                 (a \o Providing \o b)[i] = "providers_completed"
                     <=> Len(a) < i /\ i <= Len(a) + Providers
<1> DEFINE t == a \o Providing
           s == t \o b
<1>1. Providers \in Nat /\ Len(a) \in Nat /\ Len(b) \in Nat
  BY ProgressAssumption
<1>2. /\ t \in Seq(Names) /\ Len(t) = Len(a) + Len(Providing)
      /\ \A i \in 1 .. Len(a) : t[i] = a[i]
      /\ \A i \in 1 .. Len(Providing) : t[Len(a) + i] = Providing[i]
  <2>1. Providing \in Seq(Names)
    BY ProvidingFacts
  <2> QED BY <2>1, Joined
<1>3. /\ Len(t) = Len(a) + Providers
      /\ \A i \in 1 .. Providers : t[Len(a) + i] = "providers_completed"
  BY <1>2, ProvidingFacts
<1> HIDE DEF t
<1>4. /\ s \in Seq(Names) /\ Len(s) = Len(t) + Len(b)
      /\ \A i \in 1 .. Len(t) : s[i] = t[i]
      /\ \A i \in 1 .. Len(b) : s[Len(t) + i] = b[i]
  BY <1>2, Joined
<1> HIDE DEF s
<1>5. ASSUME NEW i \in 1 .. Len(a) + Providers + Len(b)
      PROVE  s[i] = "providers_completed" <=> Len(a) < i /\ i <= Len(a) + Providers
  <2>1. CASE i <= Len(a)
    <3>1. i \in 1 .. Len(a) /\ i \in 1 .. Len(t)
      BY <1>1, <1>3, <2>1
    <3>2. s[i] = a[i]
      BY <1>2, <1>4, <3>1
    <3> QED BY <1>1, <2>1, <3>1, <3>2
  <2>2. CASE Len(a) < i /\ i <= Len(a) + Providers
    <3>1. i - Len(a) \in 1 .. Providers /\ Len(a) + (i - Len(a)) = i /\ i \in 1 .. Len(t)
      BY <1>1, <1>3, <2>2
    <3>2. t[i] = "providers_completed"
      BY <1>3, <3>1
    <3> QED BY <1>4, <2>2, <3>1, <3>2
  <2>3. CASE i > Len(a) + Providers
    <3>1. i - Len(t) \in 1 .. Len(b) /\ Len(t) + (i - Len(t)) = i
      BY <1>1, <1>3, <2>3
    <3>2. s[i] = b[i - Len(t)]
      BY <1>4, <3>1
    <3> QED BY <1>1, <2>3, <3>1, <3>2
  <2> QED BY <1>1, <2>1, <2>2, <2>3
<1>6. Len(s) = Len(a) + Providers + Len(b)
  BY <1>3, <1>4
<1>7. s = a \o Providing \o b
  BY DEF s, t
<1> QED BY <1>4, <1>5, <1>6, <1>7

(* The eight steps of an operation.                                        *)
LEMMA StepsFacts ==
    ASSUME operation \in Operations
    PROVE  Steps \in Seq(Names) /\ Len(Steps) = 8
<1>1. CASE operation = "multi_ai"
  <2>1. Steps = <<"bundle_persisted", "bundle_validated", "model_input_validated",
                  "providers_scheduled", "providers_completed", "outputs_persisted",
                  "canonical_graph_resolved", "review_targets_ready">>
    BY <1>1 DEF Steps
  <2> QED BY <2>1 DEF Names
<1>2. CASE operation = "synthesis"
  <2>1. Steps = <<"bundle_persisted", "providers_scheduled", "providers_completed",
                  "outputs_parsed", "claims_routed", "scores_written", "clusters_built",
                  "review_targets_persisted">>
    BY <1>2 DEF Steps
  <2> QED BY <2>1 DEF Names
<1> QED BY <1>1, <1>2 DEF Operations

(* The steps of the synthesis after the providers.                         *)
LEMMA LastSteps ==
    ASSUME operation = "synthesis"
    PROVE  LET b == SubSeq(Steps, 4, 8)
           IN  /\ b \in Seq(Names) /\ Len(b) = 5
               /\ \A i \in 1 .. Len(b) : b[i] # "providers_completed"
<1>1. Steps = <<"bundle_persisted", "providers_scheduled", "providers_completed",
                "outputs_parsed", "claims_routed", "scores_written", "clusters_built",
                "review_targets_persisted">>
  BY DEF Steps
<1>2. Steps \in Seq(Names) /\ Len(Steps) = 8
  BY StepsFacts DEF Operations
<1>3. \A i \in 4 .. 8 : Steps[i] # "providers_completed"
  <2>1. /\ Steps[4] = "outputs_parsed" /\ Steps[5] = "claims_routed"
        /\ Steps[6] = "scores_written" /\ Steps[7] = "clusters_built"
        /\ Steps[8] = "review_targets_persisted"
    BY <1>1
  <2>2. \A i \in 4 .. 8 : i = 4 \/ i = 5 \/ i = 6 \/ i = 7 \/ i = 8
    OBVIOUS
  <2> QED BY ONLY <2>1, <2>2
<1> DEFINE b == SubSeq(Steps, 4, 8)
<1>4. /\ b \in Seq(Names) /\ Len(b) = 5
      /\ \A i \in 1 .. 5 : b[i] = Steps[4 + i - 1]
  <2>1. ASSUME NEW i \in 4 .. 8 PROVE Steps[i] \in Names
    <3>1. i \in 1 .. Len(Steps)
      BY <1>2
    <3> QED BY <1>2, <3>1, ElementOfSeq
  <2>2. /\ b \in Seq(Names)
        /\ Len(b) = IF 4 <= 8 THEN 8 - 4 + 1 ELSE 0
        /\ \A i \in 1 .. 8 - 4 + 1 : b[i] = Steps[4 + i - 1]
    BY <2>1, SubSeqProperties
  <2> HIDE DEF b
  <2> QED BY <2>2
<1>5. \A i \in 1 .. 5 : 4 + i - 1 \in 4 .. 8
  OBVIOUS
<1> HIDE DEF b
<1>6. \A i \in 1 .. 5 : b[i] # "providers_completed"
  BY <1>3, <1>4, <1>5
<1> QED BY <1>4, <1>6 DEF b

(* The script has the providers' entries from First on and eight others.   *)
LEMMA ScriptFacts ==
    ASSUME operation \in Operations
    PROVE  /\ Script \in Seq(Names) /\ Len(Script) = Providers + 8
           /\ \A i \in 1 .. Providers + 8 :
                 Script[i] = "providers_completed" <=> First <= i /\ i < First + Providers
<1>0. Providers \in Nat
  BY ProgressAssumption
<1>1. CASE operation = "multi_ai"
  <2> DEFINE a == <<"bundle_persisted", "bundle_validated", "model_input_announced",
                    "providers_scheduled", "model_input_validated">>
             b == <<"outputs_persisted", "canonical_graph_resolved", "review_targets_ready">>
  <2>1. Script = a \o Providing \o b
    BY <1>1 DEF Script
  <2>2. /\ a \in Seq(Names) /\ Len(a) = 5
        /\ \A i \in 1 .. Len(a) : a[i] # "providers_completed"
    BY DEF Names
  <2>3. /\ b \in Seq(Names) /\ Len(b) = 3
        /\ \A i \in 1 .. Len(b) : b[i] # "providers_completed"
    BY DEF Names
  <2> HIDE DEF a, b
  <2>4. /\ Script \in Seq(Names) /\ Len(Script) = Len(a) + Providers + Len(b)
        /\ \A i \in 1 .. Len(a) + Providers + Len(b) :
              Script[i] = "providers_completed" <=> Len(a) < i /\ i <= Len(a) + Providers
    <3> HIDE DEF Script
    <3> QED BY <2>1, <2>2, <2>3, Between
  <2> QED BY <1>0, <1>1, <2>2, <2>3, <2>4 DEF First
<1>2. CASE operation = "synthesis"
  <2> DEFINE a == <<"bundle_persisted", "providers_scheduled">>
             b == SubSeq(Steps, 4, 8)
             c == <<"canonical_graph_resolved">>
             t == a \o Providing \o b
  <2>1. Script = t \o c
    BY <1>2 DEF Script
  <2>2. /\ a \in Seq(Names) /\ Len(a) = 2
        /\ \A i \in 1 .. Len(a) : a[i] # "providers_completed"
    BY DEF Names
  <2>3. /\ b \in Seq(Names) /\ Len(b) = 5
        /\ \A i \in 1 .. Len(b) : b[i] # "providers_completed"
    BY <1>2, LastSteps
  <2>4. c \in Seq(Names) /\ Len(c) = 1 /\ c[1] # "providers_completed"
    BY DEF Names
  <2> HIDE DEF a, b, c
  <2>5. /\ t \in Seq(Names) /\ Len(t) = Len(a) + Providers + Len(b)
        /\ \A i \in 1 .. Len(a) + Providers + Len(b) :
              t[i] = "providers_completed" <=> Len(a) < i /\ i <= Len(a) + Providers
    BY <2>2, <2>3, Between
  <2> HIDE DEF t
  <2>6. /\ Script \in Seq(Names) /\ Len(Script) = Len(t) + Len(c)
        /\ \A i \in 1 .. Len(t) : Script[i] = t[i]
        /\ \A i \in 1 .. Len(c) : Script[Len(t) + i] = c[i]
    BY ONLY <2>1, <2>4, <2>5, Joined
  <2>7. Len(t) = Providers + 7 /\ Len(Script) = Providers + 8
    BY <1>0, <2>2, <2>3, <2>4, <2>5, <2>6
  <2>8. \A i \in 1 .. Providers + 7 :
           Script[i] = "providers_completed" <=> 2 < i /\ i <= 2 + Providers
    BY <1>0, <2>2, <2>3, <2>5, <2>6, <2>7
  <2>9. Script[Providers + 8] # "providers_completed"
    <3>1. Script[Len(t) + 1] = c[1]
      BY <2>4, <2>6
    <3> QED BY <1>0, <2>4, <2>7, <3>1
  <2> QED BY <1>0, <1>2, <2>6, <2>7, <2>8, <2>9 DEF First
<1> QED BY <1>1, <1>2 DEF Operations

(* Nothing that depends on the operation changes while it does not.        *)
LEMMA SameScript ==
    ASSUME operation' = operation
    PROVE  /\ Script' = Script /\ Event' = Event /\ Run' = Run /\ First' = First
           /\ Steps' = Steps
BY DEF Script, Event, Run, First, Steps

-----------------------------------------------------------------------------
(* Counting events.                                                        *)

Verdicts == {"good", "bad", "skipped"}

\* The providers' events with one verdict.
Of(evs, verdict) == {i \in Answers(evs) : Verdict(evs[i]) = verdict}

\* What one event adds to a count.
One(e, verdict) == IF e.step = "providers_completed" /\ Verdict(e) = verdict THEN 1 ELSE 0

Total(r) == r.good + r.bad + r.skipped

\* The counts of a snapshot with one more event.
Plus(r, e) == [good |-> r.good + One(e, "good"), bad |-> r.bad + One(e, "bad"),
               skipped |-> r.skipped + One(e, "skipped")]

(* Every event has one of three verdicts, and adds one or nothing.         *)
LEMMA VerdictType ==
    ASSUME NEW e
    PROVE  /\ Verdict(e) \in Verdicts
           /\ \A v \in Verdicts : One(e, v) \in {0, 1}
           /\ One(e, "good") + One(e, "bad") + One(e, "skipped")
                 = IF e.step = "providers_completed" THEN 1 ELSE 0
BY DEF Verdict, Verdicts, One

(* A sequence and one event more.                                          *)
LEMMA Appended ==
    ASSUME NEW T, NEW evs \in Seq(T), NEW e \in T
    PROVE  /\ Append(evs, e) \in Seq(T) /\ Len(Append(evs, e)) = Len(evs) + 1
           /\ DOMAIN evs = 1 .. Len(evs) /\ DOMAIN Append(evs, e) = 1 .. Len(evs) + 1
           /\ \A i \in 1 .. Len(evs) : Append(evs, e)[i] = evs[i]
           /\ Append(evs, e)[Len(evs) + 1] = e
           /\ Len(evs) \in Nat
BY AppendProperties

(* The events of one verdict are places of the sequence, finitely many.    *)
LEMMA OfFinite ==
    ASSUME NEW T, NEW evs \in Seq(T), NEW v
    PROVE  /\ Of(evs, v) \subseteq 1 .. Len(evs) /\ IsFiniteSet(Of(evs, v))
           /\ Cardinality(Of(evs, v)) \in Nat
<1>1. Len(evs) \in Nat /\ DOMAIN evs = 1 .. Len(evs)
  OBVIOUS
<1>2. Of(evs, v) \subseteq 1 .. Len(evs)
  BY <1>1 DEF Of, Answers
<1>3. IsFiniteSet(1 .. Len(evs))
  BY <1>1, FS_Interval
<1> QED BY <1>2, <1>3, FS_Subset, FS_CardinalityType

(* One event more is one more of its verdict, if it is a provider's.       *)
LEMMA OfAppend ==
    ASSUME NEW T, NEW evs \in Seq(T), NEW e \in T, NEW v
    PROVE  Cardinality(Of(Append(evs, e), v)) = Cardinality(Of(evs, v)) + One(e, v)
<1> DEFINE more == Append(evs, e)
           n == Len(evs) + 1
           old == Of(evs, v)
           new == Of(more, v)
<1>1. /\ DOMAIN evs = 1 .. Len(evs) /\ DOMAIN more = 1 .. n
      /\ \A i \in 1 .. Len(evs) : more[i] = evs[i]
      /\ more[n] = e /\ Len(evs) \in Nat
  BY Appended
<1>2. old \subseteq 1 .. Len(evs) /\ IsFiniteSet(old) /\ Cardinality(old) \in Nat
  BY OfFinite
<1>3. \A i \in 1 .. Len(evs) : i \in new <=> i \in old
  BY <1>1 DEF Of, Answers
<1>4. n \in new <=> One(e, v) = 1
  BY <1>1 DEF Of, Answers, One
<1>5. new \subseteq 1 .. n
  BY <1>1 DEF Of, Answers
<1>6. n \notin old /\ One(e, v) \in {0, 1} /\ 1 .. n = (1 .. Len(evs)) \cup {n}
  BY <1>1, <1>2 DEF One
<1> HIDE DEF old, new, n, more
<1>7. CASE One(e, v) = 1
  <2>1. new = old \cup {n}
    BY <1>2, <1>3, <1>4, <1>5, <1>6, <1>7
  <2> QED BY <1>2, <1>6, <1>7, <2>1, FS_AddElement DEF old, new, more
<1>8. CASE One(e, v) = 0
  <2>1. n \notin new
    BY <1>4, <1>8
  <2>2. \A i : i \in new => i \in 1 .. Len(evs)
    BY <1>5, <1>6, <2>1
  <2>3. new = old
    BY <1>2, <1>3, <2>2
  <2> QED BY <1>2, <1>8, <2>3 DEF old, new, more
<1> QED BY <1>6, <1>7, <1>8

(* The frontier counts the events of each verdict.                         *)
LEMMA FrontierFields ==
    ASSUME NEW evs
    PROVE  /\ Frontier(evs).good = Cardinality(Of(evs, "good"))
           /\ Frontier(evs).bad = Cardinality(Of(evs, "bad"))
           /\ Frontier(evs).skipped = Cardinality(Of(evs, "skipped"))
           /\ Frontier(evs) = [good |-> Frontier(evs).good, bad |-> Frontier(evs).bad,
                               skipped |-> Frontier(evs).skipped]
BY DEF Frontier, Of

(* The frontier of no events.                                              *)
LEMMA FrontierEmpty ==
    /\ Frontier(<<>>).good = 0 /\ Frontier(<<>>).bad = 0 /\ Frontier(<<>>).skipped = 0
    /\ Answers(<<>>) = {}
<1>1. Answers(<<>>) = {}
  BY DEF Answers
<1>2. \A v : Of(<<>>, v) = {}
  BY <1>1 DEF Of
<1> QED BY <1>1, <1>2, FrontierFields, FS_EmptySet

(* Three sums, added.                                                      *)
LEMMA SumOfSums ==
    ASSUME NEW a \in Nat, NEW b \in Nat, NEW c \in Nat,
           NEW x \in Nat, NEW y \in Nat, NEW z \in Nat
    PROVE  (a + x) + (b + y) + (c + z) = a + b + c + (x + y + z)
OBVIOUS

(* One event more adds to the count of its verdict.                        *)
LEMMA FrontierAppend ==
    ASSUME NEW T, NEW evs \in Seq(T), NEW e \in T
    PROVE  /\ Frontier(Append(evs, e)) = Plus(Frontier(evs), e)
           /\ {Frontier(evs).good, Frontier(evs).bad, Frontier(evs).skipped} \subseteq Nat
           /\ Total(Frontier(Append(evs, e)))
                 = Total(Frontier(evs)) + (IF e.step = "providers_completed" THEN 1 ELSE 0)
<1> DEFINE f == Frontier(evs)
           g == Frontier(Append(evs, e))
<1>1. {f.good, f.bad, f.skipped} \subseteq Nat
  BY FrontierFields, OfFinite
<1>2. /\ g.good = f.good + One(e, "good") /\ g.bad = f.bad + One(e, "bad")
      /\ g.skipped = f.skipped + One(e, "skipped")
  BY FrontierFields, OfAppend
<1>3. g = [good |-> g.good, bad |-> g.bad, skipped |-> g.skipped]
  BY FrontierFields
<1>4. /\ One(e, "good") \in {0, 1} /\ One(e, "bad") \in {0, 1} /\ One(e, "skipped") \in {0, 1}
      /\ One(e, "good") + One(e, "bad") + One(e, "skipped")
            = IF e.step = "providers_completed" THEN 1 ELSE 0
  BY VerdictType DEF Verdicts
<1> HIDE DEF f, g
<1>5. g = Plus(f, e)
  BY <1>2, <1>3 DEF Plus
<1>6. Total(g) = Total(f) + (IF e.step = "providers_completed" THEN 1 ELSE 0)
  <2>1. f.good \in Nat /\ f.bad \in Nat /\ f.skipped \in Nat
    BY <1>1
  <2> DEFINE x == One(e, "good")
             y == One(e, "bad")
             z == One(e, "skipped")
  <2>2. x \in Nat /\ y \in Nat /\ z \in Nat
    BY <1>4
  <2>3. g.good = f.good + x /\ g.bad = f.bad + y /\ g.skipped = f.skipped + z
    BY <1>2
  <2>4. x + y + z = IF e.step = "providers_completed" THEN 1 ELSE 0
    BY <1>4
  <2> HIDE DEF x, y, z
  <2>5. Total(g) = Total(f) + (x + y + z)
    <3>1. /\ Total(f) = f.good + f.bad + f.skipped
          /\ Total(g) = (f.good + x) + (f.bad + y) + (f.skipped + z)
      BY ONLY <2>3 DEF Total
    <3>2. (f.good + x) + (f.bad + y) + (f.skipped + z)
             = f.good + f.bad + f.skipped + (x + y + z)
      BY <2>1, <2>2, SumOfSums, SMTT(30)
    <3> QED BY ONLY <3>1, <3>2
  <2> QED BY <2>4, <2>5
<1> QED BY <1>1, <1>5, <1>6 DEF f, g

(* The counts are naturals, of which none is positive without an answer,   *)
(* and one is with an answer.                                              *)
LEMMA FrontierAnswers ==
    ASSUME NEW T, NEW evs \in Seq(T)
    PROVE  /\ {Frontier(evs).good, Frontier(evs).bad, Frontier(evs).skipped} \subseteq Nat
           /\ Total(Frontier(evs)) > 0 <=> Answers(evs) # {}
<1> DEFINE f == Frontier(evs)
<1>1. {f.good, f.bad, f.skipped} \subseteq Nat
  BY FrontierFields, OfFinite
<1>2. ASSUME Answers(evs) = {} PROVE f.good = 0 /\ f.bad = 0 /\ f.skipped = 0
  <2>1. \A v : Of(evs, v) = {}
    BY <1>2 DEF Of
  <2> QED BY <2>1, FrontierFields, FS_EmptySet
<1>3. ASSUME NEW i \in Answers(evs) PROVE f.good > 0 \/ f.bad > 0 \/ f.skipped > 0
  <2>1. PICK v \in Verdicts : Verdict(evs[i]) = v
    BY VerdictType
  <2>2. i \in Of(evs, v)
    BY <2>1 DEF Of
  <2>3. Cardinality(Of(evs, v)) > 0
    BY <2>2, OfFinite, FS_EmptySet
  <2> QED BY <2>3, FrontierFields DEF Verdicts
<1> HIDE DEF f
<1>4. Total(f) > 0 <=> f.good > 0 \/ f.bad > 0 \/ f.skipped > 0
  BY <1>1 DEF Total
<1> QED BY <1>1, <1>2, <1>3, <1>4 DEF f

(* Events grow: what there was to answer, to end and to count remains.     *)
LEMMA EventsGrow ==
    ASSUME NEW T, NEW evs \in Seq(T), NEW e \in T
    PROVE  /\ Answers(evs) \subseteq Answers(Append(evs, e))
           /\ Ends(evs) \subseteq Ends(Append(evs, e))
           /\ Frontier(evs).good <= Frontier(Append(evs, e)).good
           /\ Frontier(evs).bad <= Frontier(Append(evs, e)).bad
           /\ Frontier(evs).skipped <= Frontier(Append(evs, e)).skipped
<1>1. /\ DOMAIN evs = 1 .. Len(evs) /\ DOMAIN Append(evs, e) = 1 .. Len(evs) + 1
      /\ \A i \in 1 .. Len(evs) : Append(evs, e)[i] = evs[i]
      /\ Len(evs) \in Nat
  BY Appended
<1>2. /\ Answers(evs) \subseteq Answers(Append(evs, e))
      /\ Ends(evs) \subseteq Ends(Append(evs, e))
  BY <1>1 DEF Answers, Ends
<1>3. /\ Frontier(Append(evs, e)) = Plus(Frontier(evs), e)
      /\ {Frontier(evs).good, Frontier(evs).bad, Frontier(evs).skipped} \subseteq Nat
  BY FrontierAppend
<1>4. \A v \in Verdicts : One(e, v) \in {0, 1}
  BY VerdictType
<1> QED BY <1>2, <1>3, <1>4 DEF Plus, Verdicts

-----------------------------------------------------------------------------
(* What makes the invariants inductive.                                    *)

\* What the writer is about to do tells what it has recorded.
WriterOK ==
    /\ failing => writer \in {"finish", "publish", "over", "dead"}
    /\ writer = "finish" => failing
    /\ writer = "write" => operation = "multi_ai"
    /\ writer = "project" =>
          /\ events # <<>> /\ at <= Len(Script)
          /\ events[Len(events)].step = Script[at]
    /\ writer = "publish" =>
          /\ events # <<>> /\ events[Len(events)].step = "finish"
          /\ events[Len(events)].status \in Terminal
          /\ failing => events[Len(events)].status = "failed"
          /\ events[Len(events)].status = "succeeded" => Answers(events) # {}
          /\ ~failing => at = Len(Script) + 1

\* The providers' events are those of the script so far.
EventsCounted ==
    /\ Total(Frontier(events)) <= Providers
    /\ ~failing /\ writer # "dead" =>
          Total(Frontier(events)) = Provided(IF writer = "project" THEN at ELSE at - 1)

Behind(counts, frontier) ==
    /\ counts.good <= frontier.good /\ counts.bad <= frontier.bad
    /\ counts.skipped <= frontier.skipped

\* The counts of a snapshot once the event under way is projected into it.
Awaited(r) == IF writer = "project" THEN Plus(r, events[Len(events)]) ELSE Counts(r)

\* No snapshot counts more than the events.
RowsBehind == \A r \in rows : Behind(Awaited(r), Frontier(events))

\* While no snapshots share a second, none counts less either.
RowsExact ==
    shared = 0 /\ ~failing /\ writer \in {"record", "project", "publish"} =>
        \A r \in rows : Total(Awaited(r)) = Total(Frontier(events))

\* A success is stored by a finish after an answer, and shown where one was good.
SuccessesEarned ==
    /\ \A r \in rows : r.status = "succeeded" =>
          /\ Ends(events) # {} /\ Answers(events) # {}
          /\ Frontier(events).good > 0 \/ (Misled /\ writer = "over")
    /\ \A p \in polled : p.status = "succeeded" => Ends(events) # {} /\ Answers(events) # {}
    /\ shown = "succeeded" => Frontier(events).good > 0 /\ Ends(events) # {}

ProgressInd ==
    /\ ProgressTypeOK /\ WriterOK /\ EventsCounted /\ RowsBehind /\ RowsExact
    /\ SuccessesEarned /\ FailureIsKept

-----------------------------------------------------------------------------
(* Snapshots.                                                              *)

(* What a snapshot that is written leaves to be read.                      *)
LEMMA UpsertFacts ==
    ASSUME ProgressTypeOK, NEW r \in Run, UpsertRun(r)
    PROVE  /\ rows' \subseteq rows \cup {r} /\ rows' # {}
           /\ shared' \in 0 .. MaxShared /\ tie' \in BOOLEAN
           /\ ~ tie' => rows' = {r}
           /\ shared' = 0 => shared = 0 /\ rows' = {r}
           /\ shared > 0 => shared' > 0
<1>1. shared \in 0 .. MaxShared /\ rows # {} /\ MaxShared \in Nat
  BY ProgressAssumption DEF ProgressTypeOK
<1>2. CASE rows' = {r} /\ tie' = FALSE /\ UNCHANGED shared
  BY <1>1, <1>2
<1>3. CASE shared < MaxShared /\ rows' \in {rows, rows \cup {r}} /\ tie' = TRUE
           /\ shared' = shared + 1
  BY <1>1, <1>3
<1> QED BY <1>2, <1>3 DEF UpsertRun

(* The fields of a snapshot.                                               *)
LEMMA RunFields ==
    ASSUME operation \in Operations, NEW r
    PROVE  r \in Run <=>
              /\ r = [status |-> r.status, completed |-> r.completed, good |-> r.good,
                      bad |-> r.bad, skipped |-> r.skipped]
              /\ r.status \in {"succeeded", "failed", "blocked", "running"}
              /\ r.completed \in 0 .. 8
              /\ r.good \in 0 .. Providers /\ r.bad \in 0 .. Providers
              /\ r.skipped \in 0 .. Providers
<1>1. Len(Steps) = 8
  BY StepsFacts
<1> QED BY <1>1 DEF Run, Terminal

(* The place of a step is one of the eight, and of what ends a run none.   *)
LEMMA ReachedType ==
    ASSUME operation \in Operations, NEW e
    PROVE  Reached(e) \in 0 .. 8 /\ (e.step = "finish" => Reached(e) = 0)
<1>1. Steps \in Seq(Names) /\ Len(Steps) = 8 /\ DOMAIN Steps = 1 .. 8
  BY StepsFacts
<1>2. CASE \E i \in DOMAIN Steps : Steps[i] = e.step
  <2>1. e.step \in Names
    BY <1>1, <1>2, ElementOfSeq
  <2>2. e.step # "finish"
    BY <2>1 DEF Names
  <2> QED BY <1>1, <1>2, <2>2 DEF Reached
<1>3. CASE ~ \E i \in DOMAIN Steps : Steps[i] = e.step
  BY <1>3 DEF Reached
<1> QED BY <1>2, <1>3

(* A snapshot with an event projected into it.                             *)
LEMMA UpdatedFacts ==
    ASSUME NEW r, NEW e
    PROVE  LET u == Updated(r, e)
           IN  /\ u = [status |-> u.status, completed |-> u.completed, good |-> u.good,
                       bad |-> u.bad, skipped |-> u.skipped]
               /\ u.status = IF e.status \in Stopping THEN e.status ELSE r.status
               /\ u.completed = Larger(r.completed, Reached(e))
               /\ Counts(u) = Plus(r, e)
               /\ u.good = Plus(r, e).good /\ u.bad = Plus(r, e).bad
               /\ u.skipped = Plus(r, e).skipped
BY DEF Updated, Plus, One, Counts

(* What a finish counts, on a snapshot that is told the counts or is not:  *)
(* the events, or for want of them the snapshot.                           *)
LEMMA FinishedFacts ==
    ASSUME NEW r \in Run, NEW said, NEW evs, evs \in {<<>>, events}
    PROVE  LET f == Finished(Told(r), said, evs)
           IN  /\ f = [status |-> f.status, completed |-> f.completed, good |-> f.good,
                       bad |-> f.bad, skipped |-> f.skipped]
               /\ f.status = WithFrontier(said, Counts(f))
               /\ f.completed = IF said = "succeeded" THEN Len(Steps) ELSE r.completed
               /\ \/ Counts(f) = Frontier(events)
                  \/ /\ Counts(f) = Counts(r)
                     /\ operation # "multi_ai" \/ failing
                     /\ evs = <<>> \/ Answers(events) = {}
<1> DEFINE q == Told(r)
           k == Known(q, evs)
           f == Finished(q, said, evs)
<1>1. r = [status |-> r.status, completed |-> r.completed, good |-> r.good,
           bad |-> r.bad, skipped |-> r.skipped]
  BY DEF Run
<1>2. /\ q = [status |-> q.status, completed |-> q.completed, good |-> q.good,
              bad |-> q.bad, skipped |-> q.skipped]
      /\ q.completed = r.completed
      /\ IF operation = "multi_ai" /\ ~ failing THEN Counts(q) = Frontier(events)
         ELSE q = r
  <2>1. CASE operation = "multi_ai" /\ ~ failing
    <3>1. q = WithCounts(r, Frontier(events))
      BY <2>1 DEF Told
    <3>2. q = [status |-> r.status, completed |-> r.completed,
               good |-> Frontier(events).good, bad |-> Frontier(events).bad,
               skipped |-> Frontier(events).skipped]
      BY <1>1, <3>1 DEF WithCounts
    <3> QED BY <2>1, <3>2, FrontierFields DEF Counts
  <2>2. CASE ~ (operation = "multi_ai" /\ ~ failing)
    BY <1>1, <2>2 DEF Told
  <2> QED BY <2>1, <2>2
<1> HIDE DEF q
<1>3. /\ k = [good |-> k.good, bad |-> k.bad, skipped |-> k.skipped]
      /\ \/ k = Counts(q) /\ (evs = <<>> \/ Answers(events) = {})
         \/ k = Frontier(events)
  <2>1. Answers(<<>>) = {}
    BY FrontierEmpty
  <2>2. CASE Answers(evs) = {}
    <3>1. k = Counts(q)
      BY <2>2 DEF Known
    <3> QED BY <2>2, <3>1 DEF Counts
  <2>3. CASE Answers(evs) # {}
    <3>1. evs = events
      BY <2>1, <2>3
    <3> QED BY <2>3, <3>1, FrontierFields DEF Known
  <2> QED BY <2>2, <2>3
<1>4. /\ f = [status |-> f.status, completed |-> f.completed, good |-> f.good,
              bad |-> f.bad, skipped |-> f.skipped]
      /\ f.status = WithFrontier(said, k) /\ Counts(f) = k
      /\ f.completed = IF said = "succeeded" THEN Len(Steps) ELSE q.completed
  <2> HIDE DEF k
  <2>1. f = WithCounts(
               [q EXCEPT !.status = WithFrontier(said, k),
                         !.completed = IF said = "succeeded" THEN Len(Steps) ELSE @], k)
    BY DEF Finished, k
  <2>2. f = [status |-> WithFrontier(said, k),
             completed |-> IF said = "succeeded" THEN Len(Steps) ELSE q.completed,
             good |-> k.good, bad |-> k.bad, skipped |-> k.skipped]
    BY <1>2, <2>1 DEF WithCounts
  <2> HIDE DEF f
  <2> QED BY <1>3, <2>2 DEF Counts
<1> HIDE DEF k, f
<1>5. \/ Counts(f) = Frontier(events)
      \/ /\ Counts(f) = Counts(r)
         /\ operation # "multi_ai" \/ failing
         /\ evs = <<>> \/ Answers(events) = {}
  BY <1>2, <1>3, <1>4
<1> QED BY <1>2, <1>4, <1>5 DEF q, k, f

(* A success that was corrected by the counts is one still only with a     *)
(* good answer, or with none at all.                                       *)
LEMMA CorrectedFacts ==
    ASSUME NEW said, NEW counts,
           counts.good \in Nat, counts.bad \in Nat, counts.skipped \in Nat
    PROVE  /\ WithFrontier(said, counts) = "succeeded" =>
                 said = "succeeded" /\ (counts.good > 0 \/ Total(counts) = 0)
           /\ said \in Shown => WithFrontier(said, counts) \in Shown
           /\ said # "succeeded" => WithFrontier(said, counts) = said
BY DEF WithFrontier, Total, Shown, Terminal

-----------------------------------------------------------------------------
(* The writer's steps.                                                     *)

(* What the types say of the constants and the script.                     *)
LEMMA Sizes ==
    ASSUME ProgressTypeOK
    PROVE  /\ operation \in Operations /\ Providers \in Nat \ {0}
           /\ events \in Seq(Event) /\ Len(events) \in Nat
           /\ Len(Script) = Providers + 8 /\ at \in 1 .. Providers + 9
           /\ DOMAIN Script = 1 .. Providers + 8
           /\ Len(Steps) = 8
<1>1. operation \in Operations
  BY DEF ProgressTypeOK, Operations
<1>2. Script \in Seq(Names) /\ Len(Script) = Providers + 8
  BY <1>1, ScriptFacts
<1>3. Providers \in Nat \ {0}
  BY ProgressAssumption
<1>4. at \in 1 .. Len(Script) + 1
  BY DEF ProgressTypeOK
<1>5. events \in Seq(Event) /\ Len(events) \in Nat
  BY DEF ProgressTypeOK
<1>6. at \in 1 .. Providers + 9
  BY <1>2, <1>3, <1>4
<1>7. Len(Steps) = 8
  BY <1>1, StepsFacts
<1> QED BY <1>1, <1>2, <1>3, <1>5, <1>6, <1>7

(* The script provides as many answers as there are providers.             *)
LEMMA ProvidedFacts ==
    ASSUME ProgressTypeOK, NEW k \in 1 .. Providers + 8
    PROVE  /\ Provided(k) \in 0 .. Providers /\ Provided(k - 1) \in 0 .. Providers
           /\ Provided(k) = Provided(k - 1)
                 + (IF Script[k] = "providers_completed" THEN 1 ELSE 0)
           /\ Provided(Providers + 8) = Providers
<1>1. Providers \in Nat \ {0} /\ operation \in Operations
  BY Sizes
<1>2. First \in {3, 6}
  BY DEF First
<1>3. Script[k] = "providers_completed" <=> First <= k /\ k < First + Providers
  BY <1>1, ScriptFacts
<1> QED BY <1>1, <1>2, <1>3 DEF Provided

(* A snapshot's counts are naturals, and so are those of the events.       *)
LEMMA CountTypes ==
    ASSUME ProgressTypeOK, NEW r \in rows
    PROVE  /\ r \in Run
           /\ r.good \in Nat /\ r.bad \in Nat /\ r.skipped \in Nat
           /\ Counts(r) = [good |-> r.good, bad |-> r.bad, skipped |-> r.skipped]
           /\ Frontier(events).good \in Nat /\ Frontier(events).bad \in Nat
           /\ Frontier(events).skipped \in Nat
<1>1. r \in Run
  BY DEF ProgressTypeOK
<1>2. r.good \in Nat /\ r.bad \in Nat /\ r.skipped \in Nat
  BY <1>1, Sizes, RunFields
<1>3. {Frontier(events).good, Frontier(events).bad, Frontier(events).skipped} \subseteq Nat
  BY Sizes, FrontierAnswers
<1> QED BY <1>1, <1>2, <1>3 DEF Counts

(* One event more in the snapshot and in what it is compared with.         *)
LEMMA BehindPlus ==
    ASSUME NEW r, r.good \in Nat, r.bad \in Nat, r.skipped \in Nat,
           NEW f, f.good \in Nat, f.bad \in Nat, f.skipped \in Nat, NEW e
    PROVE  /\ Behind(Counts(r), f) => Behind(Plus(r, e), Plus(f, e))
           /\ Behind(Plus(r, e), f) => Behind(Counts(r), f)
           /\ Total(Plus(r, e)) = Total(Counts(r))
                 + (IF e.step = "providers_completed" THEN 1 ELSE 0)
<1> DEFINE x == One(e, "good")
           y == One(e, "bad")
           z == One(e, "skipped")
<1>1. /\ x \in {0, 1} /\ y \in {0, 1} /\ z \in {0, 1}
      /\ x + y + z = IF e.step = "providers_completed" THEN 1 ELSE 0
  BY VerdictType DEF Verdicts
<1>2. /\ Plus(r, e) = [good |-> r.good + x, bad |-> r.bad + y, skipped |-> r.skipped + z]
      /\ Plus(f, e) = [good |-> f.good + x, bad |-> f.bad + y, skipped |-> f.skipped + z]
  BY DEF Plus
<1> HIDE DEF x, y, z
<1>3. Behind(Counts(r), f) => Behind(Plus(r, e), Plus(f, e))
  BY <1>1, <1>2 DEF Behind, Counts
<1>4. Behind(Plus(r, e), f) => Behind(Counts(r), f)
  BY <1>1, <1>2 DEF Behind, Counts
<1>5. Total(Plus(r, e)) = Total(Counts(r)) + (x + y + z)
  BY <1>1, <1>2 DEF Total, Counts
<1> QED BY <1>1, <1>3, <1>4, <1>5

(* What was stored and shown as a success stays earned when events grow.   *)
LEMMA StillEarned ==
    ASSUME ProgressTypeOK, SuccessesEarned, writer # "over",
           NEW e, events' = Append(events, e), e \in Event, UNCHANGED <<rows, polled, shown>>
    PROVE  SuccessesEarned'
<1>1. /\ Answers(events) \subseteq Answers(events') /\ Ends(events) \subseteq Ends(events')
      /\ Frontier(events).good <= Frontier(events').good
  BY Sizes, EventsGrow
<1>2. Frontier(events).good \in Nat /\ Frontier(events').good \in Nat
  <2>1. events \in Seq(Event)
    BY Sizes
  <2>2. events' \in Seq(Event)
    BY <2>1, Appended
  <2>3. {Frontier(events).good, Frontier(events).bad, Frontier(events).skipped} \subseteq Nat
    BY <2>1, FrontierAnswers
  <2>4. \A evs \in Seq(Event) : Frontier(evs).good \in Nat
    BY FrontierAnswers
  <2> QED BY <2>1, <2>2, <2>4
<1>3. Frontier(events).good > 0 => Frontier(events').good > 0
  BY <1>1, <1>2
<1> QED BY <1>1, <1>3 DEF SuccessesEarned

(* The event of a step.                                                    *)
LEMMA SaysType ==
    ASSUME ProgressTypeOK, at <= Len(Script), NEW refused, NEW e \in Says(Script[at], refused)
    PROVE  e \in Event /\ e.step = Script[at] /\ e.status # "succeeded"
<1>1. at \in DOMAIN Script
  BY Sizes
<1>2. \E said \in {"blocked", "completed", "failed", "skipped", "running"} :
      \E valid \in BOOLEAN :
         e = [step |-> Script[at], status |-> said, valid |-> valid]
  <2> DEFINE step == Script[at]
             fact(said, valid) == [step |-> step, status |-> said, valid |-> valid]
  <2>1. e \in Says(step, refused)
    OBVIOUS
  <2> HIDE DEF step
  <2>2. e \in {fact("blocked", FALSE), fact("completed", TRUE), fact("failed", FALSE),
              fact("skipped", FALSE), fact("completed", FALSE), fact("running", FALSE)}
    BY <2>1 DEF Says
  <2> QED BY <2>2 DEF step
<1>3. /\ e = [step |-> e.step, status |-> e.status, valid |-> e.valid]
      /\ e.step = Script[at] /\ e.valid \in BOOLEAN
      /\ e.status \in {"blocked", "completed", "failed", "skipped", "running"}
  BY <1>2
<1>4. e.step \in {Script[i] : i \in DOMAIN Script} \cup {"finish"}
  BY <1>1, <1>3
<1>5. e.status \in {"running"} \cup Done \cup Stopping
  BY <1>3 DEF Done, Stopping
<1> QED BY <1>3, <1>4, <1>5 DEF Event

(* Recording keeps the invariant.                                          *)
LEMMA RecordKeeps ==
    ASSUME ProgressInd, Record
    PROVE  ProgressInd'
<1> USE DEF ProgressInd
<1>1. PICK e \in Says(Script[at], unsafe') : events' = Append(events, e)
  BY DEF Record
<1>2. /\ writer = "record" /\ writer' = "project" /\ at <= Len(Script) /\ ~ failing
      /\ unsafe' \in BOOLEAN
      /\ UNCHANGED <<stored, at, failing, operation, pollVars>>
  BY DEF Record, WriterOK, ProgressTypeOK
<1>3. UNCHANGED <<rows, shared, tie, blind, at, failing, operation, polled, shown>>
  BY <1>2 DEF stored, pollVars
<1>4. e \in Event /\ e.step = Script[at] /\ e.status # "succeeded"
  BY <1>1, <1>2, SaysType
<1>5. Script' = Script /\ Event' = Event /\ Run' = Run
  BY <1>3, SameScript
<1>6. /\ events' \in Seq(Event) /\ Len(events') = Len(events) + 1
      /\ events'[Len(events')] = e
  BY <1>1, <1>4, Sizes, Appended
<1>7. /\ Frontier(events') = Plus(Frontier(events), e)
      /\ Total(Frontier(events')) = Total(Frontier(events))
            + (IF e.step = "providers_completed" THEN 1 ELSE 0)
  BY <1>1, <1>4, Sizes, FrontierAppend
<1>8. ProgressTypeOK'
  BY <1>2, <1>3, <1>5, <1>6 DEF ProgressTypeOK
<1>9. WriterOK'
  <2>1. events' # <<>>
    BY <1>6, Sizes
  <2> QED BY <1>2, <1>3, <1>4, <1>5, <1>6, <2>1 DEF WriterOK
<1>10. EventsCounted'
  <2>1. Total(Frontier(events)) = Provided(at - 1)
    BY <1>2 DEF EventsCounted
  <2>2. at \in 1 .. Providers + 8
    BY <1>2, Sizes
  <2>3. Total(Frontier(events')) = Provided(at) /\ Provided(at) \in 0 .. Providers
    BY <1>4, <1>7, <2>1, <2>2, ProvidedFacts
  <2>4. Provided(at)' = Provided(at)
    BY <1>3 DEF Provided, First
  <2> QED BY <1>2, <1>3, <2>3, <2>4, Sizes DEF EventsCounted
<1>11. RowsBehind' /\ RowsExact'
  <2> SUFFICES ASSUME NEW r \in rows
               PROVE  /\ Behind(Plus(r, e), Frontier(events'))
                      /\ shared = 0 => Total(Plus(r, e)) = Total(Frontier(events'))
    BY <1>2, <1>3, <1>6 DEF RowsBehind, RowsExact, Awaited
  <2>1. Behind(Counts(r), Frontier(events))
        /\ (shared = 0 => Total(Counts(r)) = Total(Frontier(events)))
    BY <1>2 DEF RowsBehind, RowsExact, Awaited
  <2>2. /\ Behind(Plus(r, e), Plus(Frontier(events), e))
        /\ Total(Plus(r, e)) = Total(Counts(r))
              + (IF e.step = "providers_completed" THEN 1 ELSE 0)
    BY <2>1, CountTypes, BehindPlus
  <2> QED BY <1>7, <2>1, <2>2
<1>12. SuccessesEarned'
  BY <1>1, <1>2, <1>3, <1>4, StillEarned
<1>13. FailureIsKept'
  BY <1>2 DEF FailureIsKept
<1> QED BY <1>8, <1>9, <1>10, <1>11, <1>12, <1>13

(* Counts no greater than the events' are no more than the providers.      *)
LEMMA SmallCounts ==
    ASSUME ProgressTypeOK, EventsCounted,
           NEW c, c.good \in Nat, c.bad \in Nat, c.skipped \in Nat,
           Behind(c, Frontier(events))
    PROVE  /\ c.good \in 0 .. Providers /\ c.bad \in 0 .. Providers
           /\ c.skipped \in 0 .. Providers
<1> DEFINE f == Frontier(events)
<1>1. f.good \in Nat /\ f.bad \in Nat /\ f.skipped \in Nat
  <2>1. {f.good, f.bad, f.skipped} \subseteq Nat
    BY Sizes, FrontierAnswers
  <2> QED BY <2>1
<1>2. f.good + f.bad + f.skipped <= Providers /\ Providers \in Nat
  BY Sizes DEF EventsCounted, Total
<1>3. c.good <= f.good /\ c.bad <= f.bad /\ c.skipped <= f.skipped
  BY DEF Behind
<1> HIDE DEF f
<1> QED BY <1>1, <1>2, <1>3

(* Projecting keeps the invariant.                                         *)
LEMMA ProjectKeeps ==
    ASSUME ProgressInd, Project
    PROVE  ProgressInd'
<1> USE DEF ProgressInd
<1> DEFINE e == events[Len(events)]
           f == Frontier(events)
<1>1. PICK r \in rows : UpsertRun(Updated(r, e))
  BY DEF Project
<1> DEFINE u == Updated(r, e)
<1>2. /\ writer = "project" /\ writer' = "record" /\ at' = at + 1 /\ ~ failing
      /\ at \in 1 .. Len(Script)
      /\ UNCHANGED <<events, blind, unsafe, failing, operation, polled, shown>>
  BY DEF Project, WriterOK, ProgressTypeOK, pollVars
<1>3. Script' = Script /\ Event' = Event /\ Run' = Run
  BY <1>2, SameScript
<1>4. /\ e \in Event /\ e.status \in {"running"} \cup Done \cup Stopping
  <2>1. Len(events) \in 1 .. Len(events) /\ events \in Seq(Event)
    BY <1>2, Sizes DEF WriterOK
  <2>2. e \in Event
    BY <2>1, ElementOfSeq
  <2> QED BY <2>2 DEF Event
<1>5. \A q \in rows : /\ Behind(Plus(q, e), f) /\ Behind(Counts(q), f)
                      /\ shared = 0 => Total(Plus(q, e)) = Total(f)
  <2> SUFFICES ASSUME NEW q \in rows
               PROVE  /\ Behind(Plus(q, e), f) /\ Behind(Counts(q), f)
                      /\ shared = 0 => Total(Plus(q, e)) = Total(f)
    OBVIOUS
  <2>1. Behind(Plus(q, e), f) /\ (shared = 0 => Total(Plus(q, e)) = Total(f))
    BY <1>2 DEF RowsBehind, RowsExact, Awaited
  <2>2. /\ q.good \in Nat /\ q.bad \in Nat /\ q.skipped \in Nat
        /\ f.good \in Nat /\ f.bad \in Nat /\ f.skipped \in Nat
    BY CountTypes
  <2> HIDE DEF e, f
  <2>3. Behind(Plus(q, e), f) => Behind(Counts(q), f)
    BY <2>2, BehindPlus
  <2> QED BY <2>1, <2>3
<1>6. /\ u = [status |-> u.status, completed |-> u.completed, good |-> u.good,
              bad |-> u.bad, skipped |-> u.skipped]
      /\ u.status = (IF e.status \in Stopping THEN e.status ELSE r.status)
      /\ u.completed = Larger(r.completed, Reached(e))
      /\ Counts(u) = Plus(r, e)
      /\ u.good = Plus(r, e).good /\ u.bad = Plus(r, e).bad
      /\ u.skipped = Plus(r, e).skipped
  BY UpdatedFacts
<1> HIDE DEF u, e, f
<1>7. u \in Run
  <2>1. /\ r.status \in {"succeeded", "failed", "blocked", "running"}
        /\ r.completed \in 0 .. 8
        /\ r.good \in Nat /\ r.bad \in Nat /\ r.skipped \in Nat
    BY CountTypes, Sizes, RunFields
  <2>2. Plus(r, e).good \in Nat /\ Plus(r, e).bad \in Nat /\ Plus(r, e).skipped \in Nat
    <3>1. \A v \in Verdicts : One(e, v) \in {0, 1}
      BY VerdictType
    <3> QED BY <2>1, <3>1 DEF Plus, Verdicts
  <2>3. /\ u.good \in 0 .. Providers /\ u.bad \in 0 .. Providers
        /\ u.skipped \in 0 .. Providers
    BY <1>5, <1>6, <2>2, SmallCounts DEF f
  <2>4. u.completed \in 0 .. 8
    BY <1>6, <2>1, Sizes, ReachedType DEF Larger
  <2>5. u.status \in {"succeeded", "failed", "blocked", "running"}
    BY <1>6, <2>1 DEF Stopping
  <2> QED BY <1>6, <2>3, <2>4, <2>5, Sizes, RunFields
<1>8. /\ rows' \subseteq rows \cup {u} /\ rows' # {}
      /\ shared' \in 0 .. MaxShared /\ tie' \in BOOLEAN
      /\ shared' = 0 => shared = 0 /\ rows' = {u}
  BY <1>1, <1>7, UpsertFacts DEF u
<1>9. ProgressTypeOK'
  <2>1. at' \in 1 .. Len(Script) + 1
    BY <1>2, Sizes
  <2> QED BY <1>2, <1>3, <1>7, <1>8, <2>1 DEF ProgressTypeOK
<1>10. WriterOK'
  BY <1>2 DEF WriterOK
<1>11. EventsCounted'
  <2>1. at' - 1 = at
    BY <1>2, Sizes
  <2>3. Total(Frontier(events)) = Provided(at) /\ Total(Frontier(events)) <= Providers
    BY <1>2 DEF EventsCounted
  <2>4. Provided(at' - 1) = Provided(at)
    BY <2>1
  <2>5. (Provided(IF writer = "project" THEN at ELSE at - 1))' = Provided(at' - 1)
    BY <1>2 DEF Provided, First
  <2> QED BY <1>2, <2>3, <2>4, <2>5 DEF EventsCounted
<1>12. RowsBehind' /\ RowsExact'
  <2> SUFFICES ASSUME NEW q \in rows'
               PROVE  /\ Behind(Counts(q), f)
                      /\ shared' = 0 => Total(Counts(q)) = Total(f)
    BY <1>2 DEF RowsBehind, RowsExact, Awaited, f
  <2>1. Behind(Counts(q), f)
    BY <1>5, <1>6, <1>8
  <2>2. shared' = 0 => Total(Counts(q)) = Total(f)
    BY <1>5, <1>6, <1>8
  <2> QED BY <2>1, <2>2
<1>13. SuccessesEarned'
  <2>1. u.status = "succeeded" => r.status = "succeeded"
    BY <1>6 DEF Stopping
  <2>2. \A q \in rows' : q.status = "succeeded" =>
           Ends(events) # {} /\ Answers(events) # {} /\ Frontier(events).good > 0
    BY <1>2, <1>8, <2>1 DEF SuccessesEarned
  <2> QED BY <1>2, <2>2 DEF SuccessesEarned
<1>14. FailureIsKept'
  BY <1>2 DEF FailureIsKept
<1> QED BY <1>9, <1>10, <1>11, <1>12, <1>13, <1>14

(* Finishing records what the run claims, and keeps the invariant.         *)
LEMMA FinishKeeps ==
    ASSUME ProgressInd, Finish
    PROVE  ProgressInd'
<1> USE DEF ProgressInd
<1> DEFINE e == [step |-> "finish", status |-> Claimed, valid |-> FALSE]
<1>1. /\ writer \in {"finish", "record"} /\ writer' = "publish"
      /\ writer = "record" => at = Len(Script) + 1 /\ ~ failing
      /\ writer = "finish" => failing
      /\ events' = Append(events, e)
      /\ UNCHANGED <<rows, shared, tie, blind, at, unsafe, failing, operation, polled, shown>>
  <2>1. writer = "record" /\ at > Len(Script) => at = Len(Script) + 1
    BY Sizes
  <2> QED BY <2>1 DEF Finish, WriterOK, stored, pollVars
<1>2. /\ Claimed \in {"succeeded", "failed", "blocked"}
      /\ failing => Claimed = "failed"
  BY DEF Claimed
<1>3. e \in Event /\ e.step = "finish" /\ e.status = Claimed
  BY <1>2 DEF Event, Done, Stopping
<1> HIDE DEF e
<1>4. Script' = Script /\ Event' = Event /\ Run' = Run
  BY <1>1, SameScript
<1>5. /\ events' \in Seq(Event) /\ Len(events') = Len(events) + 1
      /\ events'[Len(events')] = e /\ Len(events) \in Nat
  BY <1>1, <1>3, Sizes, Appended
<1>6. Frontier(events') = Frontier(events)
  <2>1. /\ Frontier(events').good = Frontier(events).good
        /\ Frontier(events').bad = Frontier(events).bad
        /\ Frontier(events').skipped = Frontier(events).skipped
    <3>1. Frontier(events') = Plus(Frontier(events), e)
      BY <1>1, <1>3, Sizes, FrontierAppend
    <3>2. \A v : One(e, v) = 0
      BY <1>3 DEF One
    <3>3. {Frontier(events).good, Frontier(events).bad, Frontier(events).skipped}
             \subseteq Nat
      BY Sizes, FrontierAnswers
    <3> QED BY <3>1, <3>2, <3>3 DEF Plus
  <2> QED BY <2>1, FrontierFields
<1>7. ProgressTypeOK'
  BY <1>1, <1>4, <1>5 DEF ProgressTypeOK
<1>8. ASSUME writer = "record" PROVE Answers(events') # {}
  <2>1. Total(Frontier(events)) = Provided(at - 1)
    BY <1>1, <1>8 DEF EventsCounted
  <2>2. at - 1 = Providers + 8 /\ Providers \in Nat \ {0}
    BY <1>1, <1>8, Sizes
  <2>3. Provided(Providers + 8) = Providers
    BY <2>2, ProvidedFacts
  <2>4. Total(Frontier(events')) > 0
    BY <1>6, <2>1, <2>2, <2>3
  <2> QED BY <1>5, <2>4, FrontierAnswers
<1>9. WriterOK'
  <2>1. events' # <<>>
    BY <1>5
  <2> QED BY <1>1, <1>2, <1>3, <1>4, <1>5, <1>8, <2>1 DEF WriterOK, Terminal
<1>10. EventsCounted'
  <2>1. Provided(at - 1)' = Provided(at - 1)
    BY <1>1 DEF Provided, First
  <2> QED BY <1>1, <1>6, <2>1 DEF EventsCounted
<1>11. RowsBehind' /\ RowsExact'
  BY <1>1, <1>6 DEF RowsBehind, RowsExact, Awaited, Counts
<1>12. SuccessesEarned'
  BY <1>1, <1>3, StillEarned
<1>13. FailureIsKept'
  BY <1>1 DEF FailureIsKept
<1> QED BY <1>7, <1>9, <1>10, <1>11, <1>12, <1>13

(* Publishing keeps the invariant: a success is stored if an answer was    *)
(* good, or for want of the events and on an older snapshot.               *)
LEMMA PublishKeeps ==
    ASSUME ProgressInd, Publish
    PROVE  ProgressInd'
<1> USE DEF ProgressInd
<1> DEFINE said == events[Len(events)].status
           evs == IF blind' THEN <<>> ELSE events
<1>1. PICK r \in rows : UpsertRun(Finished(Told(r), said, evs))
  BY DEF Publish
<1> DEFINE f == Finished(Told(r), said, evs)
<1>2. /\ writer = "publish" /\ blind' \in BOOLEAN
      /\ writer' = IF operation = "multi_ai" /\ ~ failing THEN "write" ELSE "over"
      /\ UNCHANGED <<events, at, unsafe, failing, operation, polled, shown>>
  BY DEF Publish, pollVars
<1>3. Script' = Script /\ Event' = Event /\ Run' = Run
  BY <1>2, SameScript
<1>4. /\ said \in Terminal
      /\ events[Len(events)].step = "finish" /\ Len(events) \in DOMAIN events
      /\ failing => said = "failed"
      /\ said = "succeeded" => Answers(events) # {}
  <2>1. Len(events) \in 1 .. Len(events) /\ events \in Seq(Event)
    BY <1>2, Sizes DEF WriterOK
  <2> QED BY <1>2, <2>1 DEF WriterOK
<1>5. /\ r \in Run /\ r.good \in Nat /\ r.bad \in Nat /\ r.skipped \in Nat
      /\ Counts(r) = [good |-> r.good, bad |-> r.bad, skipped |-> r.skipped]
      /\ r.completed \in 0 .. 8
  BY CountTypes, Sizes, RunFields
<1>6. /\ Behind(Counts(r), Frontier(events))
      /\ shared = 0 /\ ~ failing => Total(Counts(r)) = Total(Frontier(events))
  BY <1>2 DEF RowsBehind, RowsExact, Awaited
<1>7. /\ f = [status |-> f.status, completed |-> f.completed, good |-> f.good,
              bad |-> f.bad, skipped |-> f.skipped]
      /\ f.status = WithFrontier(said, Counts(f))
      /\ f.completed = (IF said = "succeeded" THEN Len(Steps) ELSE r.completed)
      /\ \/ Counts(f) = Frontier(events)
         \/ /\ Counts(f) = Counts(r)
            /\ operation # "multi_ai" \/ failing
            /\ evs = <<>> \/ Answers(events) = {}
  <2>1. evs \in {<<>>, events}
    OBVIOUS
  <2> HIDE DEF evs, said
  <2> QED BY <1>5, <2>1, FinishedFacts
<1>8. evs = <<>> /\ Answers(events) # {} => blind'
  BY FrontierEmpty
<1> HIDE DEF f, evs, said
<1>9. /\ f.good \in Nat /\ f.bad \in Nat /\ f.skipped \in Nat
      /\ Behind(Counts(f), Frontier(events))
  <2>1. Counts(f) = [good |-> f.good, bad |-> f.bad, skipped |-> f.skipped]
    BY DEF Counts
  <2>2. /\ Frontier(events).good \in Nat /\ Frontier(events).bad \in Nat
        /\ Frontier(events).skipped \in Nat
    BY CountTypes
  <2>3. CASE Counts(f) = Frontier(events)
    BY <2>1, <2>2, <2>3 DEF Behind
  <2>4. CASE Counts(f) = Counts(r)
    BY <1>5, <1>6, <2>1, <2>4
  <2> QED BY <1>7, <2>3, <2>4
<1>10. /\ f.status = "succeeded" =>
             said = "succeeded" /\ (f.good > 0 \/ Total(Counts(f)) = 0)
       /\ f.status \in {"succeeded", "failed", "blocked", "running"}
       /\ said = "failed" => f.status = "failed"
  <2> DEFINE c == Counts(f)
  <2>1. c.good \in Nat /\ c.bad \in Nat /\ c.skipped \in Nat /\ c.good = f.good
    BY <1>9 DEF Counts
  <2> HIDE DEF c
  <2>2. /\ WithFrontier(said, c) = "succeeded" =>
              said = "succeeded" /\ (c.good > 0 \/ Total(c) = 0)
        /\ said \in Shown => WithFrontier(said, c) \in Shown
        /\ said # "succeeded" => WithFrontier(said, c) = said
    BY <2>1, CorrectedFacts
  <2>3. said \in Shown
    BY <1>4 DEF Shown
  <2> QED BY <1>7, <2>1, <2>2, <2>3 DEF c, Shown, Terminal
<1>11. f \in Run
  <2>1. /\ f.good \in 0 .. Providers /\ f.bad \in 0 .. Providers
        /\ f.skipped \in 0 .. Providers
    <3>1. Behind(f, Frontier(events))
      BY <1>9 DEF Behind, Counts
    <3> QED BY <1>9, <3>1, SmallCounts
  <2>2. f.completed \in 0 .. 8
    BY <1>5, <1>7, Sizes
  <2> QED BY <1>7, <1>10, <2>1, <2>2, Sizes, RunFields
<1>12. /\ rows' \subseteq rows \cup {f} /\ rows' # {}
       /\ shared' \in 0 .. MaxShared /\ tie' \in BOOLEAN
       /\ ~ tie' => rows' = {f}
       /\ shared' = 0 => shared = 0
  BY <1>1, <1>11, UpsertFacts DEF f, said, evs
<1>13. ProgressTypeOK'
  BY <1>2, <1>3, <1>11, <1>12 DEF ProgressTypeOK
<1>14. WriterOK'
  BY <1>2 DEF WriterOK
<1>15. EventsCounted'
  <2>1. Provided(at - 1)' = Provided(at - 1)
    BY <1>2 DEF Provided, First
  <2> QED BY <1>2, <2>1 DEF EventsCounted
<1>16. RowsBehind' /\ RowsExact'
  <2>1. ASSUME NEW q \in rows' PROVE Behind(Counts(q), Frontier(events))
    <3>1. CASE q \in rows
      BY <1>2, <3>1 DEF RowsBehind, Awaited
    <3>2. CASE q = f
      BY <1>9, <3>2
    <3> QED BY <1>12, <3>1, <3>2
  <2> QED BY <1>2, <2>1 DEF RowsBehind, RowsExact, Awaited
<1>17. ASSUME NEW q \in rows', q.status = "succeeded"
       PROVE  /\ Ends(events) # {} /\ Answers(events) # {}
              /\ Frontier(events).good > 0 \/ (Misled' /\ writer' = "over")
  <2>1. CASE q \in rows
    BY <1>2, <1>17, <2>1 DEF SuccessesEarned
  <2>2. CASE q = f
    <3>1. said = "succeeded" /\ (f.good > 0 \/ Total(Counts(f)) = 0)
      BY <1>10, <1>17, <2>2
    <3>2. Ends(events) # {} /\ Answers(events) # {} /\ ~ failing
      BY <1>4, <3>1 DEF Ends, said
    <3>3. Total(Frontier(events)) > 0
      BY <3>2, Sizes, FrontierAnswers
    <3>4. CASE f.good > 0
      <4>1. f.good <= Frontier(events).good /\ Frontier(events).good \in Nat
        BY <1>9, CountTypes DEF Behind, Counts
      <4> QED BY <1>9, <3>2, <3>4, <4>1
    <3>5. CASE Total(Counts(f)) = 0
      <4>1. Counts(f) = Counts(r) /\ operation # "multi_ai" /\ blind'
        BY <1>7, <1>8, <3>2, <3>3, <3>5
      <4>2. shared # 0
        BY <1>6, <3>2, <3>3, <3>5, <4>1
      <4>3. shared' > 0
        BY <1>12, <4>2
      <4> QED BY <1>2, <3>2, <4>1, <4>3 DEF Misled
    <3> QED BY <3>1, <3>4, <3>5
  <2> QED BY <1>12, <2>1, <2>2
<1>18. SuccessesEarned'
  BY <1>2, <1>17 DEF SuccessesEarned
<1>19. FailureIsKept'
  <2> SUFFICES ASSUME failing
               PROVE  /\ events[Len(events)].status = "failed"
                      /\ ~ tie' => \A q \in rows' : q.status = "failed"
    BY <1>2 DEF FailureIsKept
  <2> QED BY <1>4, <1>10, <1>12 DEF said
<1> QED BY <1>13, <1>14, <1>15, <1>16, <1>18, <1>19

(* The steps that store nothing: the work after the finish, what raises    *)
(* and what dies.                                                          *)
LEMMA OthersKeep ==
    ASSUME ProgressInd, Write \/ Raise \/ Die
    PROVE  ProgressInd'
<1> USE DEF ProgressInd
<1>1. UNCHANGED <<events, rows, shared, tie, blind, at, unsafe, operation, polled, shown>>
  BY DEF Write, Raise, Die, stored, pollVars
<1>2. \/ writer = "write" /\ writer' = "over" /\ failing' = failing /\ ~ failing
      \/ writer \in {"record", "project", "publish", "write"} /\ ~ failing /\ failing'
         /\ writer' = "finish" /\ failing' = TRUE
      \/ writer \notin {"over", "dead"} /\ writer' = "dead" /\ failing' = failing
  BY DEF Write, Raise, Die, WriterOK
<1>3. Script' = Script /\ Event' = Event /\ Run' = Run
  BY <1>1, SameScript
<1>4. ProgressTypeOK'
  BY <1>1, <1>2, <1>3 DEF ProgressTypeOK
<1>5. WriterOK'
  BY <1>1, <1>2 DEF WriterOK
<1>6. EventsCounted'
  <2>1. Provided(at - 1)' = Provided(at - 1)
    BY <1>1 DEF Provided, First
  <2> QED BY <1>1, <1>2, <2>1 DEF EventsCounted
<1>7. RowsBehind' /\ RowsExact'
  <2>1. ASSUME NEW r \in rows PROVE Behind(Counts(r), Frontier(events))
    <3>1. CASE writer = "project"
      <4> DEFINE e == events[Len(events)]
                 f == Frontier(events)
      <4>1. Behind(Plus(r, e), f)
        BY <3>1 DEF RowsBehind, Awaited
      <4>2. /\ r.good \in Nat /\ r.bad \in Nat /\ r.skipped \in Nat
            /\ f.good \in Nat /\ f.bad \in Nat /\ f.skipped \in Nat
        BY CountTypes
      <4> HIDE DEF e, f
      <4>3. Behind(Counts(r), f)
        BY <4>1, <4>2, BehindPlus
      <4> QED BY <4>3 DEF f
    <3>2. CASE writer # "project"
      BY <3>2 DEF RowsBehind, Awaited
    <3> QED BY <3>1, <3>2
  <2> QED BY <1>1, <1>2, <2>1 DEF RowsBehind, RowsExact, Awaited
<1>8. SuccessesEarned'
  BY <1>1, <1>2 DEF SuccessesEarned, Misled
<1>9. FailureIsKept'
  BY <1>1, <1>2 DEF FailureIsKept
<1> QED BY <1>4, <1>5, <1>6, <1>7, <1>8, <1>9

(* What is shown is corrected by the events: a success has a good answer.  *)
LEMMA ReaderKeeps ==
    ASSUME ProgressInd, ReadRun \/ Show
    PROVE  ProgressInd'
<1> USE DEF ProgressInd
<1>1. UNCHANGED <<operation, events, rows, shared, tie, blind, at, unsafe, writer, failing>>
  BY DEF ReadRun, Show, writerVars, stored
<1>2. Script' = Script /\ Event' = Event /\ Run' = Run
  BY <1>1, SameScript
<1>3. ProgressTypeOK' /\ SuccessesEarned'
  <2>1. CASE ReadRun
    <3>1. PICK r \in rows : polled' = {Seen(r)}
      BY <2>1 DEF ReadRun
    <3>2. /\ Seen(r) \in [status : Shown, good : 0 .. Providers, bad : 0 .. Providers,
                          skipped : 0 .. Providers]
          /\ Seen(r).status = r.status
      <4>1. r \in Run
        BY CountTypes
      <4>2. /\ r.status \in Shown /\ r.good \in 0 .. Providers
            /\ r.bad \in 0 .. Providers /\ r.skipped \in 0 .. Providers
        BY ONLY <4>1 DEF Run, Shown
      <4> QED BY ONLY <4>2 DEF Seen
    <3>3. Cardinality(polled') <= 1 /\ shown' = shown
      <4>1. Cardinality({Seen(r)}) = 1
        BY FS_Singleton
      <4>2. Cardinality(polled') = 1
        BY ONLY <3>1, <4>1
      <4> QED BY ONLY <2>1, <4>2 DEF ReadRun
    <3>4. ProgressTypeOK'
      BY <1>1, <1>2, <3>1, <3>2, <3>3 DEF ProgressTypeOK
    <3>5. SuccessesEarned'
      BY <1>1, <3>1, <3>2, <3>3 DEF SuccessesEarned, Misled
    <3> QED BY <3>4, <3>5
  <2>2. CASE Show
    <3>1. PICK p \in polled : shown' = Display(p, events)
      BY <2>2 DEF Show
    <3>2. polled' = {} /\ Cardinality(polled') <= 1
      BY <2>2, FS_EmptySet DEF Show
    <3> DEFINE k == Known(p, events)
    <3>3. /\ p.status \in Shown /\ p.good \in Nat /\ p.bad \in Nat /\ p.skipped \in Nat
          /\ p.status = "succeeded" => Ends(events) # {} /\ Answers(events) # {}
      BY Sizes DEF ProgressTypeOK, SuccessesEarned
    <3>4. /\ k.good \in Nat /\ k.bad \in Nat /\ k.skipped \in Nat
          /\ Answers(events) # {} => k = Frontier(events)
      <4>1. /\ Frontier(events).good \in Nat /\ Frontier(events).bad \in Nat
            /\ Frontier(events).skipped \in Nat
        <5>1. {Frontier(events).good, Frontier(events).bad, Frontier(events).skipped}
                 \subseteq Nat
          BY Sizes, FrontierAnswers
        <5> QED BY <5>1
      <4> QED BY <3>3, <4>1 DEF Known, Counts
    <3> HIDE DEF k
    <3>5. shown' = WithFrontier(p.status, k)
      BY <3>1 DEF Display, k
    <3>6. /\ shown' = "succeeded" => p.status = "succeeded" /\ (k.good > 0 \/ Total(k) = 0)
          /\ shown' \in Shown
      BY <3>3, <3>4, <3>5, CorrectedFacts
    <3>7. shown' = "succeeded" => Frontier(events).good > 0 /\ Ends(events) # {}
      <4>1. Answers(events) # {} => Total(Frontier(events)) > 0
        BY Sizes, FrontierAnswers
      <4> QED BY <3>3, <3>4, <3>6, <4>1
    <3>8. ProgressTypeOK'
      BY <1>1, <1>2, <3>2, <3>6 DEF ProgressTypeOK
    <3>9. SuccessesEarned'
      BY <1>1, <3>2, <3>7 DEF SuccessesEarned, Misled
    <3> QED BY <3>8, <3>9
  <2> QED BY <2>1, <2>2
<1>4. WriterOK' /\ RowsBehind' /\ RowsExact' /\ FailureIsKept'
  BY <1>1, <1>2 DEF WriterOK, RowsBehind, RowsExact, Awaited, FailureIsKept
<1>5. EventsCounted'
  <2>1. (Provided(IF writer = "project" THEN at ELSE at - 1))'
           = Provided(IF writer = "project" THEN at ELSE at - 1)
    BY <1>1 DEF Provided, First
  <2> QED BY <1>1, <2>1 DEF EventsCounted
<1> QED BY <1>3, <1>4, <1>5

(* Every run starts with no event and one snapshot that counts none.       *)
LEMMA StartsWell == ProgressInit => ProgressInd
<1> SUFFICES ASSUME ProgressInit PROVE ProgressInd
  OBVIOUS
<1> USE DEF ProgressInit
<1>1. /\ Providers \in Nat \ {0} /\ MaxShared \in Nat /\ operation \in Operations
      /\ Len(Script) = Providers + 8 /\ Len(Steps) = 8
  BY ProgressAssumption, ScriptFacts, StepsFacts DEF Operations
<1>2. NewRun \in Run /\ Counts(NewRun) = [good |-> 0, bad |-> 0, skipped |-> 0]
  BY <1>1, RunFields DEF NewRun, Counts
<1>3. ProgressTypeOK
  <2>1. Cardinality(polled) <= 1
    BY FS_EmptySet
  <2>2. at \in 1 .. Len(Script) + 1
    BY <1>1
  <2>3. events \in Seq(Event)
    BY EmptySeq
  <2>4. rows \subseteq Run /\ rows # {} /\ polled = {} /\ shown \in Shown
    BY <1>2 DEF Shown
  <2>5. shared \in 0 .. MaxShared
    BY <1>1
  <2>6. /\ operation \in {"multi_ai", "synthesis"} /\ tie \in BOOLEAN /\ blind \in BOOLEAN
        /\ unsafe \in BOOLEAN /\ failing \in BOOLEAN /\ writer = "record"
    OBVIOUS
  <2> QED BY ONLY <2>1, <2>2, <2>3, <2>4, <2>5, <2>6 DEF ProgressTypeOK
<1>4. /\ Frontier(events).good = 0 /\ Frontier(events).bad = 0 /\ Frontier(events).skipped = 0
      /\ Total(Frontier(events)) = 0
  BY FrontierEmpty DEF Total
<1>5. Provided(0) = 0
  BY <1>1 DEF Provided, First
<1>6. WriterOK /\ EventsCounted /\ SuccessesEarned /\ FailureIsKept
  BY <1>1, <1>4, <1>5 DEF WriterOK, EventsCounted, SuccessesEarned, FailureIsKept, NewRun
<1>7. RowsBehind /\ RowsExact
  BY <1>2, <1>4 DEF RowsBehind, RowsExact, Awaited, Behind, Total
<1> QED BY <1>3, <1>6, <1>7 DEF ProgressInd

(* Every step keeps the invariant.                                         *)
LEMMA ProgressKept == ProgressInd /\ [ProgressNext]_progressVars => ProgressInd'
<1> SUFFICES ASSUME ProgressInd, [ProgressNext]_progressVars PROVE ProgressInd'
  OBVIOUS
<1>1. CASE ProgressNext
  BY <1>1, RecordKeeps, ProjectKeeps, FinishKeeps, PublishKeeps, OthersKeep, ReaderKeeps
     DEF ProgressNext, Work
<1>2. CASE UNCHANGED progressVars
  <2>1. UNCHANGED <<operation, events, rows, shared, tie, blind, at, unsafe, writer, failing,
                    polled, shown>>
    BY <1>2 DEF progressVars, writerVars, stored, pollVars
  <2>2. Script' = Script /\ Event' = Event /\ Run' = Run
    BY <2>1, SameScript
  <2>3. (Provided(IF writer = "project" THEN at ELSE at - 1))'
           = Provided(IF writer = "project" THEN at ELSE at - 1)
    BY <2>1 DEF Provided, First
  <2> QED BY <2>1, <2>2, <2>3
          DEF ProgressInd, ProgressTypeOK, WriterOK, EventsCounted, RowsBehind, RowsExact,
              Awaited, SuccessesEarned, Misled, FailureIsKept
<1> QED BY <1>1, <1>2

(* However the writes and the reads interleave, and wherever the writer    *)
(* raises or dies: nobody is shown or keeps a success that no valid answer *)
(* has earned, and no failure is forgotten.                                *)
THEOREM EndsAreToldAsTheyWere == ProgressSpec => []ProgressInv
<1>1. ProgressInd => ProgressInv
  BY DEF ProgressInd, ProgressInv, NoFalseSuccess, SuccessesEarned
<1> QED BY StartsWell, ProgressKept, <1>1, PTL DEF ProgressSpec

-----------------------------------------------------------------------------
(* The snapshot the events give.                                           *)

\* Before the run is finished no event says so, and then the last one does.
EndsLast ==
    /\ ~failing /\ writer \in {"record", "project"} => Ends(events) = {}
    /\ ~failing /\ writer = "publish" =>
          \A i \in DOMAIN events : events[i].step = "finish" => i = Len(events)

\* If events stopped the run, one of them was the last.
StopsLast ==
    Stops(events) # {} => \E i \in Stops(events) : \A j \in Stops(events) : j <= i

\* No snapshot is further than the events, while none share a second.
RowsNotAhead == shared = 0 => \A r \in rows : r.completed <= Furthest(events)

\* How many of the last events the snapshot does not know.
Lags ==
    CASE writer \in {"record", "write", "over"} -> {0}
      [] writer = "project" -> {1}
      [] writer = "finish" -> {0, 1}
      [] writer = "publish" -> IF failing THEN {1, 2} ELSE {1}
      [] writer = "dead" -> IF failing THEN {0, 1, 2} ELSE {0, 1}

RowsRebuilt ==
    shared = 0 /\ ~ (blind /\ failing) =>
        \A r \in rows : \E n \in Lags :
            n <= Len(events) /\ IsRebuilt(r, SubSeq(events, 1, Len(events) - n))

RebuiltInd == EndsLast /\ StopsLast /\ RowsNotAhead /\ RowsRebuilt

(* The greatest of a set of naturals is its last.                          *)
LEMMA LastIs ==
    ASSUME NEW S, S \subseteq Nat, NEW n \in S, \A j \in S : j <= n
    PROVE  LastOf(S) = n
<1>1. \A x \in S : (\A j \in S : j <= x) => x = n
  OBVIOUS
<1> QED BY <1>1 DEF LastOf

(* How far the events came: none of them came further, and one came that   *)
(* far unless a finish said so.                                            *)
LEMMA FurthestFacts ==
    ASSUME operation \in Operations, NEW evs
    PROVE  /\ Furthest(evs) \in 0 .. 8
           /\ \A i \in DOMAIN evs : Reached(evs[i]) <= Furthest(evs)
           /\ IF \E i \in Ends(evs) : evs[i].status = "succeeded" THEN Furthest(evs) = 8
              ELSE Furthest(evs) \in {Reached(evs[i]) : i \in DOMAIN evs} \cup {0}
<1> DEFINE S == {Reached(evs[i]) : i \in DOMAIN evs} \cup {0}
           m == CHOOSE n \in S : \A k \in S : k <= n
<1>1. \A i \in DOMAIN evs : Reached(evs[i]) \in 0 .. 8
  BY ReachedType
<1>2. S \subseteq 0 .. 8 /\ 0 \in S /\ \A i \in DOMAIN evs : Reached(evs[i]) \in S
  BY <1>1
<1>3. Furthest(evs) = IF \E i \in Ends(evs) : evs[i].status = "succeeded" THEN 8 ELSE m
  <2>1. Furthest(evs) = IF \E i \in Ends(evs) : evs[i].status = "succeeded" THEN Len(Steps)
                        ELSE m
    BY DEF Furthest
  <2>2. Len(Steps) = 8
    BY StepsFacts
  <2> QED BY ONLY <2>1, <2>2
<1> HIDE DEF S
<1>4. \E n \in S : \A k \in S : k <= n
  <2>1. \/ 8 \in S \/ 7 \in S \/ 6 \in S \/ 5 \in S \/ 4 \in S
        \/ 3 \in S \/ 2 \in S \/ 1 \in S \/ 0 \in S
    BY <1>2
  <2> QED BY <1>2, <2>1
<1>5. m \in S /\ \A k \in S : k <= m
  BY <1>4
<1> HIDE DEF m
<1>6. m \in 0 .. 8
  BY <1>2, <1>5
<1> QED BY <1>1, <1>2, <1>3, <1>5, <1>6 DEF S

(* One event more: the events come as far as before and as far as it.      *)
LEMMA FurthestAppend ==
    ASSUME operation \in Operations, NEW T, NEW evs \in Seq(T), NEW e \in T
    PROVE  /\ Furthest(evs) <= Furthest(Append(evs, e))
           /\ Reached(e) <= Furthest(Append(evs, e))
           /\ Furthest(evs) \in 0 .. 8 /\ Furthest(Append(evs, e)) \in 0 .. 8
           /\ Ends(Append(evs, e)) = {} =>
                 Furthest(Append(evs, e)) = Larger(Furthest(evs), Reached(e))
<1> DEFINE more == Append(evs, e)
<1>1. /\ DOMAIN evs = 1 .. Len(evs) /\ DOMAIN more = 1 .. Len(evs) + 1
      /\ \A i \in 1 .. Len(evs) : more[i] = evs[i]
      /\ more[Len(evs) + 1] = e /\ Len(evs) \in Nat
  BY Appended
<1> HIDE DEF more
<1>2. Furthest(evs) \in 0 .. 8 /\ Furthest(more) \in 0 .. 8
  BY FurthestFacts
<1>3. \A i \in DOMAIN more : Reached(more[i]) <= Furthest(more)
  BY FurthestFacts
<1>4. Reached(e) <= Furthest(more)
  BY <1>1, <1>3
<1>5. Furthest(evs) <= Furthest(more)
  <2>1. CASE \E i \in Ends(more) : more[i].status = "succeeded"
    <3>1. Furthest(more) = 8
      BY <2>1, FurthestFacts
    <3> QED BY <1>2, <3>1
  <2>2. CASE ~ \E i \in Ends(more) : more[i].status = "succeeded"
    <3>1. ~ \E i \in Ends(evs) : evs[i].status = "succeeded"
      BY <1>1, <2>2 DEF Ends
    <3>2. Furthest(evs) \in {Reached(evs[i]) : i \in DOMAIN evs} \cup {0}
      BY <3>1, FurthestFacts
    <3>3. CASE Furthest(evs) = 0
      BY <1>2, <3>3
    <3>4. CASE Furthest(evs) # 0
      <4>1. PICK i \in DOMAIN evs : Furthest(evs) = Reached(evs[i])
        BY <3>2, <3>4
      <4>2. i \in DOMAIN more /\ more[i] = evs[i]
        BY <1>1
      <4> QED BY <1>3, <4>1, <4>2
    <3> QED BY <3>3, <3>4
  <2> QED BY <2>1, <2>2
<1>6. ASSUME Ends(more) = {} PROVE Furthest(more) \in {Furthest(evs), Reached(e)}
  <2>1. ~ \E i \in Ends(evs) : evs[i].status = "succeeded"
    BY <1>1, <1>6 DEF Ends
  <2>2. /\ \A i \in DOMAIN evs : Reached(evs[i]) <= Furthest(evs)
        /\ Furthest(more) \in {Reached(more[i]) : i \in DOMAIN more} \cup {0}
    BY <1>6, FurthestFacts
  <2>3. CASE Furthest(more) = 0
    BY <1>2, <1>5, <2>3
  <2>4. CASE Furthest(more) # 0
    <3>1. PICK i \in DOMAIN more : Furthest(more) = Reached(more[i])
      BY <2>2, <2>4
    <3>2. CASE i = Len(evs) + 1
      BY <1>1, <3>1, <3>2
    <3>3. CASE i # Len(evs) + 1
      <4>1. i \in DOMAIN evs /\ more[i] = evs[i]
        BY <1>1, <3>3
      <4>2. Furthest(more) <= Furthest(evs)
        BY <2>2, <3>1, <4>1
      <4> QED BY <1>2, <1>5, <4>2
    <3> QED BY <3>2, <3>3
  <2> QED BY <2>3, <2>4
<1>7. Ends(more) = {} => Furthest(more) = Larger(Furthest(evs), Reached(e))
  <2>1. Reached(e) \in 0 .. 8
    BY ReachedType
  <2> QED BY <1>2, <1>4, <1>5, <1>6, <2>1 DEF Larger
<1> QED BY <1>2, <1>4, <1>5, <1>7 DEF more

(* Before any finish: the last event that stopped the run gives its        *)
(* status, and a step's event that does not stop it leaves it.             *)
LEMMA StatusAppend ==
    ASSUME NEW T, NEW evs \in Seq(T), NEW e \in T,
           Ends(Append(evs, e)) = {},
           Stops(Append(evs, e)) # {} =>
              \E i \in Stops(Append(evs, e)) : \A j \in Stops(Append(evs, e)) : j <= i
    PROVE  /\ Ends(evs) = {}
           /\ StatusOf(Append(evs, e))
                 = IF e.status \in Stopping THEN e.status ELSE StatusOf(evs)
<1> DEFINE more == Append(evs, e)
<1>1. /\ DOMAIN evs = 1 .. Len(evs) /\ DOMAIN more = 1 .. Len(evs) + 1
      /\ \A i \in 1 .. Len(evs) : more[i] = evs[i]
      /\ more[Len(evs) + 1] = e /\ Len(evs) \in Nat
  BY Appended
<1>2. /\ Ends(more) = {}
      /\ Stops(more) # {} => \E i \in Stops(more) : \A j \in Stops(more) : j <= i
  OBVIOUS
<1> HIDE DEF more
<1>3. Ends(evs) = {}
  BY <1>1, <1>2 DEF Ends
<1>4. /\ \A i \in 1 .. Len(evs) : i \in Stops(more) <=> i \in Stops(evs)
      /\ Len(evs) + 1 \in Stops(more) <=> e.status \in Stopping
      /\ Stops(more) \subseteq 1 .. Len(evs) + 1 /\ Stops(evs) \subseteq 1 .. Len(evs)
  BY <1>1 DEF Stops
<1>5. StatusOf(more) = IF e.status \in Stopping THEN e.status ELSE StatusOf(evs)
  <2>1. CASE e.status \in Stopping
    <3>1. Stops(more) \subseteq Nat /\ Len(evs) + 1 \in Stops(more)
          /\ \A j \in Stops(more) : j <= Len(evs) + 1
      BY <1>1, <1>4, <2>1
    <3>2. LastOf(Stops(more)) = Len(evs) + 1
      BY <3>1, LastIs
    <3> QED BY <1>1, <1>2, <2>1, <3>1, <3>2 DEF StatusOf
  <2>2. CASE e.status \notin Stopping
    <3>1. Stops(more) = Stops(evs)
      <4>1. \A i \in Stops(more) : i \in 1 .. Len(evs)
        BY <1>1, <1>4, <2>2
      <4> QED BY <1>4, <4>1
    <3>2. CASE Stops(evs) = {}
      BY <1>2, <1>3, <2>2, <3>1, <3>2 DEF StatusOf
    <3>3. CASE Stops(evs) # {}
      <4>1. PICK i \in Stops(evs) : \A j \in Stops(evs) : j <= i
        BY <1>2, <3>1, <3>3
      <4>2. LastOf(Stops(evs)) = i /\ i \in 1 .. Len(evs)
        <5>1. Stops(evs) \subseteq Nat
          BY <1>1, <1>4
        <5> QED BY <1>4, <4>1, <5>1, LastIs
      <4>3. more[i] = evs[i]
        BY <1>1, <4>2
      <4> QED BY <1>2, <1>3, <2>2, <3>1, <3>3, <4>2, <4>3 DEF StatusOf
    <3> QED BY <3>2, <3>3
  <2> QED BY <2>1, <2>2
<1> QED BY <1>3, <1>5 DEF more

(* A finish that is the last event gives the status.                       *)
LEMMA StatusFinished ==
    ASSUME NEW T, NEW evs \in Seq(T), Len(evs) > 0, evs[Len(evs)].step = "finish"
    PROVE  StatusOf(evs) = WithFrontier(evs[Len(evs)].status, Frontier(evs))
<1>1. DOMAIN evs = 1 .. Len(evs) /\ Len(evs) \in Nat
  OBVIOUS
<1>2. /\ Len(evs) \in Ends(evs) /\ Ends(evs) \subseteq Nat
      /\ \A j \in Ends(evs) : j <= Len(evs)
  BY <1>1 DEF Ends
<1>3. LastOf(Ends(evs)) = Len(evs)
  BY <1>2, LastIs
<1> QED BY <1>2, <1>3 DEF StatusOf

(* The beginning of a sequence with one event more.                        *)
LEMMA Beginnings ==
    ASSUME NEW T, NEW evs \in Seq(T), NEW e \in T, NEW n \in 0 .. Len(evs)
    PROVE  /\ n + 1 <= Len(Append(evs, e))
           /\ SubSeq(Append(evs, e), 1, Len(Append(evs, e)) - (n + 1))
                 = SubSeq(evs, 1, Len(evs) - n)
           /\ SubSeq(evs, 1, Len(evs) - 0) = evs
<1> DEFINE more == Append(evs, e)
           k == Len(evs) - n
           a == SubSeq(more, 1, k)
           b == SubSeq(evs, 1, k)
<1>1. /\ more \in Seq(T) /\ Len(more) = Len(evs) + 1
      /\ \A i \in 1 .. Len(evs) : more[i] = evs[i] /\ evs[i] \in T
      /\ Len(evs) \in Nat
  BY Appended, ElementOfSeq
<1>2. k \in 0 .. Len(evs) /\ Len(more) - (n + 1) = k /\ n + 1 <= Len(more)
  BY <1>1
<1> HIDE DEF more, k
<1>3. \A i \in 1 .. k : more[i] \in T /\ evs[i] \in T /\ more[i] = evs[i]
  BY <1>1, <1>2
<1>4. /\ a \in Seq(T) /\ Len(a) = k /\ \A i \in 1 .. k : a[i] = more[i]
  <2>1. /\ a \in Seq(T) /\ Len(a) = IF 1 <= k THEN k - 1 + 1 ELSE 0
        /\ \A i \in 1 .. k - 1 + 1 : a[i] = more[1 + i - 1]
    BY <1>1, <1>2, <1>3, SubSeqProperties
  <2> HIDE DEF a
  <2> QED BY <1>1, <1>2, <2>1
<1>5. /\ b \in Seq(T) /\ Len(b) = k /\ \A i \in 1 .. k : b[i] = evs[i]
  <2>1. /\ b \in Seq(T) /\ Len(b) = IF 1 <= k THEN k - 1 + 1 ELSE 0
        /\ \A i \in 1 .. k - 1 + 1 : b[i] = evs[1 + i - 1]
    BY <1>1, <1>2, <1>3, SubSeqProperties
  <2> HIDE DEF b
  <2> QED BY <1>1, <1>2, <2>1
<1> HIDE DEF a, b
<1>6. a = b
  BY <1>1, <1>3, <1>4, <1>5, SeqEqual
<1>7. SubSeq(evs, 1, Len(evs) - 0) = evs
  <2>1. Len(evs) - 0 = Len(evs)
    BY <1>1
  <2> QED BY <2>1, SubSeqFull
<1> QED BY <1>2, <1>6, <1>7 DEF a, b, k, more

\* How far events came, along the steps of an operation.
ReachedIn(steps, e) ==
    IF e.status \in Done /\ \E i \in DOMAIN steps : steps[i] = e.step
    THEN CHOOSE i \in DOMAIN steps : steps[i] = e.step
    ELSE 0

FurthestIn(steps, evs) ==
    IF \E i \in Ends(evs) : evs[i].status = "succeeded" THEN Len(steps)
    ELSE LET reached == {ReachedIn(steps, evs[i]) : i \in DOMAIN evs} \cup {0}
         IN CHOOSE n \in reached : \A m \in reached : m <= n

(* What the events give is measured by the same steps after a step.        *)
LEMMA SameMeasure ==
    ASSUME operation' = operation
    PROVE  /\ Furthest(events)' = Furthest(events')
           /\ \A r, n : IsRebuilt(r, SubSeq(events, 1, Len(events) - n))'
                 <=> IsRebuilt(r, SubSeq(events', 1, Len(events') - n))
<1>1. Steps' = Steps
  BY SameScript
<1>2. Furthest(events)' = Furthest(events')
  <2>1. Furthest(events)' = FurthestIn(Steps', events')
    BY DEF Furthest, FurthestIn, Reached, ReachedIn
  <2>2. Furthest(events') = FurthestIn(Steps, events')
    BY DEF Furthest, FurthestIn, Reached, ReachedIn
  <2> QED BY <1>1, <2>1, <2>2
<1>3. ASSUME NEW r, NEW n
      PROVE  IsRebuilt(r, SubSeq(events, 1, Len(events) - n))'
                <=> IsRebuilt(r, SubSeq(events', 1, Len(events') - n))
  <2>1. Furthest(SubSeq(events, 1, Len(events) - n))'
           = FurthestIn(Steps', SubSeq(events', 1, Len(events') - n))
    BY DEF Furthest, FurthestIn, Reached, ReachedIn
  <2>2. Furthest(SubSeq(events', 1, Len(events') - n))
           = FurthestIn(Steps, SubSeq(events', 1, Len(events') - n))
    BY DEF Furthest, FurthestIn, Reached, ReachedIn
  <2>3. Furthest(SubSeq(events, 1, Len(events) - n))'
           = Furthest(SubSeq(events', 1, Len(events') - n))
    BY <1>1, <2>1, <2>2
  <2>4. IsRebuilt(r, SubSeq(events, 1, Len(events) - n))' <=>
           LET s == SubSeq(events', 1, Len(events') - n)
               m == Furthest(SubSeq(events, 1, Len(events) - n))'
           IN  /\ r.status = StatusOf(s) /\ Counts(r) = Frontier(s)
               /\ r.completed <= m
               /\ Ends(s) = {} \/ StatusOf(s) = "succeeded" => r.completed = m
    BY DEF IsRebuilt
  <2>5. IsRebuilt(r, SubSeq(events', 1, Len(events') - n)) <=>
           LET s == SubSeq(events', 1, Len(events') - n)
               m == Furthest(SubSeq(events', 1, Len(events') - n))
           IN  /\ r.status = StatusOf(s) /\ Counts(r) = Frontier(s)
               /\ r.completed <= m
               /\ Ends(s) = {} \/ StatusOf(s) = "succeeded" => r.completed = m
    BY DEF IsRebuilt
  <2> QED BY ONLY <2>3, <2>4, <2>5
<1> QED BY <1>2, <1>3

(* An event that the snapshot does not know yet is one more to be pending. *)
LEMMA MoreEvents ==
    ASSUME ProgressInd, RebuiltInd, NEW e, e \in Event, events' = Append(events, e),
           UNCHANGED <<rows, shared, blind, failing, operation>>,
           \A n \in Lags : n \in Nat /\ n + 1 \in Lags'
    PROVE  StopsLast' /\ RowsNotAhead' /\ RowsRebuilt'
<1>1. /\ operation \in Operations /\ events \in Seq(Event) /\ Len(events) \in Nat
  BY Sizes DEF ProgressInd
<1>2. /\ DOMAIN events = 1 .. Len(events) /\ DOMAIN events' = 1 .. Len(events) + 1
      /\ \A i \in 1 .. Len(events) : events'[i] = events[i]
      /\ events'[Len(events) + 1] = e /\ Len(events') = Len(events) + 1
  BY <1>1, Appended
<1>3. StopsLast'
  <2>1. /\ \A i \in 1 .. Len(events) : i \in Stops(events') <=> i \in Stops(events)
        /\ Len(events) + 1 \in Stops(events') <=> e.status \in Stopping
        /\ Stops(events') \subseteq 1 .. Len(events) + 1
        /\ Stops(events) \subseteq 1 .. Len(events)
    BY <1>1, <1>2 DEF Stops
  <2>2. CASE e.status \in Stopping
    <3>1. Len(events) + 1 \in Stops(events') /\ \A j \in Stops(events') : j <= Len(events) + 1
      BY <1>1, <2>1, <2>2
    <3> QED BY <3>1 DEF StopsLast
  <2>3. CASE e.status \notin Stopping
    <3>1. \A i \in Stops(events') : i \in 1 .. Len(events)
      BY <1>1, <2>1, <2>3
    <3>2. Stops(events') = Stops(events)
      BY <2>1, <3>1
    <3> QED BY <3>2 DEF StopsLast, RebuiltInd
  <2> QED BY <2>2, <2>3
<1>4. RowsNotAhead'
  <2>1. /\ Furthest(events) <= Furthest(events') /\ Furthest(events) \in 0 .. 8
        /\ Furthest(events') \in 0 .. 8
    BY <1>1, FurthestAppend
  <2>2. \A r \in rows : r.completed \in 0 .. 8
    BY <1>1, CountTypes, RunFields DEF ProgressInd
  <2>3. Furthest(events)' = Furthest(events')
    BY SameMeasure
  <2> QED BY <2>1, <2>2, <2>3 DEF RowsNotAhead, RebuiltInd
<1>5. RowsRebuilt'
  <2> SUFFICES ASSUME shared = 0, ~ (blind /\ failing), NEW r \in rows
               PROVE  \E n \in Lags' : n <= Len(events') /\
                         IsRebuilt(r, SubSeq(events', 1, Len(events') - n))
    BY SameMeasure DEF RowsRebuilt
  <2>1. PICK n \in Lags :
           n <= Len(events) /\ IsRebuilt(r, SubSeq(events, 1, Len(events) - n))
    BY DEF RebuiltInd, RowsRebuilt
  <2>2. n \in 0 .. Len(events) /\ n + 1 \in Lags'
    BY <1>1, <2>1
  <2>3. /\ n + 1 <= Len(events')
        /\ SubSeq(events', 1, Len(events') - (n + 1)) = SubSeq(events, 1, Len(events) - n)
    BY <1>1, <2>2, Beginnings
  <2>4. IsRebuilt(r, SubSeq(events', 1, Len(events') - (n + 1)))
    BY <2>1, <2>3
  <2> QED BY <2>2, <2>3, <2>4
<1> QED BY <1>3, <1>4, <1>5

(* Recording leaves one event pending.                                     *)
LEMMA RecordRebuilds ==
    ASSUME ProgressInd, RebuiltInd, Record
    PROVE  RebuiltInd'
<1>1. PICK e \in Says(Script[at], unsafe') : events' = Append(events, e)
  BY DEF Record
<1>2. /\ writer = "record" /\ writer' = "project" /\ at <= Len(Script) /\ ~ failing
      /\ UNCHANGED <<rows, shared, blind, at, failing, operation>>
  BY DEF Record, WriterOK, stored, ProgressInd
<1>3. e \in Event /\ e.step = Script[at]
  BY <1>1, <1>2, SaysType DEF ProgressInd
<1>4. StopsLast' /\ RowsNotAhead' /\ RowsRebuilt'
  <2>1. Lags = {0} /\ Lags' = {1}
    BY <1>2 DEF Lags
  <2>2. \A n \in Lags : n \in Nat /\ n + 1 \in Lags'
    BY <2>1
  <2> QED BY <1>1, <1>2, <1>3, <2>2, MoreEvents
<1>5. EndsLast'
  <2>1. e.step # "finish"
    <3>1. Script \in Seq(Names) /\ at \in 1 .. Len(Script)
      BY <1>2, Sizes, ScriptFacts DEF ProgressInd
    <3>2. Script[at] \in Names
      BY <3>1, ElementOfSeq
    <3> QED BY <1>3, <3>2 DEF Names
  <2>2. events \in Seq(Event) /\ Ends(events) = {}
    BY <1>2, Sizes DEF ProgressInd, RebuiltInd, EndsLast
  <2>3. /\ DOMAIN events = 1 .. Len(events) /\ DOMAIN events' = 1 .. Len(events) + 1
        /\ \A i \in 1 .. Len(events) : events'[i] = events[i]
        /\ events'[Len(events) + 1] = e /\ Len(events) \in Nat
    BY <1>1, <1>3, <2>2, Appended
  <2>4. Ends(events') = {}
    BY <2>1, <2>2, <2>3 DEF Ends
  <2> QED BY <1>2, <2>4 DEF EndsLast
<1> QED BY <1>4, <1>5 DEF RebuiltInd

(* So does the finish of a run, and one more if it raised.                 *)
LEMMA FinishRebuilds ==
    ASSUME ProgressInd, RebuiltInd, Finish
    PROVE  RebuiltInd'
<1> DEFINE e == [step |-> "finish", status |-> Claimed, valid |-> FALSE]
<1>1. /\ writer' = "publish" /\ events' = Append(events, e)
      /\ \/ writer = "record" /\ ~ failing
         \/ writer = "finish" /\ failing
      /\ UNCHANGED <<rows, shared, blind, failing, operation>>
  BY DEF Finish, WriterOK, ProgressInd, stored
<1>2. e \in Event /\ e.step = "finish"
  BY DEF Claimed, Event, Done, Stopping
<1> HIDE DEF e
<1>3. StopsLast' /\ RowsNotAhead' /\ RowsRebuilt'
  <2>1. \/ Lags = {0} /\ Lags' = {1}
        \/ Lags = {0, 1} /\ Lags' = {1, 2}
    BY <1>1 DEF Lags
  <2>2. \A n \in Lags : n \in Nat /\ n + 1 \in Lags'
    BY <2>1
  <2> QED BY <1>1, <1>2, <2>2, MoreEvents
<1>4. EndsLast'
  <2>1. events \in Seq(Event) /\ (~ failing => Ends(events) = {})
    BY <1>1, Sizes DEF ProgressInd, RebuiltInd, EndsLast
  <2>2. /\ DOMAIN events = 1 .. Len(events) /\ DOMAIN events' = 1 .. Len(events) + 1
        /\ \A i \in 1 .. Len(events) : events'[i] = events[i]
        /\ Len(events') = Len(events) + 1 /\ Len(events) \in Nat
    BY <1>1, <1>2, <2>1, Appended
  <2>3. ASSUME ~ failing, NEW i \in DOMAIN events', events'[i].step = "finish"
        PROVE  i = Len(events')
    BY <2>1, <2>2, <2>3 DEF Ends
  <2> QED BY <1>1, <2>3 DEF EndsLast
<1> QED BY <1>3, <1>4 DEF RebuiltInd

(* Projecting the last event gives the snapshot of all of them.            *)
LEMMA ProjectRebuilds ==
    ASSUME ProgressInd, RebuiltInd, Project
    PROVE  RebuiltInd'
<1> DEFINE e == events[Len(events)]
<1>1. PICK r \in rows : UpsertRun(Updated(r, e))
  BY DEF Project
<1> DEFINE u == Updated(r, e)
<1>2. /\ writer = "project" /\ writer' = "record" /\ ~ failing
      /\ UNCHANGED <<events, blind, failing, operation>>
  BY DEF Project, WriterOK, ProgressInd
<1>3. /\ operation \in Operations /\ events \in Seq(Event) /\ events # <<>>
      /\ Len(events) \in Nat
  BY <1>2, Sizes DEF ProgressInd, WriterOK
<1>4. PICK prev \in Seq(Event), d \in Event : events = Append(prev, d)
  BY <1>3, SequenceEmptyOrAppend
<1>5. d = e /\ SubSeq(events, 1, Len(events) - 1) = prev
  <2>1. /\ SubSeq(Append(prev, d), 1, Len(Append(prev, d)) - (0 + 1))
              = SubSeq(prev, 1, Len(prev) - 0)
        /\ SubSeq(prev, 1, Len(prev) - 0) = prev
    <3>1. 0 \in 0 .. Len(prev)
      OBVIOUS
    <3> QED BY <3>1, Beginnings
  <2>2. Append(prev, d)[Len(prev) + 1] = d /\ Len(events) = Len(prev) + 1
    BY <1>4, Appended
  <2>3. Len(events) - (0 + 1) = Len(events) - 1
    BY <1>3
  <2> QED BY <1>4, <2>1, <2>2, <2>3
<1>6. /\ u.status = (IF e.status \in Stopping THEN e.status ELSE r.status)
      /\ u.completed = Larger(r.completed, Reached(e))
      /\ Counts(u) = Plus(r, e)
  BY UpdatedFacts
<1>7. /\ Furthest(events)' = Furthest(events)
      /\ \A q, n : IsRebuilt(q, SubSeq(events, 1, Len(events) - n))'
            <=> IsRebuilt(q, SubSeq(events, 1, Len(events) - n))
  BY <1>2, SameMeasure
<1> HIDE DEF u, e
<1>8. shared' = 0 => shared = 0 /\ rows' = {u}
  <2>1. ProgressInd'
    BY ProjectKeeps
  <2> QED BY <1>1, ProgressAssumption DEF UpsertRun, u, ProgressInd, ProgressTypeOK
<1>9. /\ Furthest(prev) <= Furthest(events) /\ Reached(e) <= Furthest(events)
      /\ Furthest(prev) \in 0 .. 8 /\ Furthest(events) \in 0 .. 8
      /\ Ends(events) = {} => Furthest(events) = Larger(Furthest(prev), Reached(e))
  BY <1>3, <1>4, <1>5, FurthestAppend
<1>10. r.completed \in 0 .. 8 /\ Reached(e) \in 0 .. 8
  BY <1>3, CountTypes, RunFields, ReachedType DEF ProgressInd
<1>11. ASSUME shared' = 0 PROVE u.completed <= Furthest(events)
  BY <1>6, <1>8, <1>9, <1>10, <1>11 DEF RebuiltInd, RowsNotAhead, Larger
<1>12. ASSUME shared' = 0 PROVE IsRebuilt(u, events)
  <2>1. IsRebuilt(r, prev)
    <3>1. Lags = {1}
      BY <1>2 DEF Lags
    <3>2. \E n \in {1} : IsRebuilt(r, SubSeq(events, 1, Len(events) - n))
      BY <1>2, <1>8, <1>12, <3>1 DEF RebuiltInd, RowsRebuilt
    <3> QED BY <1>5, <3>2
  <2>2. Ends(events) = {}
    BY <1>2 DEF RebuiltInd, EndsLast
  <2>3. StatusOf(events) = IF e.status \in Stopping THEN e.status ELSE StatusOf(prev)
    BY <1>4, <1>5, <2>2, StatusAppend DEF RebuiltInd, StopsLast
  <2>4. Frontier(events) = Plus(Frontier(prev), e)
    BY <1>4, <1>5, FrontierAppend
  <2>5. Plus(r, e) = Plus(Frontier(prev), e)
    <3>1. Counts(r) = Frontier(prev)
      BY <2>1 DEF IsRebuilt
    <3>2. /\ r.good = Frontier(prev).good /\ r.bad = Frontier(prev).bad
          /\ r.skipped = Frontier(prev).skipped
      <4>1. /\ Counts(r).good = r.good /\ Counts(r).bad = r.bad
            /\ Counts(r).skipped = r.skipped
        BY DEF Counts
      <4> QED BY <3>1, <4>1
    <3> QED BY <3>2 DEF Plus
  <2>6. u.status = StatusOf(events) /\ Counts(u) = Frontier(events)
    BY <1>6, <2>1, <2>3, <2>4, <2>5 DEF IsRebuilt
  <2>7. u.completed = Furthest(events)
    <3>1. Ends(prev) = {}
      BY <1>4, <2>2, StatusAppend DEF RebuiltInd, StopsLast
    <3>2. r.completed = Furthest(prev)
      BY <2>1, <3>1 DEF IsRebuilt
    <3> QED BY <1>6, <1>9, <2>2, <3>2
  <2> QED BY <1>9, <2>6, <2>7 DEF IsRebuilt
<1>13. RowsNotAhead'
  BY <1>7, <1>8, <1>11 DEF RowsNotAhead
<1>14. RowsRebuilt'
  <2> SUFFICES ASSUME shared' = 0
               PROVE  \A q \in rows' : \E n \in Lags' :
                         n <= Len(events) /\ IsRebuilt(q, SubSeq(events, 1, Len(events) - n))
    BY <1>2, <1>7 DEF RowsRebuilt
  <2>1. Lags' = {0}
    BY <1>2 DEF Lags
  <2>2. SubSeq(events, 1, Len(events) - 0) = events
    <3>1. Len(events) - 0 = Len(events)
      BY <1>3
    <3> QED BY <1>3, <3>1, SubSeqFull
  <2>3. 0 <= Len(events)
    BY <1>3
  <2> QED BY <1>8, <1>12, <2>1, <2>2, <2>3
<1>15. EndsLast' /\ StopsLast'
  BY <1>2 DEF EndsLast, StopsLast, RebuiltInd
<1> QED BY <1>13, <1>14, <1>15 DEF RebuiltInd

(* Publishing gives the snapshot of all the events, its own counts being   *)
(* those of the events wherever they could not be read.                    *)
LEMMA PublishRebuilds ==
    ASSUME ProgressInd, RebuiltInd, Publish
    PROVE  RebuiltInd'
<1> DEFINE said == events[Len(events)].status
           evs == IF blind' THEN <<>> ELSE events
<1>1. PICK r \in rows : UpsertRun(Finished(Told(r), said, evs))
  BY DEF Publish
<1> DEFINE f == Finished(Told(r), said, evs)
<1>2. /\ writer = "publish" /\ writer' \in {"write", "over"} /\ blind' \in BOOLEAN
      /\ UNCHANGED <<events, failing, operation>>
  BY DEF Publish
<1>3. /\ operation \in Operations /\ events \in Seq(Event) /\ Len(events) > 0
      /\ Len(events) \in Nat /\ events[Len(events)].step = "finish" /\ Len(Steps) = 8
      /\ DOMAIN events = 1 .. Len(events)
  BY <1>2, Sizes DEF ProgressInd, WriterOK
<1>4. /\ r \in Run /\ r.completed \in 0 .. 8
      /\ r.good \in Nat /\ r.bad \in Nat /\ r.skipped \in Nat
      /\ Counts(r) = [good |-> r.good, bad |-> r.bad, skipped |-> r.skipped]
      /\ Frontier(events).good \in Nat /\ Frontier(events).bad \in Nat
      /\ Frontier(events).skipped \in Nat
  BY <1>3, CountTypes, RunFields DEF ProgressInd
<1>5. /\ f.status = WithFrontier(said, Counts(f))
      /\ f.completed = (IF said = "succeeded" THEN Len(Steps) ELSE r.completed)
      /\ \/ Counts(f) = Frontier(events)
         \/ Counts(f) = Counts(r) /\ (evs = <<>> \/ Answers(events) = {})
  <2>1. evs \in {<<>>, events}
    OBVIOUS
  <2> HIDE DEF evs, said
  <2> QED BY <1>4, <2>1, FinishedFacts
<1>6. evs = <<>> /\ Answers(events) # {} => blind'
  BY FrontierEmpty
<1>7. /\ Furthest(events)' = Furthest(events)
      /\ \A q, n : IsRebuilt(q, SubSeq(events, 1, Len(events) - n))'
            <=> IsRebuilt(q, SubSeq(events, 1, Len(events) - n))
  BY <1>2, SameMeasure
<1>8. shared' = 0 => shared = 0 /\ rows' = {f}
  BY <1>1, ProgressAssumption DEF UpsertRun, ProgressInd, ProgressTypeOK
<1> HIDE DEF f, evs
<1>9. ASSUME shared' = 0 PROVE f.completed <= Furthest(events)
  <2>1. Furthest(events) \in 0 .. 8 /\ (said = "succeeded" => Furthest(events) = 8)
    BY <1>3, FurthestFacts DEF Ends
  <2>2. r.completed <= Furthest(events)
    BY <1>8, <1>9 DEF RebuiltInd, RowsNotAhead
  <2> QED BY <1>3, <1>5, <2>1, <2>2
<1>10. ASSUME shared' = 0, ~ (blind' /\ failing) PROVE Counts(f) = Frontier(events)
  <2> SUFFICES ASSUME Counts(f) = Counts(r), evs = <<>> \/ Answers(events) = {}
               PROVE  Counts(r) = Frontier(events)
    BY <1>5
  <2>1. /\ r.good <= Frontier(events).good /\ r.bad <= Frontier(events).bad
        /\ r.skipped <= Frontier(events).skipped
    <3>1. Behind(Counts(r), Frontier(events))
      BY <1>2 DEF ProgressInd, RowsBehind, Awaited
    <3> QED BY <1>4, <3>1 DEF Behind
  <2>2. \/ Total(Counts(r)) = Total(Frontier(events))
        \/ Total(Frontier(events)) = 0
    <3>1. CASE Answers(events) = {}
      <4>1. Frontier(events).good + Frontier(events).bad + Frontier(events).skipped = 0
        BY <1>3, <1>4, <3>1, FrontierAnswers DEF Total
      <4> QED BY <4>1 DEF Total
    <3>2. CASE Answers(events) # {}
      <4>1. ~ failing /\ shared = 0
        BY <1>6, <1>8, <1>10, <3>2
      <4> QED BY <1>2, <4>1 DEF ProgressInd, RowsExact, Awaited
    <3> QED BY <3>1, <3>2
  <2>3. /\ r.good = Frontier(events).good /\ r.bad = Frontier(events).bad
        /\ r.skipped = Frontier(events).skipped
    <3>1. /\ Total(Counts(r)) = r.good + r.bad + r.skipped
          /\ Total(Frontier(events))
                = Frontier(events).good + Frontier(events).bad + Frontier(events).skipped
      BY ONLY <1>4 DEF Total
    <3> QED BY ONLY <1>4, <2>1, <2>2, <3>1
  <2> QED BY <1>4, <2>3, FrontierFields
<1>11. ASSUME shared' = 0, ~ (blind' /\ failing) PROVE IsRebuilt(f, events)
  <2>1. Counts(f) = Frontier(events)
    BY <1>10, <1>11
  <2>2. StatusOf(events) = WithFrontier(said, Frontier(events))
    BY <1>3, StatusFinished
  <2>3. f.status = StatusOf(events)
    BY <1>5, <2>1, <2>2
  <2>4. Ends(events) # {}
    BY <1>3 DEF Ends
  <2>5. StatusOf(events) = "succeeded" => said = "succeeded"
    BY <1>4, <2>2, CorrectedFacts
  <2>6. said = "succeeded" => f.completed = Furthest(events)
    BY <1>3, <1>5, FurthestFacts DEF Ends
  <2> QED BY <1>9, <1>11, <2>1, <2>3, <2>4, <2>5, <2>6 DEF IsRebuilt
<1>12. RowsNotAhead'
  BY <1>7, <1>8, <1>9 DEF RowsNotAhead
<1>13. RowsRebuilt'
  <2> SUFFICES ASSUME shared' = 0, ~ (blind' /\ failing)
               PROVE  \A q \in rows' : \E n \in Lags' :
                         n <= Len(events) /\ IsRebuilt(q, SubSeq(events, 1, Len(events) - n))
    BY <1>2, <1>7 DEF RowsRebuilt
  <2>1. Lags' = {0}
    BY <1>2 DEF Lags
  <2>2. SubSeq(events, 1, Len(events) - 0) = events
    <3>1. Len(events) - 0 = Len(events)
      BY <1>3
    <3> QED BY <1>3, <3>1, SubSeqFull
  <2>3. 0 <= Len(events)
    BY <1>3
  <2> QED BY <1>8, <1>11, <2>1, <2>2, <2>3
<1>14. EndsLast' /\ StopsLast'
  BY <1>2 DEF EndsLast, StopsLast, RebuiltInd
<1> QED BY <1>12, <1>13, <1>14 DEF RebuiltInd

(* What stores nothing leaves pending what was.                            *)
LEMMA OthersRebuild ==
    ASSUME ProgressInd, RebuiltInd, UNCHANGED <<events, rows, shared, blind, operation>>,
           \/ UNCHANGED <<writer, failing>>
           \/ Write \/ Raise \/ Die
    PROVE  RebuiltInd'
<1>1. Lags \subseteq Lags' /\ (blind /\ failing => blind' /\ failing')
  <2>1. CASE UNCHANGED <<writer, failing>>
    <3>1. Lags' = Lags
      BY <2>1 DEF Lags
    <3> QED BY <2>1, <3>1
  <2>2. CASE Write \/ Raise \/ Die
    BY <2>2 DEF Write, Raise, Die, Lags, ProgressInd, WriterOK, ProgressTypeOK
  <2> QED BY <2>1, <2>2
<1>2. /\ Furthest(events)' = Furthest(events)
      /\ \A q, n : IsRebuilt(q, SubSeq(events, 1, Len(events) - n))'
            <=> IsRebuilt(q, SubSeq(events, 1, Len(events) - n))
  BY SameMeasure
<1>3. RowsNotAhead'
  BY <1>2 DEF RowsNotAhead, RebuiltInd
<1>4. RowsRebuilt'
  BY <1>1, <1>2 DEF RowsRebuilt, RebuiltInd
<1>5. EndsLast' /\ StopsLast'
  BY DEF EndsLast, StopsLast, RebuiltInd, Write, Raise, Die
<1> QED BY <1>3, <1>4, <1>5 DEF RebuiltInd

(* A run starts with the snapshot of no events.                            *)
LEMMA StartsRebuilt == ProgressInit => RebuiltInd
<1> SUFFICES ASSUME ProgressInit PROVE RebuiltInd
  OBVIOUS
<1> USE DEF ProgressInit
<1>1. operation \in Operations /\ DOMAIN events = {} /\ Len(events) = 0
  BY DEF Operations
<1>2. Ends(events) = {} /\ Stops(events) = {} /\ StatusOf(events) = "running"
  BY <1>1 DEF Ends, Stops, StatusOf
<1>3. Furthest(events) = 0
  <2>1. ~ \E i \in Ends(events) : events[i].status = "succeeded"
    BY <1>2
  <2>2. Furthest(events) \in {Reached(events[i]) : i \in DOMAIN events} \cup {0}
    BY <1>1, <2>1, FurthestFacts
  <2> QED BY <1>1, <2>2
<1>4. Counts(NewRun) = Frontier(events)
  BY FrontierEmpty, FrontierFields DEF Counts, NewRun
<1>5. IsRebuilt(NewRun, events)
  BY <1>2, <1>3, <1>4 DEF IsRebuilt, NewRun
<1>6. SubSeq(events, 1, Len(events) - 0) = events
  <2>1. SubSeq(events, 1, 0) = <<>>
    BY SubSeqEmpty
  <2>2. Len(events) - 0 = 0 /\ events = <<>>
    BY <1>1
  <2> QED BY ONLY <2>1, <2>2
<1>7. RowsRebuilt
  <2>1. Lags = {0} /\ rows = {NewRun} /\ 0 <= Len(events)
    BY <1>1 DEF Lags
  <2>2. IsRebuilt(NewRun, SubSeq(events, 1, Len(events) - 0))
    BY ONLY <1>5, <1>6
  <2> QED BY ONLY <2>1, <2>2 DEF RowsRebuilt
<1>8. RowsNotAhead
  BY <1>3 DEF RowsNotAhead, NewRun
<1>9. EndsLast /\ StopsLast
  BY <1>2 DEF EndsLast, StopsLast
<1> QED BY <1>7, <1>8, <1>9 DEF RebuiltInd

(* Every step keeps the snapshot what the events give.                     *)
LEMMA RebuiltKept == ProgressInd /\ RebuiltInd /\ [ProgressNext]_progressVars => RebuiltInd'
<1> SUFFICES ASSUME ProgressInd, RebuiltInd, [ProgressNext]_progressVars PROVE RebuiltInd'
  OBVIOUS
<1>1. CASE Record \/ Project \/ Finish \/ Publish
  BY <1>1, RecordRebuilds, ProjectRebuilds, FinishRebuilds, PublishRebuilds
<1>2. CASE Write \/ Raise \/ Die
  <2>1. UNCHANGED <<events, rows, shared, blind, operation>>
    BY <1>2 DEF Write, Raise, Die, stored
  <2> QED BY <1>2, <2>1, OthersRebuild
<1>3. CASE ReadRun \/ Show \/ UNCHANGED progressVars
  <2>1. UNCHANGED <<events, rows, shared, blind, operation, writer, failing>>
    BY <1>3 DEF ReadRun, Show, progressVars, writerVars, stored
  <2> QED BY <2>1, OthersRebuild
<1> QED BY <1>1, <1>2, <1>3 DEF ProgressNext, Work

(* At every moment the snapshot of a run is the one its events rebuild,    *)
(* but for the one or two that are still to be projected: so it is after a *)
(* raise and after the death of the process.                               *)
THEOREM EventsRebuildTheSnapshot == ProgressSpec => []SnapshotIsRebuildable
<1>1. ProgressInd /\ RebuiltInd => SnapshotIsRebuildable
  <2> SUFFICES ASSUME ProgressInd, RebuiltInd, shared = 0, ~ (blind /\ failing),
                      NEW r \in rows
               PROVE  \E n \in Pending :
                         n <= Len(events) /\ IsRebuilt(r, SubSeq(events, 1, Len(events) - n))
    BY DEF SnapshotIsRebuildable
  <2>1. Lags \subseteq Pending
    BY DEF Lags, Pending, ProgressInd, WriterOK, ProgressTypeOK
  <2>2. PICK n \in Lags :
           n <= Len(events) /\ IsRebuilt(r, SubSeq(events, 1, Len(events) - n))
    BY DEF RebuiltInd, RowsRebuilt
  <2> QED BY <2>1, <2>2
<1> QED BY StartsWell, ProgressKept, StartsRebuilt, RebuiltKept, <1>1, PTL DEF ProgressSpec
=============================================================================
