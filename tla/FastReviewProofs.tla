---------------------------- MODULE FastReviewProofs ----------------------------
(***************************************************************************)
(* Proofs about FastReview for any instances, requests, clients, runs,     *)
(* limits and lifetimes: status, disable state, lock, result cache and     *)
(* quota, whatever requests, refusals and storage failures interleave.     *)
(***************************************************************************)
EXTENDS FastReview, FiniteSetTheorems, TLAPS

\* The places of a request, and the statuses of a run.
Places == {"new", "reading", "read", "admitted", "waiting", "charging",
           "totalling", "clienting", "running", "caching", "ended"}
Statuses == Settled \cup {"none", "running"}

\* Counts a request is about to write are below their limits.
RoomIsLeft ==
    \A r \in Requests :
        /\ pc[r] = "totalling" => readTotal[r] < DailyLimit
        /\ pc[r] \in {"totalling", "clienting"} => readClient[r] < ClientLimit

\* A begun request has asked for the disable state, in the past.
HasAsked ==
    \A r \in Requests :
        pc[r] # "new" => checkedAt[r] \in Times /\ checkedAt[r] <= clock

\* The types with what makes them inductive.
Shape == TypeOK /\ RoomIsLeft /\ HasAsked

-------------------------------------------------------------------------------
(* What a step does to the tables.                                           *)

\* A request goes from one place to another; no other request moves.
LEMMA Moves ==
    ASSUME TypeOK, NEW r \in Requests, NEW p \in Places, pc' = [pc EXCEPT ![r] = p]
    PROVE  /\ pc' \in [Requests -> Places]
           /\ pc'[r] = p /\ \A q \in Requests \ {r} : pc'[q] = pc[q]
BY DEF TypeOK, Places

\* The status of the request's run is overwritten, no other's.
LEMMA Records ==
    ASSUME TypeOK, NEW r \in Requests, NEW s \in Statuses, Record(r, s)
    PROVE  /\ status' \in [Runs -> Statuses]
           /\ status'[RunOf[r]] = s
           /\ \A u \in Runs \ {RunOf[r]} : status'[u] = status[u]
BY FastReviewAssumption DEF TypeOK, Record, Statuses

\* The lock of the request's instance is freed, no other's.
LEMMA Releases ==
    ASSUME TypeOK, NEW r \in Requests, ReleaseLock(r)
    PROVE  /\ lock' \in [Instances -> Requests \cup {None}]
           /\ lock'[InstanceOf[r]] = None
           /\ \A i \in Instances \ {InstanceOf[r]} : lock'[i] = lock[i]
BY FastReviewAssumption DEF TypeOK, ReleaseLock

\* The disable state ends a request as failed or admits it.
LEMMA Decides ==
    ASSUME TypeOK, NEW r \in Requests, NEW off \in BOOLEAN, Decide(r, off)
    PROVE  /\ pc' \in [Requests -> Places]
           /\ pc'[r] = IF off THEN "ended" ELSE "admitted"
           /\ \A q \in Requests \ {r} : pc'[q] = pc[q]
           /\ status' \in [Runs -> Statuses]
           /\ IF off THEN Record(r, "failed") ELSE UNCHANGED status
<1>0. /\ {"ended", "admitted"} \subseteq Places /\ "failed" \in Statuses
      /\ status \in [Runs -> Statuses]
  BY DEF Places, Statuses, Settled, TypeOK
<1>1. CASE off
  <2>1. pc' = [pc EXCEPT ![r] = "ended"] /\ Record(r, "failed")
    BY <1>1 DEF Decide
  <2> QED BY <1>0, <1>1, <2>1, Moves, Records
<1>2. CASE ~off
  <2>1. pc' = [pc EXCEPT ![r] = "admitted"] /\ UNCHANGED status
    BY <1>2 DEF Decide
  <2> QED BY <1>0, <1>2, <2>1, Moves
<1> QED BY <1>1, <1>2

\* The same where the request asks: the copy decides, or the storage is read.
LEMMA Asks ==
    ASSUME TypeOK, NEW r \in Requests, AskDisable(r)
    PROVE  /\ pc' \in [Requests -> Places]
           /\ \A q \in Requests \ {r} : pc'[q] = pc[q]
           /\ status' \in [Runs -> Statuses]
           /\ \/ pc'[r] = "reading" /\ UNCHANGED status
              \/ pc'[r] = "ended" /\ Record(r, "failed")
              \/ /\ pc'[r] = "admitted" /\ UNCHANGED status
                 /\ DisableFresh(InstanceOf[r]) /\ ~disable[InstanceOf[r]].off
<1> DEFINE off == disable[InstanceOf[r]].off
<1>1. CASE DisableFresh(InstanceOf[r])
  <2>1. off \in BOOLEAN /\ Decide(r, off)
    BY <1>1, FastReviewAssumption DEF AskDisable, DisableFresh, TypeOK
  <2>2. off = disable[InstanceOf[r]].off
    OBVIOUS
  <2> HIDE DEF off
  <2> QED BY <1>1, <2>1, <2>2, Decides
<1>2. CASE ~DisableFresh(InstanceOf[r])
  <2>1. pc' = [pc EXCEPT ![r] = "reading"] /\ UNCHANGED status
    BY <1>2 DEF AskDisable
  <2>2. "reading" \in Places /\ status \in [Runs -> Statuses]
    BY DEF Places, Statuses, TypeOK
  <2> QED BY <2>1, <2>2, Moves
<1> QED BY <1>1, <1>2

\* A refusal or failure inside the lock.
LEMMA Fails ==
    ASSUME TypeOK, NEW r \in Requests, Fail(r)
    PROVE  /\ pc' \in [Requests -> Places]
           /\ pc'[r] = "ended" /\ \A q \in Requests \ {r} : pc'[q] = pc[q]
           /\ status' \in [Runs -> Statuses] /\ Record(r, "failed")
           /\ lock' \in [Instances -> Requests \cup {None}] /\ ReleaseLock(r)
<1>1. "ended" \in Places /\ "failed" \in Statuses
  BY DEF Places, Statuses, Settled
<1> QED BY <1>1, Moves, Records, Releases DEF Fail

\* The quota is read: the request fails, or goes on with room left for it.
LEMMA ReadsQuota ==
    ASSUME TypeOK, NEW r \in Requests, ReadQuota(r)
    PROVE  /\ pc' \in [Requests -> Places]
           /\ \A q \in Requests \ {r} : pc'[q] = pc[q]
           /\ status' \in [Runs -> Statuses]
           /\ lock' \in [Instances -> Requests \cup {None}]
           /\ \/ pc'[r] = "ended" /\ Record(r, "failed") /\ ReleaseLock(r)
              \/ /\ pc'[r] = "totalling" /\ UNCHANGED <<status, lock>>
                 /\ total < DailyLimit /\ client[ClientOf[r]] < ClientLimit
<1>1. CASE total >= DailyLimit \/ client[ClientOf[r]] >= ClientLimit
  <2>1. Fail(r)
    BY <1>1 DEF ReadQuota
  <2> QED BY <2>1, Fails
<1>2. CASE ~(total >= DailyLimit \/ client[ClientOf[r]] >= ClientLimit)
  <2>1. pc' = [pc EXCEPT ![r] = "totalling"] /\ UNCHANGED <<status, lock>>
    BY <1>2 DEF ReadQuota
  <2>2. "totalling" \in Places /\ status \in [Runs -> Statuses]
        /\ lock \in [Instances -> Requests \cup {None}]
    BY DEF Places, Statuses, TypeOK
  <2>3. total < DailyLimit /\ client[ClientOf[r]] < ClientLimit
    BY <1>2, FastReviewAssumption DEF TypeOK
  <2> QED BY <2>1, <2>2, <2>3, Moves
<1> QED BY <1>1, <1>2

\* Under the lock: a hit ends the request, a miss takes the lock.
LEMMA Enters ==
    ASSUME TypeOK, NEW r \in Requests, Enter(r)
    PROVE  /\ pc' \in [Requests -> Places]
           /\ \A q \in Requests \ {r} : pc'[q] = pc[q]
           /\ status' \in [Runs -> Statuses]
           /\ lock' \in [Instances -> Requests \cup {None}]
           /\ live' \subseteq Requests
           /\ \/ /\ Hit(r) /\ pc'[r] = "ended" /\ Record(r, "succeeded")
                 /\ UNCHANGED <<lock, live>>
              \/ /\ ~Hit(r) /\ r \in Owners /\ pc'[r] = "running"
                 /\ Record(r, "running") /\ live' = live \cup {r}
                 /\ lock' = [lock EXCEPT ![InstanceOf[r]] = r]
              \/ /\ ~Hit(r) /\ r \notin Owners /\ pc'[r] = "charging"
                 /\ UNCHANGED <<status, live>>
                 /\ lock' = [lock EXCEPT ![InstanceOf[r]] = r]
<1>0. /\ {"ended", "running", "charging"} \subseteq Places
      /\ {"succeeded", "running"} \subseteq Statuses
      /\ status \in [Runs -> Statuses]
      /\ lock \in [Instances -> Requests \cup {None}] /\ live \subseteq Requests
  BY DEF Places, Statuses, Settled, TypeOK
<1>1. CASE Hit(r)
  <2>1. pc' = [pc EXCEPT ![r] = "ended"] /\ Record(r, "succeeded") /\ UNCHANGED <<lock, live>>
    BY <1>1 DEF Enter
  <2> QED BY <1>0, <1>1, <2>1, Moves, Records
<1>2. CASE ~Hit(r) /\ r \in Owners
  <2>1. /\ pc' = [pc EXCEPT ![r] = "running"] /\ Record(r, "running")
        /\ live' = live \cup {r} /\ lock' = [lock EXCEPT ![InstanceOf[r]] = r]
    BY <1>2 DEF Enter
  <2>2. lock' \in [Instances -> Requests \cup {None}] /\ live' \subseteq Requests
    BY <1>0, <2>1
  <2> QED BY <1>0, <1>2, <2>1, <2>2, Moves, Records
<1>3. CASE ~Hit(r) /\ r \notin Owners
  <2>1. /\ pc' = [pc EXCEPT ![r] = "charging"] /\ UNCHANGED <<status, live>>
        /\ lock' = [lock EXCEPT ![InstanceOf[r]] = r]
    BY <1>3 DEF Enter
  <2>2. lock' \in [Instances -> Requests \cup {None}]
    BY <1>0, <2>1
  <2> QED BY <1>0, <1>3, <2>1, <2>2, Moves
<1> QED BY <1>1, <1>2, <1>3

\* The steps that go on without a decision.
LEMMA Goes ==
    ASSUME TypeOK, NEW r \in Requests,
           \/ ReadDisable(r) \/ ReadDisableFails(r) \/ Accept(r) \/ QuotaUnreadable(r)
           \/ WriteTotal(r) \/ WriteClient(r) \/ Succeed(r) \/ StoreResult(r)
    PROVE  /\ pc' \in [Requests -> Places]
           /\ \A q \in Requests \ {r} : pc'[q] = pc[q]
           /\ status' \in [Runs -> Statuses]
           /\ lock' \in [Instances -> Requests \cup {None}]
           /\ \/ (ReadDisable(r) \/ ReadDisableFails(r)) /\ pc'[r] = "read"
              \/ Accept(r) /\ pc'[r] = "waiting"
              \/ QuotaUnreadable(r) /\ pc'[r] = "ended"
              \/ WriteTotal(r) /\ pc'[r] = "clienting"
              \/ WriteClient(r) /\ pc'[r] = "running"
              \/ Succeed(r) /\ pc'[r] = "caching"
              \/ StoreResult(r) /\ pc'[r] = "ended"
<1>0. /\ {"read", "waiting", "ended", "clienting", "running", "caching"} \subseteq Places
      /\ {"running", "succeeded"} \subseteq Statuses
      /\ status \in [Runs -> Statuses]
      /\ lock \in [Instances -> Requests \cup {None}]
  BY DEF Places, Statuses, Settled, TypeOK
<1>1. CASE ReadDisable(r) \/ ReadDisableFails(r)
  BY <1>0, <1>1, Moves DEF ReadDisable, ReadDisableFails, Goto
<1>2. CASE Accept(r)
  BY <1>0, <1>2, Moves, Records DEF Accept, Goto
<1>3. CASE QuotaUnreadable(r)
  BY <1>0, <1>3, Moves, Releases DEF QuotaUnreadable, Goto
<1>4. CASE WriteTotal(r)
  BY <1>0, <1>4, Moves DEF WriteTotal, Goto
<1>5. CASE WriteClient(r)
  BY <1>0, <1>5, Moves, Records DEF WriteClient, Goto
<1>6. CASE Succeed(r)
  BY <1>0, <1>6, Moves, Records DEF Succeed, Goto
<1>7. CASE StoreResult(r)
  BY <1>0, <1>7, Moves, Releases DEF StoreResult, Goto
<1> QED BY <1>1, <1>2, <1>3, <1>4, <1>5, <1>6, <1>7

-------------------------------------------------------------------------------
(* Types.                                                                    *)

\* Nothing has been asked, written or locked yet.
LEMMA ShapeInit == Init => Shape
BY FastReviewAssumption
   DEF Init, Shape, TypeOK, RoomIsLeft, HasAsked, Times, Settled

\* What a handler's step leaves alone, and the types of what it may write.
LEMMA Handles ==
    ASSUME TypeOK, NEW r \in Requests, Handle(r)
    PROVE  /\ pc' \in [Requests -> Places]
           /\ \A q \in Requests \ {r} : pc'[q] = pc[q]
           /\ status' \in [Runs -> Statuses]
           /\ lock' \in [Instances -> Requests \cup {None}]
<1>0. status \in [Runs -> Statuses] /\ lock \in [Instances -> Requests \cup {None}]
  BY DEF TypeOK, Statuses
<1>1. CASE AskDisable(r)
  BY <1>0, <1>1, Asks DEF AskDisable
<1>2. CASE KeepDisable(r)
  BY <1>0, <1>2, Decides DEF KeepDisable, TypeOK
<1>3. CASE Enter(r)
  BY <1>3, Enters
<1>4. CASE ReadQuota(r)
  BY <1>4, ReadsQuota
<1>5. CASE QuotaUnwritable(r) \/ RunFails(r)
  BY <1>5, Fails DEF QuotaUnwritable, RunFails
<1>6. CASE \/ ReadDisable(r) \/ ReadDisableFails(r) \/ Accept(r) \/ QuotaUnreadable(r)
           \/ WriteTotal(r) \/ WriteClient(r) \/ Succeed(r) \/ StoreResult(r)
  BY <1>6, Goes
<1> QED BY <1>1, <1>2, <1>3, <1>4, <1>5, <1>6 DEF Handle

\* A handler's step: it writes the records it may write, with room left.
LEMMA ShapeHandle ==
    ASSUME Shape, NEW r \in Requests, Handle(r)
    PROVE  Shape'
<1> USE FastReviewAssumption
<1>0. TypeOK /\ RoomIsLeft /\ HasAsked
  BY DEF Shape
<1>1. /\ pc' \in [Requests -> Places] /\ \A q \in Requests \ {r} : pc'[q] = pc[q]
      /\ status' \in [Runs -> Statuses]
      /\ lock' \in [Instances -> Requests \cup {None}]
  BY <1>0, Handles
<1>2. clock' = clock /\ guard' = guard /\ disabledAt' = disabledAt
  BY DEF Handle, AskDisable, ReadDisable, ReadDisableFails, KeepDisable, Accept, Enter,
         ReadQuota, QuotaUnreadable, WriteTotal, WriteClient, QuotaUnwritable, Succeed,
         RunFails, StoreResult
<1>3. HasAsked' /\ checkedAt' \in [Requests -> Times \cup {None}]
  <2>1. CASE AskDisable(r)
    <3>1. checkedAt' = [checkedAt EXCEPT ![r] = clock] /\ clock \in Times
      BY <1>0, <2>1 DEF AskDisable, TypeOK
    <3>2. clock <= clock
      BY <3>1 DEF Times
    <3>3. checkedAt' \in [Requests -> Times \cup {None}]
      BY <1>0, <3>1 DEF TypeOK
    <3>4. ASSUME NEW q \in Requests, pc'[q] # "new"
          PROVE  checkedAt'[q] \in Times /\ checkedAt'[q] <= clock
      BY <1>0, <1>1, <3>1, <3>2, <3>4 DEF HasAsked, TypeOK
    <3> QED BY <1>2, <3>3, <3>4 DEF HasAsked
  <2>2. CASE ~AskDisable(r)
    <3>1. checkedAt' = checkedAt /\ pc[r] # "new"
      BY <2>2 DEF Handle, ReadDisable, ReadDisableFails, KeepDisable, Accept, Enter,
             ReadQuota, Goto, QuotaUnreadable, WriteTotal, WriteClient, QuotaUnwritable,
             Succeed, RunFails, StoreResult
    <3> QED BY <1>0, <1>1, <1>2, <3>1 DEF HasAsked, TypeOK
  <2> QED BY <2>1, <2>2
<1>4. seen' \in [Requests -> BOOLEAN]
  <2>1. CASE ReadDisable(r) \/ ReadDisableFails(r)
    BY <1>0, <2>1 DEF ReadDisable, ReadDisableFails, TypeOK
  <2>2. CASE ~ReadDisable(r) /\ ~ReadDisableFails(r)
    <3>1. seen' = seen
      BY <2>2 DEF Handle, AskDisable, KeepDisable, Accept, Enter, ReadQuota, Goto,
             QuotaUnreadable, WriteTotal, WriteClient, QuotaUnwritable, Succeed, RunFails,
             StoreResult
    <3> QED BY <1>0, <3>1 DEF TypeOK
  <2> QED BY <2>1, <2>2
<1>5. disable' \in [Instances -> [at : Times, off : BOOLEAN] \cup {None}]
  <2>1. CASE KeepDisable(r)
    <3>1. checkedAt[r] \in Times /\ seen[r] \in BOOLEAN
      BY <1>0, <2>1 DEF KeepDisable, HasAsked, TypeOK
    <3> QED BY <1>0, <2>1, <3>1 DEF KeepDisable, TypeOK
  <2>2. CASE ~KeepDisable(r)
    <3>1. disable' = disable
      BY <2>2 DEF Handle, AskDisable, ReadDisable, ReadDisableFails, Accept, Enter,
             ReadQuota, Goto, QuotaUnreadable, WriteTotal, WriteClient, QuotaUnwritable,
             Succeed, RunFails, StoreResult
    <3> QED BY <1>0, <3>1 DEF TypeOK
  <2> QED BY <2>1, <2>2
<1>6. cache' \in [Instances -> Times \cup {None}]
  <2>1. CASE StoreResult(r)
    BY <1>0, <2>1 DEF StoreResult, TypeOK
  <2>2. CASE ~StoreResult(r)
    <3>1. cache' = cache
      BY <2>2 DEF Handle, AskDisable, ReadDisable, ReadDisableFails, KeepDisable, Accept,
             Enter, ReadQuota, Goto, QuotaUnreadable, WriteTotal, WriteClient,
             QuotaUnwritable, Succeed, RunFails
    <3> QED BY <1>0, <3>1 DEF TypeOK
  <2> QED BY <2>1, <2>2
<1>7. live' \subseteq Requests
  <2>1. CASE Enter(r)
    BY <1>0, <2>1, Enters
  <2>2. CASE ~Enter(r)
    <3>1. live' = live \/ live' = live \cup {r}
      BY <2>2 DEF Handle, AskDisable, ReadDisable, ReadDisableFails, KeepDisable, Accept,
             ReadQuota, Goto, QuotaUnreadable, WriteTotal, WriteClient, QuotaUnwritable,
             Succeed, RunFails, StoreResult
    <3> QED BY <1>0, <3>1 DEF TypeOK
  <2> QED BY <2>1, <2>2
<1>8. unread' \subseteq Requests
  <2>1. unread' = unread \/ unread' = unread \cup {r}
    BY DEF Handle, AskDisable, ReadDisable, ReadDisableFails, KeepDisable, Accept, Enter,
           ReadQuota, Goto, QuotaUnreadable, WriteTotal, WriteClient, QuotaUnwritable,
           Succeed, RunFails, StoreResult
  <2> QED BY <1>0, <2>1 DEF TypeOK
<1>9. /\ total' \in 0 .. DailyLimit
      /\ client' \in [Clients -> 0 .. ClientLimit]
      /\ readTotal' \in [Requests -> 0 .. DailyLimit]
      /\ readClient' \in [Requests -> 0 .. ClientLimit]
      /\ RoomIsLeft'
  <2>1. CASE ReadQuota(r)
    <3>1. /\ readTotal' = [readTotal EXCEPT ![r] = total]
          /\ readClient' = [readClient EXCEPT ![r] = client[ClientOf[r]]]
          /\ UNCHANGED <<total, client>>
      BY <2>1 DEF ReadQuota
    <3>2. /\ total \in 0 .. DailyLimit /\ client[ClientOf[r]] \in 0 .. ClientLimit
          /\ client \in [Clients -> 0 .. ClientLimit]
      BY <1>0 DEF TypeOK
    <3>3. /\ readTotal' \in [Requests -> 0 .. DailyLimit]
          /\ readClient' \in [Requests -> 0 .. ClientLimit]
          /\ readTotal'[r] = total /\ readClient'[r] = client[ClientOf[r]]
          /\ \A q \in Requests \ {r} :
                readTotal'[q] = readTotal[q] /\ readClient'[q] = readClient[q]
      BY <1>0, <3>1, <3>2 DEF TypeOK
    <3>4. \/ pc'[r] = "ended"
          \/ /\ pc'[r] = "totalling"
             /\ total < DailyLimit /\ client[ClientOf[r]] < ClientLimit
      BY <1>0, <2>1, ReadsQuota
    <3> QED BY <1>0, <1>1, <3>1, <3>2, <3>3, <3>4 DEF RoomIsLeft
  <2>2. CASE WriteTotal(r)
    <3>1. /\ pc[r] = "totalling" /\ total' = readTotal[r] + 1
          /\ UNCHANGED <<client, readTotal, readClient>> /\ pc'[r] = "clienting"
      BY <1>0, <2>2, Goes DEF WriteTotal, Goto
    <3>2. readTotal[r] \in 0 .. DailyLimit /\ readTotal[r] < DailyLimit
          /\ readClient[r] < ClientLimit
      BY <1>0, <3>1 DEF TypeOK, RoomIsLeft
    <3> QED BY <1>0, <1>1, <3>1, <3>2 DEF TypeOK, RoomIsLeft
  <2>3. CASE WriteClient(r)
    <3>1. /\ pc[r] = "clienting" /\ client' = [client EXCEPT ![ClientOf[r]] = readClient[r] + 1]
          /\ UNCHANGED <<total, readTotal, readClient>> /\ pc'[r] = "running"
      BY <1>0, <2>3, Goes DEF WriteClient, Goto
    <3>2. readClient[r] \in 0 .. ClientLimit /\ readClient[r] < ClientLimit
      BY <1>0, <3>1 DEF TypeOK, RoomIsLeft
    <3>3. readClient[r] + 1 \in 0 .. ClientLimit
      BY <3>2
    <3> QED BY <1>0, <1>1, <3>1, <3>3 DEF TypeOK, RoomIsLeft
  <2>4. CASE ~ReadQuota(r) /\ ~WriteTotal(r) /\ ~WriteClient(r)
    <3>1. UNCHANGED <<total, client, readTotal, readClient>>
      BY <2>4 DEF Handle, AskDisable, ReadDisable, ReadDisableFails, KeepDisable, Accept,
             Enter, QuotaUnreadable, QuotaUnwritable, Succeed, RunFails, StoreResult,
             quota
    <3>2. pc'[r] \notin {"totalling", "clienting"}
      <4>1. CASE AskDisable(r)
        BY <1>0, <4>1, Asks
      <4>2. CASE KeepDisable(r)
        BY <1>0, <4>2, Decides DEF KeepDisable, TypeOK
      <4>3. CASE Enter(r)
        BY <1>0, <4>3, Enters
      <4>4. CASE QuotaUnwritable(r) \/ RunFails(r)
        BY <1>0, <4>4, Fails DEF QuotaUnwritable, RunFails
      <4>5. CASE \/ ReadDisable(r) \/ ReadDisableFails(r) \/ Accept(r)
                 \/ QuotaUnreadable(r) \/ Succeed(r) \/ StoreResult(r)
        BY <1>0, <2>4, <4>5, Goes
      <4> QED BY <2>4, <4>1, <4>2, <4>3, <4>4, <4>5 DEF Handle
    <3> QED BY <1>0, <1>1, <3>1, <3>2 DEF TypeOK, RoomIsLeft
  <2> QED BY <2>1, <2>2, <2>3, <2>4
<1>10. misreads' \in [Instances -> SUBSET Times]
  <2>1. CASE ReadDisableFails(r)
    <3>1. checkedAt[r] \in Times
      BY <1>0, <2>1 DEF ReadDisableFails, Goto, HasAsked
    <3> QED BY <1>0, <2>1, <3>1 DEF ReadDisableFails, TypeOK
  <2>2. CASE ~ReadDisableFails(r)
    <3>1. misreads' = misreads
      BY <2>2 DEF Handle, AskDisable, ReadDisable, KeepDisable, Accept, Enter, ReadQuota,
             QuotaUnreadable, WriteTotal, WriteClient, QuotaUnwritable, Succeed, RunFails,
             StoreResult
    <3> QED BY <1>0, <3>1 DEF TypeOK
  <2> QED BY <2>1, <2>2
<1> QED BY <1>0, <1>1, <1>2, <1>3, <1>4, <1>5, <1>6, <1>7, <1>8, <1>9, <1>10
        DEF Shape, TypeOK, Places, Statuses

\* Every step keeps the shape; the guard and the clock only write times.
LEMMA ShapeNext == Shape /\ [Next]_vars => Shape'
<1> SUFFICES ASSUME Shape, [Next]_vars PROVE Shape'
  OBVIOUS
<1> USE DEF Shape, RoomIsLeft, HasAsked, quota
<1>1. ASSUME NEW r \in Requests, Handle(r) PROVE Shape'
  BY <1>1, ShapeHandle
<1>2. ASSUME NEW i \in Instances, Disable(i) PROVE Shape'
  BY <1>2 DEF Disable, TypeOK
<1>3. ASSUME NEW i \in Instances, Publish(i) PROVE Shape'
  BY <1>3 DEF Publish, TypeOK
<1>4. CASE Tick
  <2>1. clock' \in Times /\ \A t \in Times : t <= clock => t <= clock'
    BY <1>4, FastReviewAssumption DEF Tick, TypeOK, Times
  <2> QED BY <1>4, <2>1 DEF Tick, TypeOK
<1>5. CASE UNCHANGED vars
  BY <1>5 DEF vars, TypeOK
<1> QED BY <1>1, <1>2, <1>3, <1>4, <1>5 DEF Next, Ended

-------------------------------------------------------------------------------
(* Status.                                                                   *)

\* Requests that have not written their status, and requests that still will.
Early == {"new", "reading", "read", "admitted"}
Owing == {"waiting", "charging", "totalling", "clienting", "running"}

\* A run without a status has only early requests; one that says "running" has a
\* request that owes it a status, or one whose quota could not be read.
StatusFollows ==
    \A u \in Runs :
        /\ status[u] = "none" =>
              \A r \in Requests : RunOf[r] = u => pc[r] \in Early
        /\ status[u] = "running" =>
              \E r \in Requests : RunOf[r] = u /\ (pc[r] \in Owing \/ r \in unread)

\* A request either settles its run, owes it a status, or writes none.
LEMMA StatusStep ==
    ASSUME TypeOK, StatusFollows, NEW r \in Requests, unread \subseteq unread',
           \A q \in Requests \ {r} : pc'[q] = pc[q],
           \/ \E s \in Settled : Record(r, s)
           \/ Record(r, "running") /\ pc'[r] \in Owing
           \/ UNCHANGED status /\ pc[r] \in Early /\ pc'[r] \in Early
           \/ /\ UNCHANGED status /\ pc[r] \notin Early
              /\ pc[r] \in Owing => pc'[r] \in Owing \/ r \in unread'
    PROVE  StatusFollows'
<1> SUFFICES ASSUME NEW u \in Runs
             PROVE  /\ status'[u] = "none" =>
                          \A q \in Requests : RunOf[q] = u => pc'[q] \in Early
                    /\ status'[u] = "running" =>
                          \E q \in Requests :
                              RunOf[q] = u /\ (pc'[q] \in Owing \/ q \in unread')
  BY DEF StatusFollows
<1>1. CASE \E s \in Settled : Record(r, s)
  <2>1. PICK s \in Settled : Record(r, s)
    BY <1>1
  <2>2. /\ status'[RunOf[r]] = s
        /\ \A v \in Runs \ {RunOf[r]} : status'[v] = status[v]
    BY <2>1, Records DEF Statuses
  <2>3. CASE u = RunOf[r]
    BY <2>2, <2>3 DEF Settled
  <2>4. CASE u # RunOf[r]
    BY <2>2, <2>4 DEF StatusFollows
  <2> QED BY <2>3, <2>4
<1>2. CASE Record(r, "running") /\ pc'[r] \in Owing
  <2>1. /\ status'[RunOf[r]] = "running"
        /\ \A v \in Runs \ {RunOf[r]} : status'[v] = status[v]
    BY <1>2, Records DEF Statuses
  <2>2. CASE u = RunOf[r]
    BY <1>2, <2>1, <2>2
  <2>3. CASE u # RunOf[r]
    BY <2>1, <2>3 DEF StatusFollows
  <2> QED BY <2>2, <2>3
<1>3. CASE /\ UNCHANGED status /\ pc[r] \notin Early
           /\ pc[r] \in Owing => pc'[r] \in Owing \/ r \in unread'
  BY <1>3 DEF StatusFollows
<1>4. CASE UNCHANGED status /\ pc[r] \in Early /\ pc'[r] \in Early
  BY <1>4 DEF StatusFollows, Early, Owing
<1> QED BY <1>1, <1>2, <1>3, <1>4

\* Every step keeps what the statuses say.
LEMMA StatusNext == Shape /\ StatusFollows /\ [Next]_vars => StatusFollows'
<1> SUFFICES ASSUME Shape, StatusFollows, [Next]_vars PROVE StatusFollows'
  OBVIOUS
<1>1. TypeOK
  BY DEF Shape
<1>2. ASSUME NEW r \in Requests, Handle(r) PROVE StatusFollows'
  <2>1. \A q \in Requests \ {r} : pc'[q] = pc[q]
    BY <1>1, <1>2, Handles
  <2>2. unread \subseteq unread'
    BY <1>2 DEF Handle, AskDisable, ReadDisable, ReadDisableFails, KeepDisable, Accept,
           Enter, ReadQuota, QuotaUnreadable, WriteTotal, WriteClient, QuotaUnwritable,
           Succeed, RunFails, StoreResult
  <2> USE DEF Early, Owing, Settled
  <2>3. CASE AskDisable(r)
    <3>1. pc[r] = "new"
      BY <2>3 DEF AskDisable
    <3> QED BY <1>1, <2>1, <2>2, <2>3, <3>1, Asks, StatusStep
  <2>4. CASE KeepDisable(r)
    <3>1. pc[r] = "read" /\ seen[r] \in BOOLEAN /\ Decide(r, seen[r])
      BY <1>1, <2>4 DEF KeepDisable, TypeOK
    <3> QED BY <1>1, <2>1, <2>2, <3>1, Decides, StatusStep
  <2>5. CASE Enter(r)
    <3>1. pc[r] = "waiting"
      BY <2>5 DEF Enter
    <3> QED BY <1>1, <2>1, <2>2, <2>5, <3>1, Enters, StatusStep
  <2>6. CASE ReadQuota(r)
    <3>1. pc[r] = "charging"
      BY <2>6 DEF ReadQuota
    <3> QED BY <1>1, <2>1, <2>2, <2>6, <3>1, ReadsQuota, StatusStep
  <2>7. CASE QuotaUnwritable(r) \/ RunFails(r)
    BY <1>1, <2>1, <2>2, <2>7, StatusStep DEF QuotaUnwritable, RunFails, Fail
  <2>8. CASE ReadDisable(r) \/ ReadDisableFails(r)
    BY <1>1, <2>1, <2>2, <2>8, Goes, StatusStep DEF ReadDisable, ReadDisableFails, Goto
  <2>9. CASE \/ Accept(r) \/ WriteClient(r)
    <3>1. Record(r, "running") /\ pc' \in {[pc EXCEPT ![r] = "waiting"], [pc EXCEPT ![r] = "running"]}
      BY <2>9 DEF Accept, WriteClient, Goto
    <3>2. pc'[r] \in Owing
      BY <1>1, <3>1 DEF TypeOK
    <3> QED BY <1>1, <2>1, <2>2, <3>1, <3>2, StatusStep
  <2>10. CASE QuotaUnreadable(r)
    BY <1>1, <2>1, <2>2, <2>10, StatusStep DEF QuotaUnreadable, Goto
  <2>11. CASE WriteTotal(r)
    BY <1>1, <2>1, <2>2, <2>11, Goes, StatusStep DEF WriteTotal, Goto
  <2>12. CASE Succeed(r)
    BY <1>1, <2>1, <2>2, <2>12, StatusStep DEF Succeed
  <2>13. CASE StoreResult(r)
    BY <1>1, <2>1, <2>2, <2>13, StatusStep DEF StoreResult, Goto
  <2> QED BY <1>2, <2>3, <2>4, <2>5, <2>6, <2>7, <2>8, <2>9, <2>10, <2>11, <2>12, <2>13
          DEF Handle
<1>3. CASE UNCHANGED <<pc, status, unread>>
  BY <1>3 DEF StatusFollows
<1> QED BY <1>2, <1>3 DEF Next, Disable, Publish, Tick, Ended, vars

\* FastReviewInv for every value of the constants: types, and a run whose requests
\* have all ended, none of them on an unreadable quota, has a settled status.
THEOREM StatusIsSettled == Spec => []FastReviewInv
<1>1. Init => StatusFollows
  BY DEF Init, StatusFollows, Early
<1>2. Shape /\ StatusFollows => FastReviewInv
  <2> SUFFICES ASSUME Shape, StatusFollows PROVE StatusSettles
    BY DEF Shape, FastReviewInv
  <2> SUFFICES ASSUME NEW u \in Runs, NEW r \in Requests, RunOf[r] = u,
                      \A q \in Requests : RunOf[q] = u => pc[q] = "ended" /\ q \notin unread
               PROVE  status[u] \in Settled
    BY DEF StatusSettles
  <2>1. status[u] # "none" /\ status[u] # "running"
    BY DEF StatusFollows, Early, Owing
  <2> QED BY <2>1 DEF Shape, TypeOK
<1> QED BY <1>1, <1>2, ShapeInit, ShapeNext, StatusNext, PTL DEF Spec

-------------------------------------------------------------------------------
(* The disable state.                                                        *)

\* Requests that got past the disable state.
Admitted == {"admitted", "waiting", "charging", "totalling", "clienting", "running",
             "caching"}

\* A read that failed accounts for an admission at time c.
Misread(i, c) == \E t \in misreads[i] : t <= c /\ c < t + DisableTtl

\* Stored decisions and copies are of the past; a copy or a read that says "not
\* disabled" was taken no later than the decision, or is one that failed.
CopiesArePast ==
    /\ disabledAt # None => disabledAt <= clock
    /\ \A i \in Instances : disable[i] # None =>
          /\ disable[i].at <= clock
          /\ disabledAt # None /\ ~disable[i].off
                => disable[i].at <= disabledAt \/ disable[i].at \in misreads[i]
    /\ \A r \in Requests :
          pc[r] = "read" /\ ~seen[r] /\ disabledAt # None
              => checkedAt[r] <= disabledAt \/ checkedAt[r] \in misreads[InstanceOf[r]]

AdmittedInTime ==
    \A r \in Requests :
        disabledAt # None /\ pc[r] \in Admitted
            => checkedAt[r] < disabledAt + DisableTtl \/ Misread(InstanceOf[r], checkedAt[r])

\* Every step keeps the copies past and the admitted requests in time.
LEMMA HeedNext ==
    Shape /\ CopiesArePast /\ AdmittedInTime /\ [Next]_vars
        => CopiesArePast' /\ AdmittedInTime'
<1> SUFFICES ASSUME Shape, CopiesArePast, AdmittedInTime, [Next]_vars
             PROVE  CopiesArePast' /\ AdmittedInTime'
  OBVIOUS
<1> USE FastReviewAssumption
<1>0. TypeOK /\ HasAsked /\ clock \in Times
  BY DEF Shape, TypeOK
<1>1. ASSUME NEW r \in Requests, Handle(r) PROVE CopiesArePast' /\ AdmittedInTime'
  <2>1. \A q \in Requests \ {r} : pc'[q] = pc[q]
    BY <1>0, <1>1, Handles
  <2>2. UNCHANGED <<clock, disabledAt>>
    BY <1>1 DEF Handle, AskDisable, ReadDisable, ReadDisableFails, KeepDisable, Accept,
           Enter, ReadQuota, QuotaUnreadable, WriteTotal, WriteClient, QuotaUnwritable,
           Succeed, RunFails, StoreResult
  <2> USE DEF Misread
  <2>3. CASE AskDisable(r)
    <3>1. /\ UNCHANGED <<seen, disable, misreads>> /\ checkedAt'[r] = clock
          /\ \A q \in Requests \ {r} : checkedAt'[q] = checkedAt[q]
      BY <1>0, <2>3 DEF AskDisable, TypeOK
    <3>2. \/ pc'[r] \in {"reading", "ended"}
          \/ /\ pc'[r] = "admitted"
             /\ DisableFresh(InstanceOf[r]) /\ ~disable[InstanceOf[r]].off
      BY <1>0, <2>3, Asks
    <3>3. CopiesArePast'
      BY <2>1, <2>2, <3>1, <3>2 DEF CopiesArePast
    <3>4. ASSUME disabledAt # None, pc'[r] \in Admitted
          PROVE  clock < disabledAt + DisableTtl \/ Misread(InstanceOf[r], clock)
      <4> DEFINE d == disable[InstanceOf[r]]
      <4>1. d # None /\ clock - d.at < DisableTtl /\ ~d.off
        BY <3>2, <3>4 DEF Admitted, DisableFresh
      <4>2. d.at \in Times
        BY <1>0, <4>1 DEF TypeOK
      <4>3. d.at <= clock /\ (d.at <= disabledAt \/ d.at \in misreads[InstanceOf[r]])
        BY <3>4, <4>1 DEF CopiesArePast
      <4>4. disabledAt \in Times
        BY <1>0, <3>4 DEF TypeOK
      <4> HIDE DEF d
      <4>5. CASE d.at <= disabledAt
        BY <1>0, <4>1, <4>2, <4>4, <4>5 DEF Times
      <4>6. CASE d.at \in misreads[InstanceOf[r]]
        <5>1. d.at <= clock /\ clock < d.at + DisableTtl
          BY <1>0, <4>1, <4>2, <4>3 DEF Times
        <5> QED BY <4>6, <5>1
      <4> QED BY <4>3, <4>5, <4>6
    <3> QED BY <2>1, <2>2, <3>1, <3>3, <3>4 DEF AdmittedInTime
  <2>4. CASE ReadDisable(r) \/ ReadDisableFails(r)
    <3>1. /\ pc[r] = "reading" /\ pc'[r] = "read" /\ UNCHANGED <<checkedAt, disable>>
          /\ \A q \in Requests \ {r} : seen'[q] = seen[q]
          /\ \A i \in Instances : misreads[i] \subseteq misreads'[i]
      BY <1>0, <2>4, Goes DEF ReadDisable, ReadDisableFails, Goto, TypeOK
    <3>2. ~seen'[r] /\ disabledAt # None => checkedAt[r] \in misreads'[InstanceOf[r]]
      <4>1. CASE ReadDisable(r)
        <5>1. seen'[r] = (disabledAt # None)
          BY <1>0, <4>1 DEF ReadDisable, TypeOK
        <5> QED BY <5>1
      <4>2. CASE ReadDisableFails(r)
        BY <1>0, <4>2 DEF ReadDisableFails, TypeOK
      <4> QED BY <2>4, <4>1, <4>2
    <3> QED BY <2>1, <2>2, <3>1, <3>2 DEF CopiesArePast, AdmittedInTime, Admitted
  <2>5. CASE KeepDisable(r)
    <3>1. /\ pc[r] = "read" /\ UNCHANGED <<checkedAt, seen, misreads>>
          /\ disable' = [disable EXCEPT ![InstanceOf[r]] =
                            [at |-> checkedAt[r], off |-> seen[r]]]
          /\ seen[r] \in BOOLEAN /\ pc'[r] = IF seen[r] THEN "ended" ELSE "admitted"
      BY <1>0, <2>5, Decides DEF KeepDisable, TypeOK
    <3>2. checkedAt[r] \in Times /\ checkedAt[r] <= clock
      BY <1>0, <3>1 DEF HasAsked
    <3>3. ~seen[r] /\ disabledAt # None
              => checkedAt[r] <= disabledAt \/ checkedAt[r] \in misreads[InstanceOf[r]]
      BY <3>1 DEF CopiesArePast
    <3>4. CopiesArePast'
      <4>1. \A i \in Instances :
               disable'[i] = IF i = InstanceOf[r]
                             THEN [at |-> checkedAt[r], off |-> seen[r]] ELSE disable[i]
        BY <1>0, <3>1 DEF TypeOK
      <4>2. pc'[r] # "read"
        BY <3>1
      <4> QED BY <2>1, <2>2, <3>1, <3>2, <3>3, <4>1, <4>2 DEF CopiesArePast
    <3>5. AdmittedInTime'
      <4>1. disabledAt # None => disabledAt \in Times
        BY <1>0 DEF TypeOK
      <4>2. ASSUME disabledAt # None, pc'[r] \in Admitted
            PROVE  \/ checkedAt[r] < disabledAt + DisableTtl
                   \/ Misread(InstanceOf[r], checkedAt[r])
        BY <3>1, <3>2, <3>3, <4>1, <4>2 DEF Admitted, Times
      <4> QED BY <2>1, <2>2, <3>1, <4>2 DEF AdmittedInTime
    <3> QED BY <3>4, <3>5
  <2>6. CASE ~AskDisable(r) /\ ~ReadDisable(r) /\ ~ReadDisableFails(r) /\ ~KeepDisable(r)
    <3>1. /\ UNCHANGED <<checkedAt, seen, disable, misreads>> /\ pc[r] \in Admitted
      BY <1>1, <2>6 DEF Handle, Accept, Enter, ReadQuota, Goto, QuotaUnreadable,
             WriteTotal, WriteClient, QuotaUnwritable, Succeed, RunFails, StoreResult,
             Admitted
    <3>2. pc'[r] # "read"
      <4>1. CASE Enter(r)
        BY <1>0, <4>1, Enters
      <4>2. CASE ReadQuota(r)
        BY <1>0, <4>2, ReadsQuota
      <4>3. CASE QuotaUnwritable(r) \/ RunFails(r)
        BY <1>0, <4>3, Fails DEF QuotaUnwritable, RunFails
      <4>4. CASE \/ Accept(r) \/ QuotaUnreadable(r) \/ WriteTotal(r) \/ WriteClient(r)
                 \/ Succeed(r) \/ StoreResult(r)
        BY <1>0, <2>6, <4>4, Goes
      <4> QED BY <1>1, <2>6, <4>1, <4>2, <4>3, <4>4 DEF Handle
    <3> QED BY <2>1, <2>2, <3>1, <3>2 DEF CopiesArePast, AdmittedInTime
  <2> QED BY <2>3, <2>4, <2>5, <2>6
<1>2. ASSUME NEW i \in Instances, Disable(i) PROVE CopiesArePast' /\ AdmittedInTime'
  <2>1. UNCHANGED <<clock, pc, checkedAt, seen, disable, misreads>>
    BY <1>2 DEF Disable
  <2>2. CASE disabledAt # None
    <3>1. disabledAt' = disabledAt
      BY <1>2, <2>2 DEF Disable
    <3> QED BY <2>1, <3>1 DEF CopiesArePast, AdmittedInTime, Misread
  <2>3. CASE disabledAt = None
    <3>1. disabledAt' = clock
      BY <1>2, <2>3 DEF Disable
    <3>2. \A r \in Requests :
              pc[r] # "new" => checkedAt[r] <= clock /\ checkedAt[r] < clock + DisableTtl
      BY <1>0 DEF HasAsked, Times
    <3>3. clock <= clock
      BY <1>0 DEF Times
    <3> QED BY <2>1, <3>1, <3>2, <3>3 DEF CopiesArePast, AdmittedInTime, Admitted, Misread
  <2> QED BY <2>2, <2>3
<1>3. ASSUME NEW i \in Instances, Publish(i) PROVE CopiesArePast' /\ AdmittedInTime'
  <2>1. /\ UNCHANGED <<clock, pc, checkedAt, seen, disabledAt, misreads>>
        /\ \A j \in Instances :
              disable'[j] = IF j = i THEN [at |-> clock, off |-> TRUE] ELSE disable[j]
    BY <1>0, <1>3 DEF Publish, TypeOK
  <2>2. clock <= clock
    BY <1>0 DEF Times
  <2> QED BY <2>1, <2>2 DEF CopiesArePast, AdmittedInTime, Misread
<1>4. CASE Tick
  <2>1. /\ UNCHANGED <<pc, checkedAt, seen, disable, disabledAt, misreads>>
        /\ \A t \in Times : t <= clock => t <= clock'
    BY <1>0, <1>4 DEF Tick, Times
  <2>2. /\ disabledAt # None => disabledAt \in Times
        /\ \A i \in Instances : disable[i] # None => disable[i].at \in Times
    BY <1>0 DEF TypeOK
  <2> QED BY <2>1, <2>2 DEF CopiesArePast, AdmittedInTime, Misread
<1>5. CASE UNCHANGED vars
  BY <1>5 DEF vars, CopiesArePast, AdmittedInTime, Misread
<1> QED BY <1>1, <1>2, <1>3, <1>4, <1>5 DEF Next, Ended

\* DisableIsHeeded for every value of the constants: DisableTtl after the budget
\* guard's decision an instance lets in a request that asks only within DisableTtl of
\* a read that failed on it, however copies of the disable state overwrite each other.
THEOREM DisableHeeded == Spec => []DisableIsHeeded
<1>1. Init => CopiesArePast /\ AdmittedInTime
  BY DEF Init, CopiesArePast, AdmittedInTime, Admitted
<1>2. AdmittedInTime => DisableIsHeeded
  BY DEF AdmittedInTime, DisableIsHeeded, Admitted, Misread
<1> QED BY <1>1, <1>2, ShapeInit, ShapeNext, HeedNext, PTL DEF Spec

-------------------------------------------------------------------------------
(* The lock and the result cache.                                            *)

\* The places inside the instance's lock.
InLock(r) == pc[r] \in {"charging", "totalling", "clienting", "running", "caching"}

\* A request inside the lock is its holder, so there is one per instance.
HolderInside == \A r \in Requests : InLock(r) => lock[InstanceOf[r]] = r

\* Inside the lock nobody else stores a result: what was not fresh at the lookup
\* is not fresh before the live run either.
StaysStale ==
    \A r \in Requests \ Forced :
        pc[r] \in {"charging", "totalling", "clienting"} => ~CacheFresh(InstanceOf[r])

\* The lock is taken free, kept inside, and released by its holder.
LEMMA HolderNext == Shape /\ HolderInside /\ [Next]_vars => HolderInside'
<1> SUFFICES ASSUME Shape, HolderInside, [Next]_vars PROVE HolderInside'
  OBVIOUS
<1> USE FastReviewAssumption DEF InLock
<1>0. TypeOK
  BY DEF Shape
<1>1. ASSUME NEW r \in Requests, Handle(r) PROVE HolderInside'
  <2>1. \A q \in Requests \ {r} : pc'[q] = pc[q]
    BY <1>0, <1>1, Handles
  <2>2. CASE Enter(r)
    <3>1. lock[InstanceOf[r]] = None
      BY <2>2 DEF Enter
    <3>2. \/ pc'[r] = "ended" /\ lock' = lock
          \/ lock' = [lock EXCEPT ![InstanceOf[r]] = r]
      BY <1>0, <2>2, Enters
    <3>3. \A q \in Requests \ {r} : InLock(q) => InstanceOf[q] # InstanceOf[r]
      BY <3>1 DEF HolderInside
    <3> QED BY <1>0, <2>1, <3>2, <3>3 DEF HolderInside, TypeOK
  <2>3. ASSUME InLock(r), pc'[r] = "ended", ReleaseLock(r) PROVE HolderInside'
    <3>1. \A q \in Requests \ {r} : InLock(q) => InstanceOf[q] # InstanceOf[r]
      BY <2>3 DEF HolderInside
    <3> QED BY <1>0, <2>1, <2>3, <3>1, Releases DEF HolderInside
  <2>4. ASSUME lock' = lock, InLock(r)' => InLock(r) PROVE HolderInside'
    BY <2>1, <2>4 DEF HolderInside
  <2>5. CASE ReadQuota(r)
    BY <1>0, <2>3, <2>4, <2>5, ReadsQuota DEF ReadQuota
  <2>6. CASE QuotaUnwritable(r) \/ RunFails(r)
    BY <1>0, <2>3, <2>6, Fails DEF QuotaUnwritable, RunFails
  <2>7. CASE QuotaUnreadable(r)
    <3>1. InLock(r) /\ ReleaseLock(r) /\ pc'[r] = "ended"
      BY <1>0, <2>7 DEF QuotaUnreadable, Goto, TypeOK
    <3> QED BY <2>3, <3>1
  <2>8. CASE StoreResult(r)
    <3>1. InLock(r) /\ ReleaseLock(r) /\ pc'[r] = "ended"
      BY <1>0, <2>8 DEF StoreResult, Goto, TypeOK
    <3> QED BY <2>3, <3>1
  <2>9. CASE WriteTotal(r) \/ WriteClient(r) \/ Succeed(r)
    BY <2>4, <2>9 DEF WriteTotal, WriteClient, Succeed, Goto
  <2>10. CASE ReadDisable(r) \/ ReadDisableFails(r) \/ Accept(r)
    <3>1. lock' = lock /\ pc'[r] \in {"read", "waiting"}
      BY <1>0, <2>10 DEF ReadDisable, ReadDisableFails, Accept, Goto, TypeOK
    <3> QED BY <2>4, <3>1
  <2>11. CASE AskDisable(r)
    BY <1>0, <2>4, <2>11, Asks DEF AskDisable
  <2>12. CASE KeepDisable(r)
    BY <1>0, <2>4, <2>12, Decides DEF KeepDisable, TypeOK
  <2> QED BY <1>1, <2>2, <2>5, <2>6, <2>7, <2>8, <2>9, <2>10, <2>11, <2>12 DEF Handle
<1>2. CASE UNCHANGED <<pc, lock>>
  BY <1>2 DEF HolderInside
<1> QED BY <1>1, <1>2 DEF Next, Disable, Publish, Tick, Ended, vars

\* A result is stored by the lock's holder only, and time makes none fresh.
LEMMA StaleNext ==
    Shape /\ HolderInside /\ StaysStale /\ [Next]_vars => StaysStale'
<1> SUFFICES ASSUME Shape, HolderInside, [Next]_vars, StaysStale PROVE StaysStale'
  OBVIOUS
<1> USE FastReviewAssumption
<1>0. TypeOK
  BY DEF Shape
<1>1. ASSUME NEW r \in Requests, Handle(r) PROVE StaysStale'
  <2>1. /\ \A q \in Requests \ {r} : pc'[q] = pc[q]
    BY <1>0, <1>1, Handles
  <2>2. clock' = clock
    BY <1>1 DEF Handle, AskDisable, ReadDisable, ReadDisableFails, KeepDisable, Accept,
           Enter, ReadQuota, QuotaUnreadable, WriteTotal, WriteClient, QuotaUnwritable,
           Succeed, RunFails, StoreResult
  <2>3. CASE StoreResult(r)
    <3>1. /\ pc[r] = "caching" /\ pc'[r] = "ended"
          /\ \A i \in Instances \ {InstanceOf[r]} : cache'[i] = cache[i]
      BY <1>0, <2>3 DEF StoreResult, Goto, TypeOK
    <3>2. \A q \in Requests \ {r} :
             pc[q] \in {"charging", "totalling", "clienting"}
                 => InstanceOf[q] # InstanceOf[r]
      BY <3>1 DEF HolderInside, InLock
    <3> QED BY <2>1, <2>2, <3>1, <3>2 DEF StaysStale, CacheFresh
  <2>4. CASE Enter(r)
    <3>1. cache' = cache
      BY <2>4 DEF Enter
    <3>2. pc'[r] \in {"ended", "running"} \/ ~Hit(r)
      BY <1>0, <2>4, Enters
    <3> QED BY <2>1, <2>2, <3>1, <3>2 DEF StaysStale, CacheFresh, Hit
  <2>5. CASE ~StoreResult(r) /\ ~Enter(r)
    <3>1. cache' = cache
      BY <1>1, <2>5 DEF Handle, AskDisable, ReadDisable, ReadDisableFails, KeepDisable,
             Accept, ReadQuota, QuotaUnreadable, WriteTotal, WriteClient, QuotaUnwritable,
             Succeed, RunFails
    <3>2. pc'[r] \in {"charging", "totalling", "clienting"}
              => pc[r] \in {"charging", "totalling", "clienting"}
      <4>1. CASE AskDisable(r)
        BY <1>0, <4>1, Asks
      <4>2. CASE KeepDisable(r)
        BY <1>0, <4>2, Decides DEF KeepDisable, TypeOK
      <4>3. CASE ReadQuota(r)
        BY <4>3 DEF ReadQuota
      <4>4. CASE QuotaUnwritable(r) \/ RunFails(r)
        BY <1>0, <4>4, Fails DEF QuotaUnwritable, RunFails
      <4>5. CASE \/ ReadDisable(r) \/ ReadDisableFails(r) \/ Accept(r)
                 \/ QuotaUnreadable(r) \/ WriteTotal(r) \/ WriteClient(r) \/ Succeed(r)
        BY <1>0, <4>5 DEF ReadDisable, ReadDisableFails, Accept, QuotaUnreadable,
               WriteTotal, WriteClient, Succeed, Goto, TypeOK
      <4> QED BY <1>1, <2>5, <4>1, <4>2, <4>3, <4>4, <4>5 DEF Handle
    <3> QED BY <2>1, <2>2, <3>1, <3>2 DEF StaysStale, CacheFresh
  <2> QED BY <2>3, <2>4, <2>5
<1>2. CASE Tick
  <2>1. /\ UNCHANGED <<pc, cache>> /\ clock' = clock + 1 /\ clock \in Times
    BY <1>0, <1>2 DEF Tick, TypeOK
  <2>2. ASSUME NEW i \in Instances, CacheFresh(i)' PROVE CacheFresh(i)
    <3>1. cache[i] \in Times
      BY <1>0, <2>1, <2>2 DEF CacheFresh, TypeOK
    <3> QED BY <2>1, <2>2, <3>1 DEF CacheFresh, Times
  <2> QED BY <2>1, <2>2 DEF StaysStale
<1>3. CASE UNCHANGED <<pc, cache, clock>>
  BY <1>3 DEF StaysStale, CacheFresh
<1> QED BY <1>1, <1>2, <1>3 DEF Next, Disable, Publish, Ended, vars

\* FreshResultIsServed for every value of the constants: no unforced live run
\* starts while its instance holds a fresh result, although the lookup and the
\* start are steps apart.
THEOREM FreshResultServed == Spec => FreshResultIsServed
<1>1. Init => HolderInside /\ StaysStale
  BY DEF Init, HolderInside, StaysStale, InLock
<1>2. ASSUME Shape, StaysStale, [Next]_vars
      PROVE  [\A r \in Requests \ Forced :
                 pc[r] # "running" /\ pc'[r] = "running"
                     => ~ CacheFresh(InstanceOf[r])]_vars
  <2> SUFFICES ASSUME NEW r \in Requests \ Forced, pc[r] # "running", pc'[r] = "running"
               PROVE  ~ CacheFresh(InstanceOf[r])
    OBVIOUS
  <2>0. TypeOK
    BY <1>2 DEF Shape
  <2>1. PICK q \in Requests : Handle(q)
    BY <1>2 DEF Next, Disable, Publish, Tick, Ended, vars
  <2>2. q = r
    BY <2>0, <2>1, Handles
  <2>3. CASE Enter(r)
    BY <2>0, <2>3, Enters DEF Hit
  <2>4. CASE WriteClient(r)
    BY <1>2, <2>4 DEF WriteClient, Goto, StaysStale
  <2>5. CASE ~Enter(r) /\ ~WriteClient(r)
    <3>1. CASE AskDisable(r)
      BY <2>0, <3>1, Asks
    <3>2. CASE KeepDisable(r)
      BY <2>0, <3>2, Decides DEF KeepDisable, TypeOK
    <3>3. CASE ReadQuota(r)
      BY <2>0, <3>3, ReadsQuota
    <3>4. CASE QuotaUnwritable(r) \/ RunFails(r)
      BY <2>0, <3>4, Fails DEF QuotaUnwritable, RunFails
    <3>5. CASE \/ ReadDisable(r) \/ ReadDisableFails(r) \/ Accept(r) \/ QuotaUnreadable(r)
               \/ WriteTotal(r) \/ Succeed(r) \/ StoreResult(r)
      BY <2>0, <2>5, <3>5, Goes
    <3> QED BY <2>1, <2>2, <2>5, <3>1, <3>2, <3>3, <3>4, <3>5 DEF Handle
  <2> QED BY <2>3, <2>4, <2>5
<1> QED BY <1>1, <1>2, ShapeInit, ShapeNext, HolderNext, StaleNext, PTL
        DEF Spec, FreshResultIsServed

-------------------------------------------------------------------------------
(* The quota.                                                                *)

\* One instance, and finitely many requests ever made.
OneInstance ==
    /\ \A r, q \in Requests : InstanceOf[r] = InstanceOf[q]
    /\ IsFiniteSet(Requests)

\* The live runs that quota was taken for, and those of one client.
Paid == live \ Owners
PaidBy(k) == {r \in Paid : ClientOf[r] = k}

\* Under the lock the counts a request has read are still the records, and between
\* its two writes the day's record is one ahead of the runs.
CountsAreCurrent ==
    /\ \A r \in Requests : pc[r] = "totalling" => readTotal[r] = total
    /\ \A r \in Requests :
          pc[r] \in {"totalling", "clienting"} => readClient[r] = client[ClientOf[r]]
    /\ Cardinality(Paid) <= total
    /\ (\E r \in Requests : pc[r] = "clienting") => Cardinality(Paid) < total
    /\ \A k \in Clients : Cardinality(PaidBy(k)) <= client[k]

\* A live run more makes the sets of paid runs at most one larger, and only its
\* client's.
LEMMA OneMoreRun ==
    ASSUME IsFiniteSet(Requests), TypeOK, NEW r \in Requests, live' = live \cup {r}
    PROVE  /\ Cardinality(Paid) \in Nat /\ Cardinality(Paid') \in Nat
           /\ Cardinality(Paid') <= Cardinality(Paid) + 1
           /\ \A k \in Clients :
                 /\ Cardinality(PaidBy(k)) \in Nat /\ Cardinality(PaidBy(k)') \in Nat
                 /\ Cardinality(PaidBy(k)') <= Cardinality(PaidBy(k)) + 1
                 /\ ClientOf[r] # k => PaidBy(k)' = PaidBy(k)
<1> USE FastReviewAssumption
<1>1. ASSUME NEW S, S \subseteq Requests
      PROVE  IsFiniteSet(S) /\ Cardinality(S) \in Nat
  BY <1>1, FS_Subset, FS_CardinalityType
<1>2. ASSUME NEW S, NEW T, S \subseteq Requests, T = S \/ T = S \cup {r}
      PROVE  Cardinality(T) <= Cardinality(S) + 1
  <2>1. IsFiniteSet(S) /\ Cardinality(S) \in Nat
    BY <1>1, <1>2
  <2>2. Cardinality(S \cup {r}) = IF r \in S THEN Cardinality(S) ELSE Cardinality(S) + 1
    BY <2>1, FS_AddElement
  <2>3. CASE T = S
    BY <2>1, <2>3
  <2>4. CASE T = S \cup {r}
    <3>1. Cardinality(T) = IF r \in S THEN Cardinality(S) ELSE Cardinality(S) + 1
      BY <2>2, <2>4
    <3> QED BY <2>1, <3>1
  <2> QED BY <1>2, <2>3, <2>4
<1>3. Paid \subseteq Requests /\ Paid' \subseteq Requests
  BY DEF TypeOK, Paid
<1>4. Paid' = Paid \/ Paid' = Paid \cup {r}
  BY DEF Paid
<1>5. ASSUME NEW k \in Clients
      PROVE  /\ PaidBy(k) \subseteq Requests /\ PaidBy(k)' \subseteq Requests
             /\ PaidBy(k)' = PaidBy(k) \/ PaidBy(k)' = PaidBy(k) \cup {r}
             /\ ClientOf[r] # k => PaidBy(k)' = PaidBy(k)
  BY <1>3, <1>4 DEF PaidBy
<1> QED BY <1>1, <1>2, <1>3, <1>4, <1>5

\* Every step keeps the counts current.
LEMMA CountNext ==
    ASSUME OneInstance, Shape, HolderInside, CountsAreCurrent, [Next]_vars
    PROVE  CountsAreCurrent'
<1> USE FastReviewAssumption
<1>0. /\ TypeOK /\ total \in Nat /\ client \in [Clients -> Nat]
      /\ \A r \in Requests : ClientOf[r] \in Clients
  BY DEF Shape, TypeOK
<1>1. ASSUME NEW r \in Requests, Handle(r) PROVE CountsAreCurrent'
  <2>1. \A q \in Requests \ {r} : pc'[q] = pc[q]
    BY <1>0, <1>1, Handles
  <2>2. InLock(r) => \A q \in Requests \ {r} : ~InLock(q)
    BY DEF HolderInside, OneInstance
  <2>3. CASE ReadQuota(r)
    <3>1. /\ readTotal' = [readTotal EXCEPT ![r] = total]
          /\ readClient' = [readClient EXCEPT ![r] = client[ClientOf[r]]]
          /\ UNCHANGED <<total, client, live>>
      BY <2>3 DEF ReadQuota
    <3>2. /\ readTotal'[r] = total /\ readClient'[r] = client[ClientOf[r]]
          /\ \A q \in Requests \ {r} :
                readTotal'[q] = readTotal[q] /\ readClient'[q] = readClient[q]
      BY <1>0, <3>1 DEF TypeOK
    <3>3. pc'[r] \in {"ended", "totalling"}
      BY <1>0, <2>3, ReadsQuota
    <3>4. Paid' = Paid /\ \A k \in Clients : PaidBy(k)' = PaidBy(k)
      BY <3>1 DEF Paid, PaidBy
    <3> QED BY <2>1, <3>1, <3>2, <3>3, <3>4 DEF CountsAreCurrent
  <2>4. CASE WriteTotal(r)
    <3>1. /\ pc[r] = "totalling" /\ pc'[r] = "clienting" /\ total' = readTotal[r] + 1
          /\ UNCHANGED <<client, readTotal, readClient, live>>
      BY <1>0, <2>4 DEF WriteTotal, Goto, TypeOK
    <3>2. readTotal[r] = total /\ Cardinality(Paid) <= total
      BY <3>1 DEF CountsAreCurrent
    <3>3. Paid' = Paid /\ \A k \in Clients : PaidBy(k)' = PaidBy(k)
      BY <3>1 DEF Paid, PaidBy
    <3>4. \A q \in Requests \ {r} : pc'[q] \notin {"totalling", "clienting"}
      BY <2>1, <2>2, <3>1 DEF InLock
    <3>5. Cardinality(Paid) \in Nat
      BY <1>0, FS_Subset, FS_CardinalityType DEF OneInstance, Paid, TypeOK
    <3>6. Cardinality(Paid) <= total' /\ Cardinality(Paid) < total'
      BY <1>0, <3>1, <3>2, <3>5
    <3> QED BY <3>1, <3>3, <3>4, <3>6 DEF CountsAreCurrent
  <2>5. CASE WriteClient(r)
    <3>1. /\ pc[r] = "clienting" /\ pc'[r] = "running" /\ live' = live \cup {r}
          /\ client' = [client EXCEPT ![ClientOf[r]] = readClient[r] + 1]
          /\ UNCHANGED <<total, readTotal, readClient>>
      BY <1>0, <2>5 DEF WriteClient, Goto, TypeOK
    <3>2. /\ readClient[r] = client[ClientOf[r]] /\ Cardinality(Paid) < total
      BY <3>1 DEF CountsAreCurrent
    <3>3. /\ Cardinality(Paid) \in Nat /\ Cardinality(Paid') \in Nat
          /\ Cardinality(Paid') <= Cardinality(Paid) + 1
          /\ \A k \in Clients :
                /\ Cardinality(PaidBy(k)) \in Nat /\ Cardinality(PaidBy(k)') \in Nat
                /\ Cardinality(PaidBy(k)') <= Cardinality(PaidBy(k)) + 1
                /\ ClientOf[r] # k => PaidBy(k)' = PaidBy(k)
      BY <1>0, <3>1, OneMoreRun DEF OneInstance
    <3>4. \A q \in Requests : pc'[q] \notin {"totalling", "clienting"}
      BY <2>1, <2>2, <3>1 DEF InLock
    <3>5. Cardinality(Paid') <= total'
      BY <1>0, <3>1, <3>2, <3>3
    <3>6. ASSUME NEW k \in Clients PROVE Cardinality(PaidBy(k)') <= client'[k]
      <4>1. Cardinality(PaidBy(k)) <= client[k] /\ client[k] \in Nat
        BY <1>0 DEF CountsAreCurrent
      <4>2. CASE k = ClientOf[r]
        <5>1. client'[k] = client[k] + 1
          BY <1>0, <3>1, <3>2, <4>2
        <5> QED BY <3>3, <4>1, <5>1
      <4>3. CASE k # ClientOf[r]
        <5>1. client'[k] = client[k]
          BY <1>0, <3>1, <4>3
        <5> QED BY <3>3, <4>1, <4>3, <5>1
      <4> QED BY <4>2, <4>3
    <3> QED BY <3>4, <3>5, <3>6 DEF CountsAreCurrent
  <2>6. CASE ~ReadQuota(r) /\ ~WriteTotal(r) /\ ~WriteClient(r)
    <3>1. UNCHANGED <<total, client, readTotal, readClient>>
      BY <1>1, <2>6 DEF Handle, AskDisable, ReadDisable, ReadDisableFails, KeepDisable,
             Accept, Enter, QuotaUnreadable, QuotaUnwritable, Succeed, RunFails,
             StoreResult, quota
    <3>2. pc'[r] \notin {"totalling", "clienting"}
      <4>1. CASE AskDisable(r)
        BY <1>0, <4>1, Asks
      <4>2. CASE KeepDisable(r)
        BY <1>0, <4>2, Decides DEF KeepDisable, TypeOK
      <4>3. CASE Enter(r)
        BY <1>0, <4>3, Enters
      <4>4. CASE QuotaUnwritable(r) \/ RunFails(r)
        BY <1>0, <4>4, Fails DEF QuotaUnwritable, RunFails
      <4>5. CASE \/ ReadDisable(r) \/ ReadDisableFails(r) \/ Accept(r)
                 \/ QuotaUnreadable(r) \/ Succeed(r) \/ StoreResult(r)
        BY <1>0, <2>6, <4>5, Goes
      <4> QED BY <1>1, <2>6, <4>1, <4>2, <4>3, <4>4, <4>5 DEF Handle
    <3>3. Paid' = Paid
      <4>1. CASE Enter(r)
        BY <1>0, <4>1, Enters DEF Paid
      <4>2. CASE ~Enter(r)
        BY <1>1, <2>6, <4>2 DEF Handle, AskDisable, ReadDisable, ReadDisableFails,
               KeepDisable, Accept, QuotaUnreadable, QuotaUnwritable, Succeed, RunFails,
               StoreResult, Paid
      <4> QED BY <4>1, <4>2
    <3>4. \A k \in Clients : PaidBy(k)' = PaidBy(k)
      BY <3>3 DEF PaidBy
    <3> QED BY <2>1, <3>1, <3>2, <3>3, <3>4 DEF CountsAreCurrent
  <2> QED BY <2>3, <2>4, <2>5, <2>6
<1>2. CASE UNCHANGED <<pc, quota, live>>
  BY <1>2 DEF quota, CountsAreCurrent, Paid, PaidBy
<1> QED BY <1>1, <1>2 DEF Next, Disable, Publish, Tick, Ended, vars

\* RunsAreCounted for every limit and every order of requests, where one instance
\* serves them: no live run is missing from the day's record or its client's.
THEOREM RunsCounted == OneInstance => (Spec => []RunsAreCounted)
<1> SUFFICES ASSUME OneInstance PROVE Spec => []RunsAreCounted
  OBVIOUS
<1>1. Init => HolderInside /\ CountsAreCurrent
  BY FS_EmptySet, FastReviewAssumption
     DEF Init, HolderInside, InLock, CountsAreCurrent, Paid, PaidBy
<1>2. Shape /\ HolderInside /\ CountsAreCurrent /\ [Next]_vars => CountsAreCurrent'
  BY CountNext
<1>3. CountsAreCurrent => RunsAreCounted
  BY DEF CountsAreCurrent, RunsAreCounted, Paid, PaidBy
<1> QED BY <1>1, <1>2, <1>3, ShapeInit, ShapeNext, HolderNext, PTL DEF Spec

\* So the limits bound the live runs that are not the owner's: DailyLimit in all and
\* ClientLimit per client, although a total is written before the client's record
\* and either write may fail.
THEOREM LimitsBoundRuns ==
    OneInstance =>
        (Spec => [](/\ Cardinality(Paid) <= DailyLimit
                    /\ \A k \in Clients : Cardinality(PaidBy(k)) <= ClientLimit))
<1> SUFFICES ASSUME OneInstance
             PROVE  Spec => [](/\ Cardinality(Paid) <= DailyLimit
                               /\ \A k \in Clients : Cardinality(PaidBy(k)) <= ClientLimit)
  OBVIOUS
<1>1. Shape /\ RunsAreCounted =>
         /\ Cardinality(Paid) <= DailyLimit
         /\ \A k \in Clients : Cardinality(PaidBy(k)) <= ClientLimit
  <2> SUFFICES ASSUME Shape, RunsAreCounted
               PROVE  /\ Cardinality(Paid) <= DailyLimit
                      /\ \A k \in Clients : Cardinality(PaidBy(k)) <= ClientLimit
    OBVIOUS
  <2>1. /\ total \in 0 .. DailyLimit /\ client \in [Clients -> 0 .. ClientLimit]
        /\ Cardinality(Paid) <= total
        /\ \A k \in Clients : Cardinality(PaidBy(k)) <= client[k]
    BY DEF Shape, TypeOK, RunsAreCounted, Paid, PaidBy
  <2>2. Cardinality(Paid) \in Nat /\ \A k \in Clients : Cardinality(PaidBy(k)) \in Nat
    BY FS_Subset, FS_CardinalityType DEF OneInstance, Shape, TypeOK, Paid, PaidBy
  <2> QED BY <2>1, <2>2, FastReviewAssumption
<1> QED BY <1>1, ShapeInit, ShapeNext, RunsCounted, PTL DEF Spec
===============================================================================
