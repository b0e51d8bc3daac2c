--------------------------- MODULE ChunkLedgerProofs ---------------------------
(***************************************************************************)
(* Proofs about ChunkLedger for any contracts, runs, outcomes, retry       *)
(* rounds and starts: a run's answers and calls agree with what was stored, *)
(* a run gives a chunk up only after every round, and the shared store     *)
(* keeps the promise of ChunkResult.                                       *)
(***************************************************************************)
EXTENDS ChunkLedger, TLAPS

-------------------------------------------------------------------------------
(* What makes the invariants inductive, one relation at a time.              *)

\* A record of this incarnation's own call.
Own(r, rec) == rec # None /\ rec.run = r /\ rec.start = start[r]

\* The thread of a chunk has an answer of its own until the append is over.
AnswerInHand(r, c) == pc[r][c] \in {"answered", "filed"} => Own(r, env[r][c])

\* The file holds no record of an incarnation still to come.
FileIsPast(r, c) == file[r][c] # None => file[r][c].start <= start[r]

\* What the cache shows of a private contract was appended by this incarnation,
\* and so was its envelope.
PrivateIsOwn(r, c) ==
    c \notin CrossRun =>
        /\ c \in current[r] /\ cache[r][c] # None => Own(r, cache[r][c])
        /\ env[r][c] # None => Own(r, env[r][c])

\* A success that was stored at the start is still in the store or the cache, and
\* the thread of its chunk never gets to a call.
DurableIsFound(r, c) ==
    c \in durable[r] =>
        /\ c \in CrossRun
        /\ Success(db[c]) \/ Success(cache[r][c])
        /\ calls[r][c] = 0
        /\ pc[r][c] \in {"queued", "pacing", "done"}

\* An own success in the cache of a run that has met no store error is in the
\* store too, but for the moment between the two halves of append.
CachedIsStored(r, c) ==
    phase[r] = "running" /\ Success(cache[r][c]) /\ Own(r, cache[r][c])
        => Success(db[c]) \/ (pc[r][c] = "filed" /\ cache[r][c] = env[r][c])

\* The same for the envelope of a chunk that is done.
ReportedIsStored(r, c) ==
    /\ phase[r] \in {"running", "finished"} /\ pc[r][c] = "done"
    /\ Success(env[r][c]) /\ Own(r, env[r][c])
    => Success(db[c])

\* A chunk is called at most once per round, the first pass included.
CallsPerRound(r, c) ==
    calls[r][c] + rounds[r] <=
        IF pc[r][c] \in {"queued", "pacing"} THEN Rounds ELSE Rounds + 1

Sound(r, c) ==
    /\ AnswerInHand(r, c)
    /\ FileIsPast(r, c)
    /\ PrivateIsOwn(r, c)
    /\ DurableIsFound(r, c)
    /\ CachedIsStored(r, c)
    /\ ReportedIsStored(r, c)
    /\ CallsPerRound(r, c)

\* A run that is finished or down has no thread left.
StoppedIsDone == \A r \in Runs : phase[r] \in {"finished", "down"} => AllDone(r)

LedgerInd ==
    /\ TypeOK
    /\ \A r \in Runs : \A c \in Contracts : Sound(r, c)
    /\ StoppedIsDone

-------------------------------------------------------------------------------
(* The lookup.                                                               *)

\* A success is no absent record.
LEMMA NoneIsNoSuccess == ~Success(None)
BY DEF Success, None

\* What a lookup returns is the store's record or a visible one of the cache; a
\* success that can be found is found; failures are returned on request only.
LEMMA LookupFacts ==
    ASSUME NEW r \in Runs, NEW c \in Contracts
    PROVE  /\ ReusableRecord(r, c) # None =>
                 \/ c \in CrossRun /\ ReusableRecord(r, c) = db[c]
                 \/ CacheVisible(r, c) /\ ReusableRecord(r, c) = cache[r][c]
           /\ c \in CrossRun /\ (Success(db[c]) \/ Success(cache[r][c])) =>
                 ReusableRecord(r, c) # None /\ Success(ReusableRecord(r, c))
           /\ ~ReuseFailed /\ ReusableRecord(r, c) # None =>
                 Success(ReusableRecord(r, c))
BY NoneIsNoSuccess DEF ReusableRecord, SuccessRecord, CacheVisible

-------------------------------------------------------------------------------
(* The steps, as what they leave of each chunk of each run.                  *)

\* Updating one entry of a table of runs and chunks.
LEMMA EntryUpdate ==
    ASSUME NEW T, NEW f \in [Runs -> [Contracts -> T]],
           NEW r \in Runs, NEW c \in Contracts, NEW v \in T, NEW g,
           g = [f EXCEPT ![r][c] = v]
    PROVE  /\ g \in [Runs -> [Contracts -> T]]
           /\ g[r][c] = v
           /\ \A o \in Runs, d \in Contracts : o # r \/ d # c => g[o][d] = f[o][d]
OBVIOUS

\* The states of a thread, and what a table entry may hold.
PC == {"queued", "pacing", "calling", "answered", "filed", "done"}
Rec == Record \cup {None}

\* Only the chunk looked up changes: it has its record and is done, or it goes on.
LEMMA LookupStep ==
    ASSUME TypeOK, NEW r \in Runs, NEW c \in Contracts, Lookup(r, c)
    PROVE  /\ pc' \in [Runs -> [Contracts -> PC]]
           /\ env' \in [Runs -> [Contracts -> Rec]]
           /\ cache' \in [Runs -> [Contracts -> Rec]]
           /\ calls' \in [Runs -> [Contracts -> Nat]]
           /\ \A o \in Runs, d \in Contracts : o # r \/ d # c =>
                 /\ pc'[o][d] = pc[o][d] /\ env'[o][d] = env[o][d]
                 /\ calls'[o][d] = calls[o][d] /\ cache'[o][d] = cache[o][d]
           /\ pc[r][c] \in {"queued", "pacing"}
           /\ \/ /\ ReusableRecord(r, c) # None
                 /\ env'[r][c] = ReusableRecord(r, c)
                 /\ pc'[r][c] = "done"
                 /\ calls'[r][c] = calls[r][c]
                 /\ \/ cache'[r][c] = cache[r][c]
                    \/ /\ c \in CrossRun
                       /\ cache'[r][c] = db[c] /\ ReusableRecord(r, c) = db[c]
              \/ /\ ReusableRecord(r, c) = None
                 /\ env'[r][c] = env[r][c] /\ cache'[r][c] = cache[r][c]
                 /\ \/ pc'[r][c] = "pacing" /\ calls'[r][c] = calls[r][c]
                    \/ pc'[r][c] = "calling" /\ calls'[r][c] = calls[r][c] + 1
<1>1. /\ pc \in [Runs -> [Contracts -> PC]]
      /\ env \in [Runs -> [Contracts -> Rec]]
      /\ cache \in [Runs -> [Contracts -> Rec]]
      /\ db \in [Contracts -> Rec]
      /\ calls \in [Runs -> [Contracts -> Nat]]
  BY LedgerAssumption DEF TypeOK, PC, Rec
<1>2. ReusableRecord(r, c) \in Rec
  BY <1>1, LookupFacts DEF Rec
<1>3. CASE ReusableRecord(r, c) # None
  <2>1. /\ env' = [env EXCEPT ![r][c] = ReusableRecord(r, c)]
        /\ pc' = [pc EXCEPT ![r][c] = "done"]
        /\ calls' = calls
    BY <1>3 DEF Lookup
  <2>2. \/ cache' = cache
        \/ /\ cache' = [cache EXCEPT ![r][c] = db[c]]
           /\ c \in CrossRun /\ ReusableRecord(r, c) = db[c]
    BY <1>3 DEF Lookup, CacheAfterLookup
  <2>3. /\ env' \in [Runs -> [Contracts -> Rec]]
        /\ env'[r][c] = ReusableRecord(r, c)
        /\ \A o \in Runs, d \in Contracts : o # r \/ d # c => env'[o][d] = env[o][d]
    BY <1>1, <1>2, <2>1, EntryUpdate
  <2>4. /\ pc' \in [Runs -> [Contracts -> PC]]
        /\ pc'[r][c] = "done"
        /\ \A o \in Runs, d \in Contracts : o # r \/ d # c => pc'[o][d] = pc[o][d]
    <3>1. "done" \in PC
      BY DEF PC
    <3> QED BY <1>1, <2>1, <3>1, EntryUpdate
  <2>5. /\ cache' \in [Runs -> [Contracts -> Rec]]
        /\ cache'[r][c] = cache[r][c]
           \/ (c \in CrossRun /\ cache'[r][c] = db[c] /\ ReusableRecord(r, c) = db[c])
        /\ \A o \in Runs, d \in Contracts : o # r \/ d # c => cache'[o][d] = cache[o][d]
    <3>1. CASE cache' = cache
      BY <1>1, <3>1
    <3>2. CASE cache' # cache
      <4>1. db[c] \in Rec
        BY <1>1
      <4>2. cache' = [cache EXCEPT ![r][c] = db[c]]
        BY <2>2, <3>2
      <4> QED BY <1>1, <2>2, <3>2, <4>1, <4>2, EntryUpdate
    <3> QED BY <3>1, <3>2
  <2>6. pc[r][c] \in {"queued", "pacing"}
    BY DEF Lookup
  <2> QED BY <1>1, <1>3, <2>1, <2>3, <2>4, <2>5, <2>6
<1>4. CASE ReusableRecord(r, c) = None
  <2> DEFINE p == IF pc[r][c] = "queued" THEN "pacing" ELSE "calling"
  <2>1. /\ pc' = [pc EXCEPT ![r][c] = p]
        /\ UNCHANGED <<env, cache>>
    BY <1>4 DEF Lookup
  <2>2. p \in PC
    BY DEF PC
  <2>3. /\ pc' \in [Runs -> [Contracts -> PC]]
        /\ pc'[r][c] = p
        /\ \A o \in Runs, d \in Contracts : o # r \/ d # c => pc'[o][d] = pc[o][d]
    <3> HIDE DEF p
    <3> QED BY <1>1, <2>1, <2>2, EntryUpdate
  <2>4. /\ calls' \in [Runs -> [Contracts -> Nat]]
        /\ \A o \in Runs, d \in Contracts : o # r \/ d # c => calls'[o][d] = calls[o][d]
        /\ calls'[r][c] = IF pc[r][c] = "queued" THEN calls[r][c] ELSE calls[r][c] + 1
    <3>1. CASE pc[r][c] = "queued"
      BY <1>1, <1>4, <3>1 DEF Lookup
    <3>2. CASE pc[r][c] # "queued"
      <4>1. calls' = [calls EXCEPT ![r][c] = calls[r][c] + 1]
        BY <1>4, <3>2 DEF Lookup
      <4>2. calls[r][c] + 1 \in Nat
        BY <1>1
      <4> QED BY <1>1, <3>2, <4>1, <4>2, EntryUpdate
    <3> QED BY <3>1, <3>2
  <2>5. pc[r][c] \in {"queued", "pacing"}
    BY DEF Lookup
  <2> QED BY <1>1, <1>4, <2>1, <2>3, <2>4, <2>5
<1> QED BY <1>3, <1>4

\* A chunk another one's step leaves alone stays sound: all a step elsewhere does
\* to it is to add a success to the store or to end its run.
LEMMA SoundStays ==
    ASSUME NEW o \in Runs, NEW d \in Contracts, Sound(o, d),
           /\ pc'[o][d] = pc[o][d] /\ env'[o][d] = env[o][d]
           /\ cache'[o][d] = cache[o][d] /\ file'[o][d] = file[o][d]
           /\ calls'[o][d] = calls[o][d] /\ start'[o] = start[o]
           /\ rounds'[o] = rounds[o] /\ durable'[o] = durable[o]
           /\ d \in current'[o] => d \in current[o],
           Success(db[d]) => Success(db'[d]),
           \/ phase'[o] = phase[o]
           \/ phase'[o] = "failed"
           \/ phase[o] = "running" /\ phase'[o] = "finished"
    PROVE  Sound(o, d)'
BY DEF Sound, AnswerInHand, FileIsPast, PrivateIsOwn, DurableIsFound, CachedIsStored,
       ReportedIsStored, CallsPerRound, Own, Success

-------------------------------------------------------------------------------
(* The steps.                                                                *)

\* The tables, with their record and state types abbreviated.
LEMMA Tables ==
    TypeOK => /\ db \in [Contracts -> Rec]
              /\ file \in [Runs -> [Contracts -> Rec]]
              /\ cache \in [Runs -> [Contracts -> Rec]]
              /\ current \in [Runs -> SUBSET Contracts]
              /\ pc \in [Runs -> [Contracts -> PC]]
              /\ env \in [Runs -> [Contracts -> Rec]]
              /\ phase \in [Runs -> {"down", "running", "finished", "failed"}]
              /\ start \in [Runs -> Nat]
              /\ rounds \in [Runs -> Nat]
              /\ calls \in [Runs -> [Contracts -> Nat]]
              /\ durable \in [Runs -> SUBSET Contracts]
BY LedgerAssumption DEF TypeOK, PC, Rec

\* Call counts that are bounded per round are bounded.
LEMMA CallsType ==
    ASSUME NEW f \in [Runs -> [Contracts -> Nat]], NEW g \in [Runs -> Nat],
           \A r \in Runs, c \in Contracts : f[r][c] + g[r] <= Rounds + 1
    PROVE  f \in [Runs -> [Contracts -> 0 .. Rounds + 1]]
<1>1. \A r \in Runs, c \in Contracts : f[r][c] \in 0 .. Rounds + 1
  BY LedgerAssumption
<1> QED BY <1>1

\* A hit hands out a record that may be seen; a miss of a durable chunk is impossible.
LEMMA LookupSound ==
    ASSUME LedgerInd, NEW r \in Runs, NEW c \in Contracts, Lookup(r, c)
    PROVE  LedgerInd'
<1>1. TypeOK /\ Sound(r, c) /\ StoppedIsDone
  BY DEF LedgerInd
<1>2. UNCHANGED <<db, file, current, phase, start, rounds, durable>>
  BY DEF Lookup
<1>3. Sound(r, c)'
  <2>1. CASE ReusableRecord(r, c) # None
    <3> DEFINE rec == ReusableRecord(r, c)
    <3>1. /\ env'[r][c] = rec /\ pc'[r][c] = "done" /\ calls'[r][c] = calls[r][c]
          /\ \/ cache'[r][c] = cache[r][c]
             \/ c \in CrossRun /\ cache'[r][c] = db[c] /\ rec = db[c]
          /\ pc[r][c] \in {"queued", "pacing"}
      BY <1>1, <2>1, LookupStep
    <3>2. \/ c \in CrossRun /\ rec = db[c]
          \/ CacheVisible(r, c) /\ rec = cache[r][c]
      BY <2>1, LookupFacts
    <3>3. c \in CrossRun /\ (Success(db[c]) \/ Success(cache[r][c])) => Success(rec)
      BY LookupFacts
    <3> HIDE DEF rec
    <3>4. PrivateIsOwn(r, c)'
      BY <1>1, <1>2, <3>1, <3>2 DEF Sound, PrivateIsOwn, CacheVisible, Own
    <3>5. DurableIsFound(r, c)'
      BY <1>1, <1>2, <3>1, <3>3 DEF Sound, DurableIsFound, Success
    <3>6. CachedIsStored(r, c)' /\ ReportedIsStored(r, c)'
      BY <1>1, <1>2, <3>1, <3>2
         DEF Sound, CachedIsStored, ReportedIsStored, Own, Success, StoppedIsDone, AllDone
    <3>7. AnswerInHand(r, c)' /\ FileIsPast(r, c)'
      BY <1>1, <1>2, <3>1 DEF Sound, AnswerInHand, FileIsPast
    <3>8. CallsPerRound(r, c)'
      BY <1>1, <1>2, <3>1, Tables, LedgerAssumption DEF Sound, CallsPerRound
    <3> QED BY <3>4, <3>5, <3>6, <3>7, <3>8 DEF Sound
  <2>2. CASE ReusableRecord(r, c) = None
    <3>1. /\ env'[r][c] = env[r][c] /\ cache'[r][c] = cache[r][c]
          /\ pc[r][c] \in {"queued", "pacing"}
          /\ \/ pc'[r][c] = "pacing" /\ calls'[r][c] = calls[r][c]
             \/ pc'[r][c] = "calling" /\ calls'[r][c] = calls[r][c] + 1
      BY <1>1, <2>2, LookupStep
    <3>2. ~(c \in CrossRun /\ (Success(db[c]) \/ Success(cache[r][c])))
      BY <2>2, LookupFacts
    <3>3. /\ PrivateIsOwn(r, c)' /\ AnswerInHand(r, c)' /\ FileIsPast(r, c)'
          /\ CachedIsStored(r, c)' /\ ReportedIsStored(r, c)'
      BY <1>1, <1>2, <3>1
         DEF Sound, PrivateIsOwn, AnswerInHand, FileIsPast, CachedIsStored,
             ReportedIsStored, Own
    <3>4. DurableIsFound(r, c)'
      BY <1>1, <1>2, <3>2 DEF Sound, DurableIsFound
    <3>5. CallsPerRound(r, c)'
      BY <1>1, <1>2, <3>1, Tables, LedgerAssumption DEF Sound, CallsPerRound
    <3> QED BY <3>3, <3>4, <3>5 DEF Sound
  <2> QED BY <2>1, <2>2
<1>4. \A o \in Runs, d \in Contracts : Sound(o, d)'
  <2> SUFFICES ASSUME NEW o \in Runs, NEW d \in Contracts, o # r \/ d # c
               PROVE  Sound(o, d)'
    BY <1>3
  <2>1. /\ pc'[o][d] = pc[o][d] /\ env'[o][d] = env[o][d]
        /\ calls'[o][d] = calls[o][d] /\ cache'[o][d] = cache[o][d]
    BY <1>1, LookupStep
  <2> QED BY <1>2, <2>1, SoundStays DEF LedgerInd
<1>5. TypeOK'
  <2>1. calls' \in [Runs -> [Contracts -> 0 .. Rounds + 1]]
    <3>1. calls' \in [Runs -> [Contracts -> Nat]] /\ rounds' \in [Runs -> Nat]
      BY <1>1, <1>2, LookupStep, Tables
    <3>2. \A o \in Runs, d \in Contracts : calls'[o][d] + rounds'[o] <= Rounds + 1
      BY <1>4, <3>1, LedgerAssumption DEF Sound, CallsPerRound
    <3> QED BY <3>1, <3>2, CallsType
  <2> QED BY <1>1, <1>2, <2>1, LookupStep DEF TypeOK, PC, Rec
<1>6. StoppedIsDone'
  <2>1. pc[r][c] # "done"
    BY <1>1, LookupStep
  <2>2. phase[r] \notin {"finished", "down"}
    BY <1>1, <2>1 DEF StoppedIsDone, AllDone
  <2>3. \A o \in Runs \ {r} : \A d \in Contracts : pc'[o][d] = pc[o][d]
    BY <1>1, LookupStep
  <2> QED BY <1>1, <1>2, <2>2, <2>3 DEF StoppedIsDone, AllDone
<1> QED BY <1>4, <1>5, <1>6 DEF LedgerInd

\* The provider's answer is a record of this incarnation.
LEMMA AnswerSound ==
    ASSUME LedgerInd, NEW r \in Runs, NEW c \in Contracts, NEW s \in Outcomes,
           Answer(r, c, s)
    PROVE  LedgerInd'
<1> DEFINE rec == [status |-> s, run |-> r, start |-> start[r]]
<1>1. TypeOK /\ Sound(r, c) /\ StoppedIsDone
  BY DEF LedgerInd
<1>2. rec \in Rec /\ Own(r, rec)
  BY <1>1, LedgerAssumption DEF TypeOK, Rec, Record, None, Own
<1>3. /\ env' = [env EXCEPT ![r][c] = rec] /\ pc' = [pc EXCEPT ![r][c] = "answered"]
      /\ UNCHANGED <<db, file, cache, current, phase, start, rounds, calls, durable>>
      /\ pc[r][c] = "calling"
  BY DEF Answer
<1> HIDE DEF rec
<1>4. /\ env' \in [Runs -> [Contracts -> Rec]] /\ env'[r][c] = rec
      /\ \A o \in Runs, d \in Contracts : o # r \/ d # c => env'[o][d] = env[o][d]
  BY <1>1, <1>2, <1>3, Tables, EntryUpdate
<1>5. /\ pc' \in [Runs -> [Contracts -> PC]] /\ pc'[r][c] = "answered"
      /\ \A o \in Runs, d \in Contracts : o # r \/ d # c => pc'[o][d] = pc[o][d]
  <2>1. "answered" \in PC
    BY DEF PC
  <2> QED BY <1>1, <1>3, <2>1, Tables, EntryUpdate
<1>6. Sound(r, c)'
  BY <1>1, <1>2, <1>3, <1>4, <1>5
     DEF Sound, AnswerInHand, FileIsPast, PrivateIsOwn, DurableIsFound, CachedIsStored,
         ReportedIsStored, CallsPerRound, Own
<1>7. \A o \in Runs, d \in Contracts : Sound(o, d)'
  BY <1>3, <1>4, <1>5, <1>6, SoundStays DEF LedgerInd
<1>8. TypeOK'
  BY <1>1, <1>3, <1>4, <1>5 DEF TypeOK, PC, Rec
<1>9. StoppedIsDone'
  BY <1>1, <1>3, <1>5 DEF StoppedIsDone, AllDone
<1> QED BY <1>7, <1>8, <1>9 DEF LedgerInd

\* The first half of append files a record of this incarnation.
LEMMA AppendSound ==
    ASSUME LedgerInd, NEW r \in Runs, NEW c \in Contracts, AppendToLedger(r, c)
    PROVE  LedgerInd'
<1> DEFINE rec == env[r][c]
<1>1. TypeOK /\ Sound(r, c) /\ StoppedIsDone
  BY DEF LedgerInd
<1>2. rec \in Rec
  BY <1>1, Tables
<1>3. /\ cache' = [cache EXCEPT ![r][c] = rec] /\ file' = [file EXCEPT ![r][c] = rec]
      /\ pc' = [pc EXCEPT ![r][c] = "filed"]
      /\ current' = [current EXCEPT ![r] = @ \cup {c}]
      /\ UNCHANGED <<db, env, phase, start, rounds, calls, durable>>
      /\ pc[r][c] = "answered"
  BY DEF AppendToLedger
<1>0. env[r][c] = rec
  OBVIOUS
<1> HIDE DEF rec
<1>4. /\ cache' \in [Runs -> [Contracts -> Rec]] /\ cache'[r][c] = rec
      /\ \A o \in Runs, d \in Contracts : o # r \/ d # c => cache'[o][d] = cache[o][d]
  BY <1>1, <1>2, <1>3, Tables, EntryUpdate
<1>5. /\ file' \in [Runs -> [Contracts -> Rec]] /\ file'[r][c] = rec
      /\ \A o \in Runs, d \in Contracts : o # r \/ d # c => file'[o][d] = file[o][d]
  BY <1>1, <1>2, <1>3, Tables, EntryUpdate
<1>6. /\ pc' \in [Runs -> [Contracts -> PC]] /\ pc'[r][c] = "filed"
      /\ \A o \in Runs, d \in Contracts : o # r \/ d # c => pc'[o][d] = pc[o][d]
  <2>1. "filed" \in PC
    BY DEF PC
  <2> QED BY <1>1, <1>3, <2>1, Tables, EntryUpdate
<1>7. /\ current' \in [Runs -> SUBSET Contracts]
      /\ \A o \in Runs, d \in Contracts :
            (o # r \/ d # c) /\ d \in current'[o] => d \in current[o]
  BY <1>1, <1>3, Tables
<1>8. Sound(r, c)'
  <2>1. Own(r, rec)
    BY <1>0, <1>1, <1>3 DEF Sound, AnswerInHand
  <2>2. start[r] \in Nat
    BY <1>1, Tables
  <2>3. AnswerInHand(r, c)' /\ FileIsPast(r, c)' /\ PrivateIsOwn(r, c)'
    BY <1>0, <1>3, <1>4, <1>5, <2>1, <2>2 DEF AnswerInHand, FileIsPast, PrivateIsOwn, Own
  <2>4. DurableIsFound(r, c)' /\ CachedIsStored(r, c)' /\ ReportedIsStored(r, c)'
    BY <1>0, <1>1, <1>3, <1>4, <1>6
       DEF Sound, DurableIsFound, CachedIsStored, ReportedIsStored
  <2>5. CallsPerRound(r, c)'
    BY <1>1, <1>3, <1>6 DEF Sound, CallsPerRound
  <2> QED BY <2>3, <2>4, <2>5 DEF Sound
<1>9. \A o \in Runs, d \in Contracts : Sound(o, d)'
  BY <1>3, <1>4, <1>5, <1>6, <1>7, <1>8, SoundStays DEF LedgerInd
<1>10. TypeOK'
  BY <1>1, <1>3, <1>4, <1>5, <1>6, <1>7 DEF TypeOK, PC, Rec
<1>11. StoppedIsDone'
  BY <1>1, <1>3, <1>6 DEF StoppedIsDone, AllDone
<1> QED BY <1>9, <1>10, <1>11 DEF LedgerInd

\* The other half of append: a row of the store changes to a record that is there,
\* and not from a success to a failure.
LEMMA StoredStep ==
    ASSUME LedgerInd, NEW r \in Runs, NEW c \in Contracts, AppendToStore(r, c)
    PROVE  /\ db' \in [Contracts -> Rec]
           /\ env[r][c] # None
           /\ \A d \in Contracts : d # c => db'[d] = db[d]
           /\ \/ db' = db /\ Success(db[c]) /\ ~Success(env[r][c])
              \/ db'[c] = env[r][c] /\ (Success(db[c]) => Success(env[r][c]))
<1>1. TypeOK /\ Sound(r, c)
  BY DEF LedgerInd
<1>2. env[r][c] \in Rec /\ db \in [Contracts -> Rec]
  BY <1>1, Tables
<1>3. env[r][c] # None
  BY <1>1 DEF AppendToStore, Sound, AnswerInHand, Own
<1>4. CASE Success(db[c]) /\ ~Success(env[r][c])
  BY <1>2, <1>3, <1>4 DEF AppendToStore
<1>5. CASE ~(Success(db[c]) /\ ~Success(env[r][c]))
  <2>1. db' = [db EXCEPT ![c] = env[r][c]]
    BY <1>5 DEF AppendToStore
  <2> QED BY <1>2, <1>3, <1>5, <2>1
<1> QED BY <1>4, <1>5

\* The upsert stores the success that cache and envelope already show.
LEMMA StoreSound ==
    ASSUME LedgerInd, NEW r \in Runs, NEW c \in Contracts, AppendToStore(r, c)
    PROVE  LedgerInd'
<1>1. TypeOK /\ Sound(r, c) /\ StoppedIsDone
  BY DEF LedgerInd
<1>2. /\ pc' = [pc EXCEPT ![r][c] = "done"] /\ pc[r][c] = "filed"
      /\ UNCHANGED <<file, cache, current, env, phase, start, rounds, calls, durable>>
  BY DEF AppendToStore
<1>3. /\ db' \in [Contracts -> Rec]
      /\ \A d \in Contracts : Success(db[d]) => Success(db'[d])
      /\ Success(env[r][c]) => Success(db'[c])
  BY StoredStep DEF Success
<1>4. /\ pc' \in [Runs -> [Contracts -> PC]] /\ pc'[r][c] = "done"
      /\ \A o \in Runs, d \in Contracts : o # r \/ d # c => pc'[o][d] = pc[o][d]
  <2>1. "done" \in PC
    BY DEF PC
  <2> QED BY <1>1, <1>2, <2>1, Tables, EntryUpdate
<1>5. Sound(r, c)'
  BY <1>1, <1>2, <1>3, <1>4
     DEF Sound, AnswerInHand, FileIsPast, PrivateIsOwn, DurableIsFound, CachedIsStored,
         ReportedIsStored, CallsPerRound, Own, Success
<1>6. \A o \in Runs, d \in Contracts : Sound(o, d)'
  BY <1>2, <1>3, <1>4, <1>5, SoundStays DEF LedgerInd
<1>7. TypeOK'
  BY <1>1, <1>2, <1>3, <1>4 DEF TypeOK, PC, Rec
<1>8. StoppedIsDone'
  BY <1>1, <1>2, <1>4 DEF StoppedIsDone, AllDone
<1> QED BY <1>6, <1>7, <1>8 DEF LedgerInd

\* A store error takes the envelope away and ends the run's claims.
LEMMA StoreFailsSound ==
    ASSUME LedgerInd, NEW r \in Runs, NEW c \in Contracts, StoreFails(r, c)
    PROVE  LedgerInd'
<1>1. TypeOK /\ Sound(r, c) /\ StoppedIsDone
  BY DEF LedgerInd
<1>2. /\ pc' = [pc EXCEPT ![r][c] = "done"] /\ env' = [env EXCEPT ![r][c] = None]
      /\ phase' = [phase EXCEPT ![r] = "failed"] /\ pc[r][c] = "filed"
      /\ UNCHANGED <<db, file, cache, current, start, rounds, calls, durable>>
  BY DEF StoreFails
<1>3. /\ env' \in [Runs -> [Contracts -> Rec]] /\ env'[r][c] = None
      /\ \A o \in Runs, d \in Contracts : o # r \/ d # c => env'[o][d] = env[o][d]
  <2>1. None \in Rec
    BY DEF Rec
  <2> QED BY <1>1, <1>2, <2>1, Tables, EntryUpdate
<1>4. /\ pc' \in [Runs -> [Contracts -> PC]] /\ pc'[r][c] = "done"
      /\ \A o \in Runs, d \in Contracts : o # r \/ d # c => pc'[o][d] = pc[o][d]
  <2>1. "done" \in PC
    BY DEF PC
  <2> QED BY <1>1, <1>2, <2>1, Tables, EntryUpdate
<1>5. /\ phase' \in [Runs -> {"down", "running", "finished", "failed"}]
      /\ \A o \in Runs : phase'[o] = phase[o] \/ phase'[o] = "failed"
      /\ phase'[r] = "failed"
  BY <1>1, <1>2, Tables
<1>6. Sound(r, c)'
  BY <1>1, <1>2, <1>3, <1>4, <1>5
     DEF Sound, AnswerInHand, FileIsPast, PrivateIsOwn, DurableIsFound, CachedIsStored,
         ReportedIsStored, CallsPerRound, Own
<1>7. \A o \in Runs, d \in Contracts : Sound(o, d)'
  BY <1>2, <1>3, <1>4, <1>5, <1>6, SoundStays DEF LedgerInd
<1>8. TypeOK'
  BY <1>1, <1>2, <1>3, <1>4, <1>5 DEF TypeOK, PC, Rec
<1>9. StoppedIsDone'
  BY <1>1, <1>2, <1>4, <1>5 DEF StoppedIsDone, AllDone
<1> QED BY <1>7, <1>8, <1>9 DEF LedgerInd

\* A step of the run as a whole sets the entries of all its chunks.
LEMMA RowUpdate ==
    ASSUME NEW T, NEW f \in [Runs -> [Contracts -> T]], NEW r \in Runs,
           NEW row \in [Contracts -> T], NEW g, g = [f EXCEPT ![r] = row]
    PROVE  /\ g \in [Runs -> [Contracts -> T]] /\ g[r] = row
           /\ \A o \in Runs \ {r} : g[o] = f[o]
OBVIOUS

\* A retry round spends one of the rounds and queues chunks without a success.
LEMMA RetrySound ==
    ASSUME LedgerInd, NEW r \in Runs, RetryRound(r)
    PROVE  LedgerInd'
<1> DEFINE row == [c \in Contracts |-> IF c \in Retryable(r) THEN "queued" ELSE "done"]
<1>1. TypeOK /\ StoppedIsDone /\ \A c \in Contracts : Sound(r, c)
  BY DEF LedgerInd
<1>2. /\ phase[r] = "running" /\ \A c \in Contracts : pc[r][c] = "done"
      /\ rounds[r] > 0
      /\ rounds' = [rounds EXCEPT ![r] = @ - 1] /\ pc' = [pc EXCEPT ![r] = row]
      /\ UNCHANGED <<db, file, cache, current, env, phase, start, calls, durable>>
  BY DEF RetryRound, AllDone
<1>3. /\ row \in [Contracts -> PC]
      /\ \A c \in Contracts : row[c] \in {"queued", "done"}
  BY DEF PC
<1> HIDE DEF row
<1>4. /\ pc' \in [Runs -> [Contracts -> PC]] /\ pc'[r] = row
      /\ \A o \in Runs \ {r} : pc'[o] = pc[o]
  BY <1>1, <1>2, <1>3, Tables, RowUpdate
<1>5. /\ rounds' \in [Runs -> 0 .. Rounds] /\ rounds'[r] = rounds[r] - 1
      /\ rounds[r] \in Nat /\ \A o \in Runs \ {r} : rounds'[o] = rounds[o]
  BY <1>1, <1>2, LedgerAssumption DEF TypeOK
<1>6. ASSUME NEW c \in Contracts PROVE Sound(r, c)'
  <2>1. Sound(r, c) /\ pc'[r][c] \in {"queued", "done"} /\ pc[r][c] = "done"
    BY <1>1, <1>2, <1>3, <1>4
  <2>2. CallsPerRound(r, c)'
    BY <1>1, <1>2, <1>5, <2>1, Tables, LedgerAssumption DEF Sound, CallsPerRound
  <2> QED BY <1>2, <2>1, <2>2
             DEF Sound, AnswerInHand, FileIsPast, PrivateIsOwn, DurableIsFound,
                 CachedIsStored, ReportedIsStored, Own
<1>7. \A o \in Runs, d \in Contracts : Sound(o, d)'
  BY <1>2, <1>4, <1>5, <1>6, SoundStays DEF LedgerInd
<1>8. TypeOK'
  BY <1>1, <1>2, <1>4, <1>5 DEF TypeOK, PC, Rec
<1>9. StoppedIsDone'
  BY <1>1, <1>2, <1>4 DEF StoppedIsDone, AllDone
<1> QED BY <1>7, <1>8, <1>9 DEF LedgerInd

\* A run that finishes changes nothing but its state.
LEMMA FinishSound ==
    ASSUME LedgerInd, NEW r \in Runs, Finish(r)
    PROVE  LedgerInd'
<1>1. TypeOK /\ StoppedIsDone /\ \A o \in Runs, d \in Contracts : Sound(o, d)
  BY DEF LedgerInd
<1>2. /\ phase[r] = "running" /\ AllDone(r)
      /\ phase' = [phase EXCEPT ![r] = "finished"]
      /\ UNCHANGED <<db, file, cache, current, pc, env, start, rounds, calls, durable>>
  BY DEF Finish
<1>3. \A o \in Runs, d \in Contracts : Sound(o, d)'
  BY <1>1, <1>2, SoundStays, Tables
<1>4. TypeOK'
  BY <1>1, <1>2 DEF TypeOK
<1>5. StoppedIsDone'
  BY <1>1, <1>2, Tables DEF StoppedIsDone, AllDone
<1> QED BY <1>3, <1>4, <1>5 DEF LedgerInd

\* A new incarnation owns no record yet and finds what was durable in the file or
\* the store.
LEMMA StartSound ==
    ASSUME LedgerInd, NEW r \in Runs, StartRun(r)
    PROVE  LedgerInd'
<1>1. TypeOK /\ StoppedIsDone /\ \A o \in Runs, d \in Contracts : Sound(o, d)
  BY DEF LedgerInd
<1>2. /\ cache' = [cache EXCEPT ![r] = file[r]]
      /\ pc' = [pc EXCEPT ![r] = [c \in Contracts |-> "queued"]]
      /\ env' = [env EXCEPT ![r] = [c \in Contracts |-> None]]
      /\ calls' = [calls EXCEPT ![r] = [c \in Contracts |-> 0]]
      /\ UNCHANGED <<db, file>>
  BY DEF StartRun
<1>3. /\ cache' \in [Runs -> [Contracts -> Rec]] /\ cache'[r] = file[r]
      /\ \A o \in Runs \ {r} : cache'[o] = cache[o]
  BY <1>1, <1>2, Tables, RowUpdate
<1>4. /\ pc' \in [Runs -> [Contracts -> PC]]
      /\ \A c \in Contracts : pc'[r][c] = "queued"
      /\ \A o \in Runs \ {r} : pc'[o] = pc[o]
  <2>1. [c \in Contracts |-> "queued"] \in [Contracts -> PC]
    BY DEF PC
  <2> QED BY <1>1, <1>2, <2>1, Tables
<1>5. /\ env' \in [Runs -> [Contracts -> Rec]]
      /\ \A c \in Contracts : env'[r][c] = None
      /\ \A o \in Runs \ {r} : env'[o] = env[o]
  <2>1. [c \in Contracts |-> None] \in [Contracts -> Rec]
    BY DEF Rec
  <2> QED BY <1>1, <1>2, <2>1, Tables
<1>6. /\ calls' \in [Runs -> [Contracts -> 0 .. Rounds + 1]]
      /\ \A c \in Contracts : calls'[r][c] = 0
      /\ \A o \in Runs \ {r} : calls'[o] = calls[o]
  BY <1>1, <1>2, LedgerAssumption DEF TypeOK
<1>7. /\ current' \in [Runs -> SUBSET Contracts] /\ current'[r] = {}
      /\ \A o \in Runs \ {r} : current'[o] = current[o]
  BY <1>1, Tables DEF StartRun
<1>8. /\ durable' \in [Runs -> SUBSET Contracts]
      /\ durable'[r] = {c \in CrossRun : Success(db[c]) \/ Success(file[r][c])}
      /\ \A o \in Runs \ {r} : durable'[o] = durable[o]
  BY <1>1, Tables, LedgerAssumption DEF StartRun
<1>9. /\ phase' \in [Runs -> {"down", "running", "finished", "failed"}]
      /\ phase'[r] = "running" /\ \A o \in Runs \ {r} : phase'[o] = phase[o]
      /\ start' \in [Runs -> Nat] /\ start'[r] = start[r] + 1
      /\ \A o \in Runs \ {r} : start'[o] = start[o]
  BY <1>1, Tables DEF StartRun
<1>10. /\ rounds' \in [Runs -> 0 .. Rounds] /\ rounds'[r] = Rounds
       /\ \A o \in Runs \ {r} : rounds'[o] = rounds[o]
  BY <1>1, LedgerAssumption DEF StartRun, TypeOK
<1>11. ASSUME NEW c \in Contracts PROVE Sound(r, c)'
  <2>1. file[r][c] \in Rec /\ start[r] \in Nat
    BY <1>1, Tables
  <2>2. file[r][c] # None => file[r][c].start \in Nat /\ file[r][c].start <= start[r]
    BY <1>1, <2>1 DEF Sound, FileIsPast, Rec, Record, None
  <2>3. FileIsPast(r, c)' /\ CachedIsStored(r, c)'
    BY <1>2, <1>3, <1>9, <2>1, <2>2 DEF FileIsPast, CachedIsStored, Own
  <2>4. DurableIsFound(r, c)'
    BY <1>2, <1>3, <1>4, <1>6, <1>8 DEF DurableIsFound, Success
  <2>5. /\ AnswerInHand(r, c)' /\ PrivateIsOwn(r, c)' /\ ReportedIsStored(r, c)'
    BY <1>4, <1>5, <1>7 DEF AnswerInHand, PrivateIsOwn, ReportedIsStored
  <2>6. CallsPerRound(r, c)'
    BY <1>4, <1>6, <1>10, LedgerAssumption DEF CallsPerRound
  <2> QED BY <2>3, <2>4, <2>5, <2>6 DEF Sound
<1>12. \A o \in Runs, d \in Contracts : Sound(o, d)'
  <2> SUFFICES ASSUME NEW o \in Runs \ {r}, NEW d \in Contracts PROVE Sound(o, d)'
    BY <1>11
  <2>1. /\ pc'[o] = pc[o] /\ env'[o] = env[o] /\ cache'[o] = cache[o]
        /\ calls'[o] = calls[o] /\ current'[o] = current[o] /\ durable'[o] = durable[o]
        /\ phase'[o] = phase[o] /\ start'[o] = start[o] /\ rounds'[o] = rounds[o]
    BY <1>3, <1>4, <1>5, <1>6, <1>7, <1>8, <1>9, <1>10
  <2> QED BY <1>1, <1>2, <2>1, SoundStays
<1>13. TypeOK'
  BY <1>1, <1>2, <1>3, <1>4, <1>5, <1>6, <1>7, <1>8, <1>9, <1>10 DEF TypeOK, PC, Rec
<1>14. StoppedIsDone'
  BY <1>1, <1>4, <1>9 DEF StoppedIsDone, AllDone
<1> QED BY <1>12, <1>13, <1>14 DEF LedgerInd

\* A crash leaves nothing in memory, so nothing in memory can be wrong.
LEMMA CrashSound ==
    ASSUME LedgerInd, NEW r \in Runs, Crash(r)
    PROVE  LedgerInd'
<1>1. TypeOK /\ StoppedIsDone /\ \A o \in Runs, d \in Contracts : Sound(o, d)
  BY DEF LedgerInd
<1>2. /\ pc' = [pc EXCEPT ![r] = [c \in Contracts |-> "done"]]
      /\ env' = [env EXCEPT ![r] = [c \in Contracts |-> None]]
      /\ cache' = [cache EXCEPT ![r] = [c \in Contracts |-> None]]
      /\ calls' = [calls EXCEPT ![r] = [c \in Contracts |-> 0]]
      /\ UNCHANGED <<db, file, start>>
  BY DEF Crash
<1>3. /\ pc' \in [Runs -> [Contracts -> PC]]
      /\ \A c \in Contracts : pc'[r][c] = "done"
      /\ \A o \in Runs \ {r} : pc'[o] = pc[o]
  <2>1. [c \in Contracts |-> "done"] \in [Contracts -> PC]
    BY DEF PC
  <2> QED BY <1>1, <1>2, <2>1, Tables
<1>4. /\ env' \in [Runs -> [Contracts -> Rec]] /\ cache' \in [Runs -> [Contracts -> Rec]]
      /\ \A c \in Contracts : env'[r][c] = None /\ cache'[r][c] = None
      /\ \A o \in Runs \ {r} : env'[o] = env[o] /\ cache'[o] = cache[o]
  <2>1. [c \in Contracts |-> None] \in [Contracts -> Rec]
    BY DEF Rec
  <2> QED BY <1>1, <1>2, <2>1, Tables
<1>5. /\ calls' \in [Runs -> [Contracts -> 0 .. Rounds + 1]]
      /\ \A c \in Contracts : calls'[r][c] = 0
      /\ \A o \in Runs \ {r} : calls'[o] = calls[o]
  BY <1>1, <1>2, LedgerAssumption DEF TypeOK
<1>6. /\ current' \in [Runs -> SUBSET Contracts] /\ durable' \in [Runs -> SUBSET Contracts]
      /\ current'[r] = {} /\ durable'[r] = {}
      /\ \A o \in Runs \ {r} : current'[o] = current[o] /\ durable'[o] = durable[o]
  BY <1>1, Tables DEF Crash
<1>7. /\ phase' \in [Runs -> {"down", "running", "finished", "failed"}]
      /\ phase'[r] = "down" /\ \A o \in Runs \ {r} : phase'[o] = phase[o]
      /\ rounds' \in [Runs -> 0 .. Rounds] /\ rounds'[r] = 0
      /\ \A o \in Runs \ {r} : rounds'[o] = rounds[o]
  BY <1>1, LedgerAssumption DEF Crash, TypeOK
<1>8. ASSUME NEW c \in Contracts PROVE Sound(r, c)'
  <2>1. /\ AnswerInHand(r, c)' /\ PrivateIsOwn(r, c)' /\ DurableIsFound(r, c)'
        /\ CachedIsStored(r, c)' /\ ReportedIsStored(r, c)'
    BY <1>3, <1>4, <1>6, <1>7
       DEF AnswerInHand, PrivateIsOwn, DurableIsFound, CachedIsStored, ReportedIsStored
  <2>2. FileIsPast(r, c)'
    BY <1>1, <1>2 DEF Sound, FileIsPast
  <2>3. CallsPerRound(r, c)'
    BY <1>3, <1>5, <1>7, LedgerAssumption DEF CallsPerRound
  <2> QED BY <2>1, <2>2, <2>3 DEF Sound
<1>9. \A o \in Runs, d \in Contracts : Sound(o, d)'
  <2> SUFFICES ASSUME NEW o \in Runs \ {r}, NEW d \in Contracts PROVE Sound(o, d)'
    BY <1>8
  <2> QED BY <1>1, <1>2, <1>3, <1>4, <1>5, <1>6, <1>7, SoundStays
<1>10. TypeOK'
  BY <1>1, <1>2, <1>3, <1>4, <1>5, <1>6, <1>7 DEF TypeOK, PC, Rec
<1>11. StoppedIsDone'
  BY <1>1, <1>3, <1>7 DEF StoppedIsDone, AllDone
<1> QED BY <1>9, <1>10, <1>11 DEF LedgerInd

\* Nothing has run yet.
LEMMA IndInit == Init => LedgerInd
<1> SUFFICES ASSUME Init PROVE LedgerInd
  OBVIOUS
<1>1. TypeOK
  BY LedgerAssumption DEF Init, TypeOK
<1>2. \A r \in Runs, c \in Contracts : Sound(r, c)
  BY LedgerAssumption
     DEF Init, Sound, AnswerInHand, FileIsPast, PrivateIsOwn, DurableIsFound,
         CachedIsStored, ReportedIsStored, CallsPerRound
<1> QED BY <1>1, <1>2 DEF LedgerInd, Init, StoppedIsDone, AllDone

\* Every step of every run keeps every chunk sound.
LEMMA IndNext == LedgerInd /\ [Next]_vars => LedgerInd'
<1> SUFFICES ASSUME LedgerInd, [Next]_vars PROVE LedgerInd'
  OBVIOUS
<1>1. CASE UNCHANGED vars
  <2>1. TypeOK' /\ StoppedIsDone'
    BY <1>1 DEF vars, LedgerInd, TypeOK, StoppedIsDone, AllDone
  <2>2. \A r \in Runs, c \in Contracts : Sound(r, c)'
    BY <1>1, SoundStays DEF vars, LedgerInd
  <2> QED BY <2>1, <2>2 DEF LedgerInd
<1>2. CASE Next
  BY <1>2, LookupSound, AnswerSound, AppendSound, StoreSound, StoreFailsSound, RetrySound,
     FinishSound, StartSound, CrashSound DEF Next, Thread
<1> QED BY <1>1, <1>2

\* LedgerInv for every value of the constants: types, a private chunk answered by
\* this incarnation's own call, no second call for what was stored, and no success
\* of the run's own that the store has not got.
THEOREM LedgerIsSound == Spec => []LedgerInv
<1>1. LedgerInd => LedgerInv
  <2> SUFFICES ASSUME LedgerInd PROVE LedgerInv
    OBVIOUS
  <2>1. OwnAnswersOnly
    BY DEF LedgerInd, Sound, PrivateIsOwn, OwnAnswersOnly, Own
  <2>2. ResumesOnlyUnfinished
    BY DEF LedgerInd, Sound, DurableIsFound, ResumesOnlyUnfinished, TypeOK
  <2>3. FinishedIsStored
    BY NoneIsNoSuccess
       DEF LedgerInd, Sound, ReportedIsStored, FinishedIsStored, StoppedIsDone, AllDone, Own
  <2> QED BY <2>1, <2>2, <2>3 DEF LedgerInv, LedgerInd
<1> QED BY <1>1, IndInit, IndNext, PTL DEF Spec

-------------------------------------------------------------------------------
(* Giving up.                                                                *)

\* Without the reuse of failed records a chunk that may be tried again has been
\* called in every round so far.
CalledEveryRound(r, c) ==
    phase[r] \in {"running", "finished"} =>
        /\ pc[r][c] \in {"queued", "pacing"} => calls[r][c] + rounds[r] = Rounds
        /\ pc[r][c] \in {"calling", "answered", "filed"}
               => calls[r][c] + rounds[r] = Rounds + 1
        /\ pc[r][c] = "done" /\ c \in Retryable(r)
               => calls[r][c] + rounds[r] = Rounds + 1

\* A finished run had no round left, or nothing left to retry.
EndedForAReason(r) == phase[r] = "finished" => rounds[r] = 0 \/ Retryable(r) = {}

RoundsInd ==
    /\ \A r \in Runs, c \in Contracts : CalledEveryRound(r, c)
    /\ \A r \in Runs : EndedForAReason(r)

\* A step of one thread, or a store error that ends its run, leaves the counts of
\* the other chunks alone, and no finished run has a thread.
LEMMA ThreadCounted ==
    ASSUME LedgerInd, RoundsInd, NEW r \in Runs, NEW c \in Contracts,
           rounds' = rounds, pc[r][c] # "done",
           \A o \in Runs : phase'[o] = phase[o] \/ phase'[o] = "failed",
           \A o \in Runs, d \in Contracts : o # r \/ d # c =>
               /\ pc'[o][d] = pc[o][d] /\ env'[o][d] = env[o][d]
               /\ calls'[o][d] = calls[o][d],
           CalledEveryRound(r, c)'
    PROVE  RoundsInd'
<1>1. \A o \in Runs, d \in Contracts : CalledEveryRound(o, d)'
  BY DEF RoundsInd, CalledEveryRound, Retryable, Success
<1>2. phase[r] # "finished"
  BY DEF LedgerInd, StoppedIsDone, AllDone
<1>3. \A o \in Runs : EndedForAReason(o)'
  BY <1>2 DEF RoundsInd, EndedForAReason, Retryable, Success
<1> QED BY <1>1, <1>3 DEF RoundsInd

\* A step of one run leaves the other runs' counts alone.
LEMMA RunCounted ==
    ASSUME RoundsInd, NEW r \in Runs,
           \A o \in Runs \ {r} :
               /\ pc'[o] = pc[o] /\ env'[o] = env[o] /\ calls'[o] = calls[o]
               /\ phase'[o] = phase[o] /\ rounds'[o] = rounds[o],
           \A c \in Contracts : CalledEveryRound(r, c)', EndedForAReason(r)'
    PROVE  RoundsInd'
BY DEF RoundsInd, CalledEveryRound, EndedForAReason, Retryable, Success

\* Every step keeps the call count of a retryable chunk at the rounds so far.
LEMMA RoundsNext ==
    ASSUME ~ReuseFailed, LedgerInd, RoundsInd, [Next]_vars
    PROVE  RoundsInd'
<1>1. TypeOK
  BY DEF LedgerInd
<1>2. \A r \in Runs, c \in Contracts : CalledEveryRound(r, c)
  BY DEF RoundsInd
<1>3. ASSUME NEW r \in Runs, NEW c \in Contracts, Lookup(r, c) PROVE RoundsInd'
  <2>1. /\ UNCHANGED <<rounds, phase>> /\ pc[r][c] # "done"
    BY <1>3 DEF Lookup
  <2>2. CalledEveryRound(r, c)'
    <3>1. rounds[r] \in Nat /\ calls[r][c] \in Nat
      BY <1>1, Tables
    <3>2. ReusableRecord(r, c) # None => Success(ReusableRecord(r, c))
      BY LookupFacts
    <3>3. /\ pc[r][c] \in {"queued", "pacing"}
          /\ \/ /\ ReusableRecord(r, c) # None
                /\ env'[r][c] = ReusableRecord(r, c) /\ pc'[r][c] = "done"
             \/ pc'[r][c] = "pacing" /\ calls'[r][c] = calls[r][c]
             \/ pc'[r][c] = "calling" /\ calls'[r][c] = calls[r][c] + 1
      BY <1>1, <1>3, LookupStep
    <3>4. pc'[r][c] = "done" => ~ (c \in Retryable(r))'
      BY <3>2, <3>3 DEF Retryable, Success
    <3>5. phase[r] \in {"running", "finished"} => calls[r][c] + rounds[r] = Rounds
      BY <1>2, <3>3 DEF CalledEveryRound
    <3> QED BY <2>1, <3>1, <3>3, <3>4, <3>5, LedgerAssumption DEF CalledEveryRound
  <2>3. \A o \in Runs, d \in Contracts : o # r \/ d # c =>
           /\ pc'[o][d] = pc[o][d] /\ env'[o][d] = env[o][d]
           /\ calls'[o][d] = calls[o][d]
    BY <1>1, <1>3, LookupStep
  <2> QED BY <2>1, <2>2, <2>3, ThreadCounted
<1>4. ASSUME NEW r \in Runs, NEW c \in Contracts, NEW p \in {"answered", "filed"},
             NEW rec \in Rec, pc[r][c] \in {"calling", "answered"},
             pc' = [pc EXCEPT ![r][c] = p], env' = [env EXCEPT ![r][c] = rec],
             UNCHANGED <<calls, rounds, phase>>
      PROVE  RoundsInd'
  <2>1. /\ pc'[r][c] = p
        /\ \A o \in Runs, d \in Contracts : o # r \/ d # c => pc'[o][d] = pc[o][d]
    <3>1. p \in PC
      BY DEF PC
    <3> QED BY <1>1, <1>4, <3>1, Tables, EntryUpdate
  <2>2. \A o \in Runs, d \in Contracts : o # r \/ d # c => env'[o][d] = env[o][d]
    BY <1>1, <1>4, Tables, EntryUpdate
  <2>3. CalledEveryRound(r, c)'
    BY <1>2, <1>4, <2>1 DEF CalledEveryRound
  <2> QED BY <1>4, <2>1, <2>2, <2>3, ThreadCounted
<1>5. ASSUME NEW r \in Runs, NEW c \in Contracts, NEW s \in Outcomes, Answer(r, c, s)
      PROVE  RoundsInd'
  <2> DEFINE rec == [status |-> s, run |-> r, start |-> start[r]]
  <2>1. rec \in Rec
    BY <1>1 DEF TypeOK, Rec, Record
  <2> QED BY <1>4, <1>5, <2>1 DEF Answer
<1>6. ASSUME NEW r \in Runs, NEW c \in Contracts, AppendToLedger(r, c) PROVE RoundsInd'
  <2>1. env[r][c] \in Rec /\ env' = [env EXCEPT ![r][c] = env[r][c]]
    BY <1>1, <1>6, Tables DEF AppendToLedger
  <2> QED BY <1>4, <1>6, <2>1 DEF AppendToLedger
<1>7. ASSUME NEW r \in Runs, NEW c \in Contracts, AppendToStore(r, c) PROVE RoundsInd'
  <2>1. /\ UNCHANGED <<env, calls, rounds, phase>> /\ pc[r][c] = "filed"
        /\ pc' = [pc EXCEPT ![r][c] = "done"]
    BY <1>7 DEF AppendToStore
  <2>2. /\ pc'[r][c] = "done"
        /\ \A o \in Runs, d \in Contracts : o # r \/ d # c => pc'[o][d] = pc[o][d]
    <3>1. "done" \in PC
      BY DEF PC
    <3> QED BY <1>1, <2>1, <3>1, Tables, EntryUpdate
  <2>3. CalledEveryRound(r, c)'
    BY <1>2, <2>1, <2>2 DEF CalledEveryRound
  <2> QED BY <2>1, <2>2, <2>3, ThreadCounted
<1>8. ASSUME NEW r \in Runs, NEW c \in Contracts, StoreFails(r, c) PROVE RoundsInd'
  <2>1. /\ UNCHANGED <<calls, rounds>> /\ pc[r][c] = "filed"
        /\ pc' = [pc EXCEPT ![r][c] = "done"] /\ env' = [env EXCEPT ![r][c] = None]
        /\ phase' = [phase EXCEPT ![r] = "failed"]
    BY <1>8 DEF StoreFails
  <2>2. \A o \in Runs, d \in Contracts : o # r \/ d # c => pc'[o][d] = pc[o][d]
    <3>1. "done" \in PC
      BY DEF PC
    <3> QED BY <1>1, <2>1, <3>1, Tables, EntryUpdate
  <2>3. \A o \in Runs, d \in Contracts : o # r \/ d # c => env'[o][d] = env[o][d]
    <3>1. None \in Rec
      BY DEF Rec
    <3> QED BY <1>1, <2>1, <3>1, Tables, EntryUpdate
  <2>4. /\ phase'[r] = "failed"
        /\ \A o \in Runs : phase'[o] = phase[o] \/ phase'[o] = "failed"
    BY <1>1, <2>1, Tables
  <2>5. CalledEveryRound(r, c)'
    BY <2>4 DEF CalledEveryRound
  <2> QED BY <2>1, <2>2, <2>3, <2>4, <2>5, ThreadCounted
<1>9. ASSUME NEW r \in Runs, RetryRound(r) PROVE RoundsInd'
  <2>1. /\ phase[r] = "running" /\ rounds[r] > 0
        /\ \A c \in Contracts : pc[r][c] = "done"
        /\ UNCHANGED <<env, phase, calls>>
    BY <1>9 DEF RetryRound, AllDone
  <2>2. /\ \A o \in Runs \ {r} : pc'[o] = pc[o] /\ rounds'[o] = rounds[o]
        /\ rounds'[r] = rounds[r] - 1
        /\ \A c \in Contracts : pc'[r][c] = IF c \in Retryable(r) THEN "queued" ELSE "done"
    BY <1>1, <1>9, Tables DEF RetryRound
  <2>3. EndedForAReason(r)'
    BY <2>1 DEF EndedForAReason
  <2>4. ASSUME NEW c \in Contracts PROVE CalledEveryRound(r, c)'
    <3>1. rounds[r] \in Nat /\ calls[r][c] \in Nat
      BY <1>1, Tables
    <3>2. CASE c \in Retryable(r)
      <4>1. pc'[r][c] = "queued"
        BY <2>2, <3>2
      <4>2. calls[r][c] + rounds[r] = Rounds + 1
        BY <1>2, <2>1, <3>2 DEF CalledEveryRound
      <4>3. calls'[r][c] + rounds'[r] = Rounds
        BY <2>1, <2>2, <3>1, <4>2, LedgerAssumption
      <4> QED BY <4>1, <4>3 DEF CalledEveryRound
    <3>3. CASE c \notin Retryable(r)
      <4>1. pc'[r][c] = "done" /\ ~ (c \in Retryable(r))'
        BY <2>1, <2>2, <3>3 DEF Retryable, Success
      <4> QED BY <4>1 DEF CalledEveryRound
    <3> QED BY <3>2, <3>3
  <2> QED BY <2>1, <2>2, <2>3, <2>4, RunCounted
<1>10. ASSUME NEW r \in Runs, Finish(r) PROVE RoundsInd'
  <2>1. /\ phase[r] = "running"
        /\ rounds[r] = 0 \/ Retryable(r) = {}
        /\ UNCHANGED <<pc, env, rounds, calls>>
        /\ \A o \in Runs \ {r} : phase'[o] = phase[o]
    BY <1>1, <1>10, Tables DEF Finish
  <2>2. EndedForAReason(r)'
    BY <2>1 DEF EndedForAReason, Retryable, Success
  <2>3. \A c \in Contracts : CalledEveryRound(r, c)'
    BY <1>2, <2>1 DEF CalledEveryRound, Retryable, Success
  <2> QED BY <2>1, <2>2, <2>3, RunCounted
<1>11. ASSUME NEW r \in Runs, StartRun(r) PROVE RoundsInd'
  <2>1. /\ \A o \in Runs \ {r} :
              /\ pc'[o] = pc[o] /\ env'[o] = env[o] /\ calls'[o] = calls[o]
              /\ phase'[o] = phase[o] /\ rounds'[o] = rounds[o]
        /\ phase'[r] = "running" /\ rounds'[r] = Rounds
        /\ \A c \in Contracts : pc'[r][c] = "queued" /\ calls'[r][c] = 0
    BY <1>1, <1>11, Tables DEF StartRun
  <2>2. EndedForAReason(r)' /\ \A c \in Contracts : CalledEveryRound(r, c)'
    BY <2>1, LedgerAssumption DEF EndedForAReason, CalledEveryRound
  <2> QED BY <2>1, <2>2, RunCounted
<1>12. ASSUME NEW r \in Runs, Crash(r) PROVE RoundsInd'
  <2>1. /\ \A o \in Runs \ {r} :
              /\ pc'[o] = pc[o] /\ env'[o] = env[o] /\ calls'[o] = calls[o]
              /\ phase'[o] = phase[o] /\ rounds'[o] = rounds[o]
        /\ phase'[r] = "down"
    BY <1>1, <1>12, Tables DEF Crash
  <2>2. EndedForAReason(r)' /\ \A c \in Contracts : CalledEveryRound(r, c)'
    BY <2>1 DEF EndedForAReason, CalledEveryRound
  <2> QED BY <2>1, <2>2, RunCounted
<1>13. CASE UNCHANGED vars
  BY <1>13 DEF vars, RoundsInd, CalledEveryRound, EndedForAReason, Retryable, Success
<1> QED
  BY <1>3, <1>5, <1>6, <1>7, <1>8, <1>9, <1>10, <1>11, <1>12, <1>13 DEF Next, Thread

\* Where failed records are not reused (the default), a run that ends with a
\* retryable failure has called the provider for it in every round it has.
THEOREM NoChunkGivenUpEarly == ~ReuseFailed => (Spec => []NoSilentGiveUp)
<1> SUFFICES ASSUME ~ReuseFailed PROVE Spec => []NoSilentGiveUp
  OBVIOUS
<1>1. Init => RoundsInd
  BY DEF Init, RoundsInd, CalledEveryRound, EndedForAReason
<1>2. LedgerInd /\ RoundsInd /\ [Next]_vars => RoundsInd'
  BY RoundsNext
<1>3. LedgerInd /\ RoundsInd => NoSilentGiveUp
  <2> SUFFICES ASSUME LedgerInd, RoundsInd, NEW r \in Runs, NEW c \in Contracts,
                      phase[r] = "finished", c \in Retryable(r)
               PROVE  calls[r][c] = Rounds + 1
    BY DEF NoSilentGiveUp
  <2>1. pc[r][c] = "done"
    BY DEF LedgerInd, StoppedIsDone, AllDone
  <2>2. rounds[r] = 0
    BY DEF RoundsInd, EndedForAReason
  <2>3. calls[r][c] + rounds[r] = Rounds + 1
    BY <2>1 DEF RoundsInd, CalledEveryRound
  <2>4. calls[r][c] \in Nat
    BY Tables DEF LedgerInd
  <2> QED BY <2>2, <2>3, <2>4, LedgerAssumption
<1> QED BY <1>1, <1>2, <1>3, IndInit, IndNext, PTL DEF Spec

-------------------------------------------------------------------------------
(* The store the runs share.                                                 *)

\* A row without a record, with a failure and with a success are told apart.
LEMMA RowResultIs ==
    ASSUME NEW c \in Contracts
    PROVE  /\ RowResult[c] = "ok" <=> Success(db[c])
           /\ db[c] # None =>
                 RowResult[c] = IF Success(db[c]) THEN "ok" ELSE "failed"
BY NoneIsNoSuccess DEF RowResult

\* Whatever runs look up, call, crash and append in whatever order, their store
\* implements ChunkResult: a success stays a success.
THEOREM SharedStoreImplementsResult == Spec => StoreKeepsItsPromise
<1>1. Init => Store!Init
  BY DEF Init, Store!Init, RowResult
<1>2. LedgerInd /\ [Next]_vars => [Store!Next]_RowResult
  <2> SUFFICES ASSUME LedgerInd, [Next]_vars PROVE [Store!Next]_RowResult
    OBVIOUS
  <2>1. ASSUME db' = db PROVE RowResult' = RowResult
    BY <2>1 DEF RowResult
  <2>2. ASSUME NEW r \in Runs, NEW c \in Contracts, AppendToStore(r, c)
        PROVE  [Store!Next]_RowResult
    <3>1. CASE db' = db
      BY <2>1, <3>1
    <3>2. CASE db' # db
      <4> DEFINE res == IF Success(env[r][c]) THEN "ok" ELSE "failed"
      <4>1. /\ db'[c] = env[r][c] /\ env[r][c] # None
            /\ Success(db[c]) => Success(env[r][c])
            /\ \A d \in Contracts : d # c => db'[d] = db[d]
        BY <2>2, <3>2, StoredStep
      <4>2. \A d \in Contracts : RowResult'[d] = IF d = c THEN res ELSE RowResult[d]
        BY <4>1, NoneIsNoSuccess DEF RowResult, Success
      <4>3. RowResult' = [RowResult EXCEPT ![c] = res]
        BY <4>2 DEF RowResult
      <4>4. RowResult[c] = "ok" => res = "ok"
        BY <4>1, RowResultIs
      <4>5. Store!Record(c, res) /\ res \in {"failed", "ok"}
        BY <4>3, <4>4 DEF Store!Record
      <4> QED BY <4>5 DEF Store!Next
    <3> QED BY <3>1, <3>2
  <2> QED BY <2>1, <2>2
             DEF Next, Thread, Lookup, Answer, AppendToLedger, StoreFails, RetryRound,
                 Finish, StartRun, Crash, vars
<1> QED BY <1>1, <1>2, IndInit, IndNext, PTL DEF Spec, StoreKeepsItsPromise, Store!Spec
===============================================================================
