-------------------------- MODULE BackgroundProofs --------------------------
(***************************************************************************)
(* The safety properties of MapCache and Pipelines, for every number of    *)
(* requests, keys, jobs and mishaps, and every size of the cache, and of   *)
(* the composition of MCEventually, in which they run.                     *)
(***************************************************************************)
EXTENDS MCEventually, TLAPS

-----------------------------------------------------------------------------
(* The cache of road routes                                                *)

Distinct(entries) ==
    \A i, j \in 1..Len(entries) : entries[i].pair = entries[j].pair => i = j

\* Making room leaves a place free and keeps one entry per key.
LEMMA RoomFrees ==
    ASSUME NEW entries \in Seq(Entry), Len(entries) <= MaxCacheEntries, Distinct(entries)
    PROVE  /\ Room(entries) \in Seq(Entry)
           /\ Len(Room(entries)) < MaxCacheEntries
           /\ Distinct(Room(entries))
<1>1. CASE Len(entries) >= MaxCacheEntries
  <2>1. entries # <<>>
    BY <1>1, MapCacheAssumption
  <2>2. /\ Tail(entries) \in Seq(Entry)
        /\ Len(Tail(entries)) = Len(entries) - 1
        /\ \A i \in 1..Len(Tail(entries)) : i + 1 \in 1..Len(entries) /\ Tail(entries)[i] = entries[i + 1]
    BY <2>1
  <2>3. Distinct(Tail(entries))
    BY <2>2 DEF Distinct
  <2> QED
    BY <1>1, <2>2, <2>3, MapCacheAssumption DEF Room
<1>2. CASE ~ (Len(entries) >= MaxCacheEntries)
  BY <1>2, MapCacheAssumption DEF Room
<1> QED
  BY <1>1, <1>2

\* Storing an entry replaces the one of its key or takes the free place.
LEMMA PutKeepsBudget ==
    ASSUME NEW entries \in Seq(Entry), NEW e \in Entry,
           Len(entries) < MaxCacheEntries, Distinct(entries)
    PROVE  /\ Put(entries, e) \in Seq(Entry)
           /\ Len(Put(entries, e)) <= MaxCacheEntries
           /\ Distinct(Put(entries, e))
<1>1. CASE \E i \in 1..Len(entries) : entries[i].pair = e.pair
  <2> DEFINE new == [i \in 1..Len(entries) |-> IF entries[i].pair = e.pair THEN e ELSE entries[i]]
  <2>1. Put(entries, e) = new
    BY <1>1 DEF Put
  <2>2. \A i \in 1..Len(entries) : entries[i] \in Entry
    OBVIOUS
  <2>3. new \in Seq(Entry) /\ Len(new) = Len(entries)
    BY <2>2
  <2>4. \A i \in 1..Len(entries) : new[i].pair = entries[i].pair
    OBVIOUS
  <2>5. Distinct(new)
    BY <2>3, <2>4 DEF Distinct
  <2> QED
    BY <2>1, <2>3, <2>5, MapCacheAssumption
<1>2. CASE ~ \E i \in 1..Len(entries) : entries[i].pair = e.pair
  <2>1. Put(entries, e) = Append(entries, e)
    BY <1>2 DEF Put
  <2>2. /\ Append(entries, e) \in Seq(Entry)
        /\ Len(Append(entries, e)) = Len(entries) + 1
        /\ \A i \in 1..Len(entries) : Append(entries, e)[i] = entries[i]
        /\ Append(entries, e)[Len(entries) + 1] = e
    OBVIOUS
  <2>3. Distinct(Append(entries, e))
    BY <1>2, <2>2 DEF Distinct
  <2> QED
    BY <2>1, <2>2, <2>3, MapCacheAssumption
<1> QED
  BY <1>1, <1>2

\* A call under way has a key, and one that waits has an attempt left.
CallInv ==
    \A r \in Request :
        /\ fetch[r].at # "idle" => fetch[r].pair \in Pair
        /\ fetch[r].at = "delayed" => fetch[r].attempt < MaxAttempts

\* The calls, the clock and the cache keep their types, and the cache its budget.
LEMMA MapInvariant == MapInit /\ [][MapNext]_mapVars => [](MapTypeOK /\ CallInv /\ CacheWithinBudget)
<1> DEFINE Inv == MapTypeOK /\ CallInv /\ CacheWithinBudget
<1>1. MapInit => Inv
  BY MapCacheAssumption DEF MapInit, MapTypeOK, CallInv, CacheWithinBudget, Fetch, NoFetch
<1>2. Inv /\ [MapNext]_mapVars => Inv'
  <2> SUFFICES ASSUME Inv, [MapNext]_mapVars PROVE Inv'
    OBVIOUS
  <2>1. ASSUME NEW r \in Request, NEW pair \in Pair, Miss(r, pair) PROVE Inv'
    BY <2>1, MapCacheAssumption DEF Miss, MapTypeOK, CallInv, CacheWithinBudget, Fetch
  <2>2. ASSUME NEW r \in Request, Answer(r) PROVE Inv'
    <3> DEFINE e == [pair |-> fetch[r].pair, expiresAt |-> clock + CacheTtl]
    <3>1. e \in Entry
      BY <2>2, MapCacheAssumption DEF Answer, MapTypeOK, CallInv, Fetch, Entry
    <3>2. cache \in Seq(Entry) /\ Len(cache) <= MaxCacheEntries /\ Distinct(cache)
      BY DEF MapTypeOK, CacheWithinBudget, Distinct
    <3>3. /\ Room(cache) \in Seq(Entry) /\ Len(Room(cache)) < MaxCacheEntries
          /\ Distinct(Room(cache))
      BY <3>2, RoomFrees
    <3>4. /\ Put(Room(cache), e) \in Seq(Entry) /\ Len(Put(Room(cache), e)) <= MaxCacheEntries
          /\ Distinct(Put(Room(cache), e))
      <4> HIDE DEF e
      <4> QED BY <3>1, <3>3, PutKeepsBudget
    <3>5. cache' = Put(Room(cache), e)
      BY <2>2 DEF Answer
    <3>6. CacheWithinBudget' /\ cache' \in Seq(Entry)
      <4> HIDE DEF e
      <4> QED BY <3>4, <3>5 DEF CacheWithinBudget, Distinct
    <3>7. fetch' \in [Request -> Fetch] /\ CallInv'
      BY <2>2, MapCacheAssumption DEF Answer, MapTypeOK, CallInv, Fetch, NoFetch
    <3> QED
      BY <2>2, <3>6, <3>7 DEF Answer, MapTypeOK
  <2>3. ASSUME NEW r \in Request, Refusal(r) PROVE Inv'
    BY <2>3, MapCacheAssumption
       DEF Refusal, MapTypeOK, CallInv, CacheWithinBudget, Fetch, NoFetch
  <2>4. ASSUME NEW r \in Request, TryAgain(r) PROVE Inv'
    BY <2>4, MapCacheAssumption DEF TryAgain, MapTypeOK, CallInv, CacheWithinBudget, Fetch
  <2>5. CASE Elapse
    BY <2>5 DEF Elapse, MapTypeOK, CallInv, CacheWithinBudget
  <2>6. CASE UNCHANGED mapVars
    BY <2>6 DEF mapVars, MapTypeOK, CallInv, CacheWithinBudget
  <2> QED
    BY <2>1, <2>2, <2>3, <2>4, <2>5, <2>6 DEF MapNext
<1> QED
  BY <1>1, <1>2, PTL

\* Calls, entries and the clock keep their types.
THEOREM MapTypeCorrect == MapSpec => []MapTypeOK
  BY MapInvariant, PTL DEF MapSpec

\* The cache never holds more than its budget, nor two entries of one key, for
\* every number of calls that miss, retry and store at once.
THEOREM CacheIsBounded == MapSpec => []CacheWithinBudget
  BY MapInvariant, PTL DEF MapSpec

-----------------------------------------------------------------------------
(* Background work                                                         *)

LEMMA StagesStay == PipelinesInit /\ [][PipelinesNext]_pipeVars => []PipelinesTypeOK
<1>1. PipelinesInit => PipelinesTypeOK
  BY DEF PipelinesInit, PipelinesTypeOK, JobStage
<1>2. PipelinesTypeOK /\ [PipelinesNext]_pipeVars => PipelinesTypeOK'
  <2> SUFFICES ASSUME PipelinesTypeOK, [PipelinesNext]_pipeVars PROVE PipelinesTypeOK'
    OBVIOUS
  <2> USE DEF PipelinesTypeOK, JobStage, Move
  <2>1. ASSUME NEW j \in Job, Submit(j) PROVE PipelinesTypeOK'
    BY <2>1 DEF Submit
  <2>2. ASSUME NEW j \in Job, Advance(j) PROVE PipelinesTypeOK'
    BY <2>2 DEF Advance, Enqueued, Handle, Perform, Acknowledge, CompleteReport
  <2>3. ASSUME NEW j \in Job, EnqueueFails(j) \/ PerformFails(j) \/ ReportFails(j)
        PROVE  PipelinesTypeOK'
    BY <2>3, PipelinesAssumption DEF EnqueueFails, PerformFails, ReportFails, Mishap
  <2>4. CASE RestartServer
    BY <2>4, PipelinesAssumption DEF RestartServer, Mishap
  <2>5. CASE UNCHANGED pipeVars
    BY <2>5 DEF pipeVars
  <2> QED
    BY <2>1, <2>2, <2>3, <2>4, <2>5 DEF PipelinesNext
<1> QED
  BY <1>1, <1>2, PTL

\* Each job keeps a stage and a number of effects.
THEOREM PipelinesTypeCorrect == PipelinesSpec => []PipelinesTypeOK
BY StagesStay, PTL DEF PipelinesSpec

\* An effect beyond the mishaps so far has just been produced; an e-mail is
\* either waiting in its queue, being handled, or has been sent.
WorkInv ==
    /\ \A j \in Job : /\ stage[j] \notin {"unacked", "over", "dropped"} => effects[j] <= mishaps
                      /\ effects[j] <= mishaps + 1
                      /\ stage[j] = "dropped" => mishaps >= 1
    /\ \A j \in Mail : /\ stage[j] \notin {"sending", "timer", "dropped"}
                       /\ stage[j] \in {"unacked", "over"} => effects[j] >= 1

LEMMA DropsAreMishaps == PipelinesInit /\ [][PipelinesNext]_pipeVars => []DroppedOnlyByMishap
<1>1. PipelinesInit => WorkInv
  BY DEF PipelinesInit, WorkInv, Job
<1>2. PipelinesTypeOK /\ WorkInv /\ [PipelinesNext]_pipeVars => WorkInv'
  <2> SUFFICES ASSUME PipelinesTypeOK, WorkInv, [PipelinesNext]_pipeVars PROVE WorkInv'
    OBVIOUS
  <2> USE PipelinesAssumption DEF PipelinesTypeOK, JobStage, WorkInv, Move
  <2>1. ASSUME NEW j \in Job, Submit(j) PROVE WorkInv'
    BY <2>1 DEF Submit, Job
  <2>2. ASSUME NEW j \in Job, Enqueued(j) \/ Handle(j) \/ Acknowledge(j) PROVE WorkInv'
    BY <2>2 DEF Enqueued, Handle, Acknowledge, Job
  <2>3. ASSUME NEW j \in Job, Perform(j) \/ CompleteReport(j) PROVE WorkInv'
    BY <2>3 DEF Perform, CompleteReport, Job
  <2>4. ASSUME NEW j \in Job, EnqueueFails(j) \/ PerformFails(j) \/ ReportFails(j)
        PROVE  WorkInv'
    BY <2>4 DEF EnqueueFails, PerformFails, ReportFails, Mishap, Job
  <2>5. CASE RestartServer
    BY <2>5 DEF RestartServer, Mishap, Job
  <2>6. CASE UNCHANGED pipeVars
    BY <2>6 DEF pipeVars
  <2> QED
    BY <2>1, <2>2, <2>3, <2>4, <2>5, <2>6 DEF PipelinesNext, Advance
<1>3. PipelinesTypeOK /\ WorkInv => DroppedOnlyByMishap
  BY DEF PipelinesTypeOK, WorkInv, DroppedOnlyByMishap, Job
<1> QED
  BY <1>1, <1>2, <1>3, StagesStay, PTL

\* Repeated and lost work is the work of failures and restarts, and e-mails are
\* never lost, for every number of jobs and of mishaps.
THEOREM NothingLostWithoutMishap == PipelinesSpec => []DroppedOnlyByMishap
BY DropsAreMishaps, PTL DEF PipelinesSpec

-----------------------------------------------------------------------------
(* Side by side                                                            *)

\* The cache keeps its budget and the jobs their accounts beside alerts, sessions and
\* lists, for every value of the constants of the composition.
THEOREM BackgroundIsSafe == MCSpec => []CacheWithinBudget /\ []DroppedOnlyByMishap
<1>1. MCInit => MapInit /\ PipelinesInit
  BY DEF MCInit
<1>2. [MCNext]_mcVars => [MapNext]_mapVars /\ [PipelinesNext]_pipeVars
  BY DEF MCNext, mcVars
<1> QED
  BY <1>1, <1>2, MapInvariant, DropsAreMishaps, PTL DEF MCSpec
=============================================================================
