--------------------------- MODULE PollCycleProofs ---------------------------
(***************************************************************************)
(* The health of a service and the poll thread's respect for it, for every *)
(* number of services and all durations.                                   *)
(***************************************************************************)
EXTENDS PollCycle, TLAPS

\* The part of the type invariant about the rows of the services.
RowsTyped ==
  /\ failures \in [Services -> 0 .. Enough]
  /\ wait \in [Services -> 0 .. MaxBackoff]
  /\ age \in [Services -> 0 .. LongAgo]
  /\ lastError \in [Services -> {"", "failed", "refused"}]

\* The rest of it.
ThreadsTyped ==
  /\ mood \in [Services -> Moods]
  /\ nextRun \in 0 .. Greatest(Heartbeat, Soon)
  /\ stage \in 0 .. 7
  /\ todo \subseteq Services
  /\ listedWait \in [Services -> 0 .. MaxBackoff]
  /\ calling \in Services \cup {NoService}
  /\ spent \in 0 .. CallTime
  /\ probing \in Services \cup {NoService}
  /\ probes \in 0 .. MaxProbes /\ edits \in 0 .. MaxEdits /\ clicks \in 0 .. MaxClicks

\* A service being called is off the list of the stage, and none is between cycles.
CalledIsOffList ==
  /\ calling \notin todo \/ calling = NoService
  /\ Idle => calling = NoService

\* What a stage's list says of backoffs is not stale for the services still on it: no
\* failure can have been recorded for them by anyone but the poll thread.
ListIsFresh ==
  /\ probing = NoService
  /\ stage # 0 => \A s \in todo :
       /\ Stages[stage] \in {"requests", "downloads", "media"} => wait[s] = 0
       /\ Stages[stage] = "queues" => wait[s] <= listedWait[s]
       /\ Stages[stage] # "diagnosis"

-----------------------------------------------------------------------------

\* The parts make up the type invariant.
LEMMA TypeParts == TypeOK <=> RowsTyped /\ ThreadsTyped
BY DEF TypeOK, RowsTyped, ThreadsTyped, Stages

\* The constants, one by one.
LEMMA Durations ==
  /\ Interval \in Nat /\ Interval > 0 /\ MinBackoff \in Nat /\ MinBackoff > 0
  /\ MaxBackoff \in Nat /\ MinBackoff <= MaxBackoff
  /\ CallTime \in Nat /\ CallTime > 0 /\ Heartbeat \in Nat /\ Heartbeat > 0
  /\ Soon \in Nat /\ Soon > 0 /\ Enough \in Nat /\ Enough > 0
  /\ MaxProbes \in Nat /\ MaxEdits \in Nat /\ MaxClicks \in Nat
  /\ Busy \subseteq Services
BY PollCycleAssumption

\* A backoff lies between the floor and the ceiling.
LEMMA BackoffBounds ==
  ASSUME NEW n \in Nat
  PROVE  Backoff(n) \in MinBackoff .. MaxBackoff
<1>1. 2 ^ n \in Int
  OBVIOUS
<1>2. MinBackoff \in Nat /\ MaxBackoff \in Nat /\ MinBackoff <= MaxBackoff
  BY Durations
<1> QED
  BY <1>1, <1>2 DEF Backoff, Least, Greatest

\* Ages are counted at least as far as the longest backoff.
LEMMA LongAgoBounds == LongAgo \in Nat /\ MaxBackoff <= LongAgo
BY Durations DEF LongAgo, Greatest

\* What BackoffHonoured says of one service.
Honoured(f, w, a, e) ==
  /\ f = 0 => w = 0
  /\ f # 0 => w + a >= IF e = "refused" THEN MaxBackoff ELSE MinBackoff

\* One row may be overwritten by values that are typed and honour the backoff.
LEMMA RowKeepsHealth ==
  ASSUME NEW s \in Services, RowsTyped, BackoffHonoured,
         NEW f \in 0 .. Enough, NEW w \in 0 .. MaxBackoff, NEW a \in 0 .. LongAgo,
         NEW e \in {"", "failed", "refused"}, Honoured(f, w, a, e),
         failures' = [failures EXCEPT ![s] = f], wait' = [wait EXCEPT ![s] = w],
         age' = [age EXCEPT ![s] = a], lastError' = [lastError EXCEPT ![s] = e]
  PROVE  RowsTyped' /\ BackoffHonoured'
<1>1. RowsTyped'
  BY DEF RowsTyped
<1>2. ASSUME NEW t \in Services
      PROVE  Honoured(failures[t], wait[t], age[t], lastError[t])'
  <2>1. Honoured(failures[t], wait[t], age[t], lastError[t])
    BY DEF BackoffHonoured, Honoured
  <2>2. CASE t = s
    <3>1. failures'[t] = f /\ wait'[t] = w /\ age'[t] = a /\ lastError'[t] = e
      BY <2>2 DEF RowsTyped
    <3> QED
      BY <3>1 DEF Honoured
  <2>3. CASE t # s
    <3>1. failures'[t] = failures[t] /\ wait'[t] = wait[t] /\ age'[t] = age[t]
          /\ lastError'[t] = lastError[t]
      BY <2>3 DEF RowsTyped
    <3> QED
      BY <2>1, <3>1 DEF Honoured
  <2> QED
    BY <2>2, <2>3
<1> QED
  BY <1>1, <1>2 DEF BackoffHonoured, Honoured

\* A success keeps the rows typed and honours the backoff.
LEMMA SuccessKeepsHealth ==
  ASSUME NEW s \in Services, RowsTyped, BackoffHonoured, RecordSuccess(s)
  PROVE  RowsTyped' /\ BackoffHonoured'
<1>1. 0 \in 0 .. Enough /\ 0 \in 0 .. MaxBackoff /\ 0 \in 0 .. LongAgo
  BY Durations, LongAgoBounds
<1>2. Honoured(0, 0, 0, "")
  BY DEF Honoured
<1> QED
  BY <1>1, <1>2, RowKeepsHealth DEF RecordSuccess

\* So does a failure, whether it may be retried or not.
LEMMA FailureKeepsHealth ==
  ASSUME NEW s \in Services, NEW retryable \in BOOLEAN,
         RowsTyped, BackoffHonoured, RecordFailure(s, retryable)
  PROVE  RowsTyped' /\ BackoffHonoured'
<1> DEFINE n == Least(failures[s] + 1, Enough)
           w == IF retryable THEN Backoff(n) ELSE MaxBackoff
           e == IF retryable THEN "failed" ELSE "refused"
<1>1. n \in 1 .. Enough
  <2>1. failures[s] \in 0 .. Enough
    BY DEF RowsTyped
  <2> QED
    BY <2>1, Durations DEF Least
<1>2. /\ w \in MinBackoff .. MaxBackoff /\ e \in {"failed", "refused"}
      /\ e = "refused" => w = MaxBackoff
  <2>1. Backoff(n) \in MinBackoff .. MaxBackoff
    BY <1>1, BackoffBounds, Durations
  <2> HIDE DEF n
  <2> QED
    BY <2>1, Durations
<1>3. /\ failures' = [failures EXCEPT ![s] = n] /\ wait' = [wait EXCEPT ![s] = w]
      /\ age' = [age EXCEPT ![s] = 0] /\ lastError' = [lastError EXCEPT ![s] = e]
  BY DEF RecordFailure
<1> HIDE DEF n, w, e
<1>4. /\ n \in 0 .. Enough /\ n # 0 /\ w \in 0 .. MaxBackoff /\ 0 \in 0 .. LongAgo
      /\ w + 0 = w /\ w >= MinBackoff
  BY <1>1, <1>2, Durations, LongAgoBounds
<1>5. Honoured(n, w, 0, e)
  BY <1>2, <1>4, Durations DEF Honoured
<1> QED
  BY <1>2, <1>3, <1>4, <1>5, RowKeepsHealth

\* Time shortens a backoff by no more than it ages the attempt.
LEMMA TickKeepsHealth ==
  ASSUME RowsTyped, BackoffHonoured, Tick
  PROVE  RowsTyped' /\ BackoffHonoured'
<1>1. /\ wait' = [s \in Services |-> Greatest(wait[s] - 1, 0)]
      /\ age' = [s \in Services |-> Least(age[s] + 1, LongAgo)]
      /\ UNCHANGED <<failures, lastError>>
  BY DEF Tick
<1>2. ASSUME NEW s \in Services
      PROVE  /\ wait'[s] \in 0 .. MaxBackoff /\ age'[s] \in 0 .. LongAgo
             /\ wait[s] = 0 => wait'[s] = 0
             /\ \/ wait'[s] + age'[s] >= wait[s] + age[s]
                \/ age'[s] = LongAgo
  <2>1. wait[s] \in 0 .. MaxBackoff /\ age[s] \in 0 .. LongAgo
    BY DEF RowsTyped
  <2>2. wait'[s] = Greatest(wait[s] - 1, 0) /\ age'[s] = Least(age[s] + 1, LongAgo)
    BY <1>1
  <2> QED
    BY <2>1, <2>2, Durations, LongAgoBounds DEF Greatest, Least
<1>3. RowsTyped'
  BY <1>1, <1>2 DEF RowsTyped
<1>4. ASSUME NEW s \in Services
      PROVE  Honoured(failures[s], wait[s], age[s], lastError[s])'
  <2>1. Honoured(failures[s], wait[s], age[s], lastError[s])
    BY DEF BackoffHonoured, Honoured
  <2>2. /\ wait[s] \in 0 .. MaxBackoff /\ age[s] \in 0 .. LongAgo
        /\ failures'[s] = failures[s] /\ lastError'[s] = lastError[s]
    BY <1>1 DEF RowsTyped
  <2> QED
    BY <1>2, <2>1, <2>2, Durations, LongAgoBounds DEF Honoured
<1> QED
  BY <1>3, <1>4 DEF BackoffHonoured, Honoured

\* An edit wipes the failure and the backoff together.
LEMMA EditKeepsHealth ==
  ASSUME NEW s \in Services, RowsTyped, BackoffHonoured, Edit(s)
  PROVE  RowsTyped' /\ BackoffHonoured'
<1>1. /\ failures' = [failures EXCEPT ![s] = 0] /\ wait' = [wait EXCEPT ![s] = 0]
      /\ age' = [age EXCEPT ![s] = age[s]] /\ lastError' = [lastError EXCEPT ![s] = lastError[s]]
  BY DEF Edit, RowsTyped
<1>2. /\ 0 \in 0 .. Enough /\ 0 \in 0 .. MaxBackoff
      /\ age[s] \in 0 .. LongAgo /\ lastError[s] \in {"", "failed", "refused"}
  <2>1. 0 \in 0 .. Enough /\ 0 \in 0 .. MaxBackoff
    BY Durations
  <2> QED
    BY <2>1 DEF RowsTyped
<1>3. Honoured(0, 0, age[s], lastError[s])
  BY DEF Honoured
<1> QED
  BY <1>1, <1>2, <1>3, RowKeepsHealth

\* The health of every service survives every step.
LEMMA HealthStep ==
  ASSUME RowsTyped, ThreadsTyped, BackoffHonoured, [Next]_vars
  PROVE  RowsTyped' /\ BackoffHonoured'
<1>1. CASE UNCHANGED rowVars
  BY <1>1 DEF rowVars, RowsTyped, BackoffHonoured
<1>2. CASE Tick
  BY <1>2, TickKeepsHealth
<1>3. CASE CallSucceeds
  BY <1>3, SuccessKeepsHealth DEF CallSucceeds, ThreadsTyped
<1>4. CASE CallFails
  BY <1>4, FailureKeepsHealth DEF CallFails, ThreadsTyped
<1>5. CASE CallGarbles
  BY <1>1, <1>5, FailureKeepsHealth DEF CallGarbles, ThreadsTyped
<1>6. CASE ProbeEnds
  BY <1>6, SuccessKeepsHealth, FailureKeepsHealth DEF ProbeEnds, ThreadsTyped
<1>7. CASE \E s \in Services : Edit(s)
  BY <1>7, EditKeepsHealth
<1> QED
  BY <1>1, <1>2, <1>3, <1>4, <1>5, <1>6, <1>7
  DEF Next, Scheduling, Polling, People, StartCycle, SkipRun, PassOver, Call, NextStage,
      Probe, PollNow, ChangeMood, vars, rowVars

\* The list a stage draws up is one of services.
LEMMA ListedAreServices ==
  ASSUME NEW n \in 1 .. 7
  PROVE  /\ Listed(Stages[n]) \subseteq Services
         /\ Stages[n] \in {"requests", "downloads", "media"} =>
              \A s \in Listed(Stages[n]) : wait[s] > 0 => FALSE
         /\ Stages[n] = "diagnosis" => Listed(Stages[n]) = {}
<1>1. Stages[n] \in {"requests", "entities", "history", "queues", "downloads", "media",
                     "diagnosis"}
  BY DEF Stages
<1> QED
  BY <1>1, Durations DEF Listed, Due, BackedOff

\* Entering a stage.
LEMMA EnterKeepsTypes ==
  ASSUME NEW n \in 1 .. 7, RowsTyped, EnterStage(n)
  PROVE  /\ stage' = n /\ todo' \subseteq Services
         /\ listedWait' \in [Services -> 0 .. MaxBackoff]
<1>1. stage' = n /\ todo' \subseteq Services
  BY ListedAreServices DEF EnterStage
<1>2. 0 \in 0 .. MaxBackoff
  BY Durations
<1>3. \A s \in Services : wait[s] \in 0 .. MaxBackoff
  BY DEF RowsTyped
<1> QED
  BY <1>1, <1>2, <1>3 DEF EnterStage

\* The threads' variables keep their types.
LEMMA ThreadsStep ==
  ASSUME RowsTyped, ThreadsTyped, [Next]_vars
  PROVE  ThreadsTyped'
<1> USE DEF ThreadsTyped, pollVars, uiVars, rowVars
<1>0. /\ 0 \in 0 .. CallTime
      /\ Greatest(Heartbeat, Soon) \in Nat
      /\ {Heartbeat, Soon} \subseteq 0 .. Greatest(Heartbeat, Soon)
  BY Durations DEF Greatest
<1>1. CASE Tick
  <2>1. nextRun' \in 0 .. Greatest(Heartbeat, Soon)
    <3>1. nextRun \in 0 .. Greatest(Heartbeat, Soon) /\ nextRun > 0 /\ nextRun' = nextRun - 1
      BY <1>1 DEF Tick
    <3> HIDE DEF ThreadsTyped
    <3> QED
      BY <1>0, <3>1
  <2>2. spent' \in 0 .. CallTime
    BY <1>1, Durations DEF Tick, Idle
  <2>3. ASSUME NEW s \in Services
        PROVE  Greatest(listedWait[s] - 1, 0) \in 0 .. MaxBackoff
    <3>1. listedWait[s] \in 0 .. MaxBackoff
      OBVIOUS
    <3> QED
      BY <3>1, Durations DEF Greatest
  <2>4. listedWait' \in [Services -> 0 .. MaxBackoff]
    BY <1>1, <2>3 DEF Tick
  <2> QED
    BY <1>1, <2>1, <2>2, <2>4 DEF Tick
<1>2. CASE StartCycle
  <2>1. EnterStage(1) /\ 1 \in 1 .. 7
    BY <1>2 DEF StartCycle
  <2> QED
    BY <1>0, <1>2, <2>1, EnterKeepsTypes DEF StartCycle
<1>3. CASE SkipRun
  BY <1>0, <1>3 DEF SkipRun
<1>4. CASE \E s \in todo : PassOver(s) \/ Call(s)
  BY <1>4 DEF PassOver, Call
<1>5. CASE CallSucceeds
  BY <1>0, <1>5 DEF CallSucceeds, HangUp
<1>6. CASE CallFails
  BY <1>0, <1>6 DEF CallFails, HangUp
<1>7. CASE CallGarbles
  BY <1>0, <1>7 DEF CallGarbles, HangUp
<1>8. CASE NextStage
  <2>1. CASE stage < 7
    <3>1. EnterStage(stage + 1) /\ stage + 1 \in 1 .. 7
      BY <1>8, <2>1 DEF NextStage, Stages
    <3>2. /\ stage' \in 0 .. 7 /\ todo' \subseteq Services
          /\ listedWait' \in [Services -> 0 .. MaxBackoff]
      BY <3>1, EnterKeepsTypes
    <3> QED
      BY <1>8, <3>2 DEF NextStage
  <2>2. CASE ~(stage < 7)
    BY <1>8, <2>2 DEF NextStage, Stages
  <2> QED
    BY <2>1, <2>2
<1>9. CASE ProbeEnds
  BY <1>9 DEF ProbeEnds
<1>10. CASE PollNow
  BY <1>0, <1>10, Durations DEF PollNow
<1>11. ASSUME NEW s \in Services, Probe(s) \/ Edit(s) \/ ChangeMood(s)
       PROVE  ThreadsTyped'
  BY <1>11, Durations DEF Probe, Edit, ChangeMood
<1>12. CASE UNCHANGED vars
  BY <1>12 DEF vars
<1> QED
  BY <1>1, <1>2, <1>3, <1>4, <1>5, <1>6, <1>7, <1>8, <1>9, <1>10, <1>11, <1>12
  DEF Next, Scheduling, Polling, People

\* Before the first cycle.
LEMMA InitEstablishes == Init => RowsTyped /\ ThreadsTyped /\ BackoffHonoured /\ CalledIsOffList
<1> SUFFICES ASSUME Init
             PROVE  RowsTyped /\ ThreadsTyped /\ BackoffHonoured /\ CalledIsOffList
  OBVIOUS
<1>1. /\ 0 \in 0 .. Enough /\ 0 \in 0 .. MaxBackoff /\ LongAgo \in 0 .. LongAgo
      /\ 0 \in 0 .. CallTime /\ 0 \in 0 .. MaxProbes /\ 0 \in 0 .. MaxEdits
      /\ 0 \in 0 .. MaxClicks /\ Soon \in 0 .. Greatest(Heartbeat, Soon)
  BY Durations, LongAgoBounds DEF Greatest
<1>2. RowsTyped
  BY <1>1 DEF Init, RowsTyped
<1>3. ThreadsTyped
  <2>1. nextRun \in 0 .. Greatest(Heartbeat, Soon)
    BY <1>1 DEF Init
  <2>4. listedWait \in [Services -> 0 .. MaxBackoff]
    BY <1>1 DEF Init
  <2>2. /\ stage \in 0 .. 7 /\ spent \in 0 .. CallTime
        /\ probes \in 0 .. MaxProbes /\ edits \in 0 .. MaxEdits /\ clicks \in 0 .. MaxClicks
    <3>1. stage = 0 /\ spent = 0 /\ probes = 0 /\ edits = 0 /\ clicks = 0
      BY DEF Init
    <3> QED
      BY <1>1, <3>1
  <2>3. /\ mood \in [Services -> Moods] /\ todo \subseteq Services
        /\ {calling, probing} \subseteq Services \cup {NoService}
    BY DEF Init
  <2> QED
    BY <2>1, <2>2, <2>3, <2>4 DEF ThreadsTyped
<1>4. BackoffHonoured /\ CalledIsOffList
  BY DEF Init, BackoffHonoured, CalledIsOffList, Idle
<1> QED
  BY <1>2, <1>3, <1>4

\* The variables keep their types; a backoff never exceeds its ceiling.
THEOREM TypeCorrect == Spec => []TypeOK
<1>1. RowsTyped /\ ThreadsTyped /\ BackoffHonoured /\ [Next]_vars =>
        (RowsTyped /\ ThreadsTyped /\ BackoffHonoured)'
  BY HealthStep, ThreadsStep
<1>2. Init => RowsTyped /\ ThreadsTyped /\ BackoffHonoured
  BY InitEstablishes
<1>3. RowsTyped /\ ThreadsTyped => TypeOK
  BY TypeParts
<1> QED
  BY <1>1, <1>2, <1>3, PTL DEF Spec

\* Failures and backoffs agree in every reachable state, whatever the poll thread, the
\* probes and the edits of a service do to it, and in whatever order: an unbroken row of
\* failures is never without its backoff having been served in full since the last try.
THEOREM BackoffsHonoured == Spec => []BackoffHonoured
<1>1. RowsTyped /\ ThreadsTyped /\ BackoffHonoured /\ [Next]_vars =>
        (RowsTyped /\ ThreadsTyped /\ BackoffHonoured)'
  BY HealthStep, ThreadsStep
<1>2. Init => RowsTyped /\ ThreadsTyped /\ BackoffHonoured
  BY InitEstablishes
<1> QED
  BY <1>1, <1>2, PTL DEF Spec
-----------------------------------------------------------------------------
(* No service is called while it is backed off, until somebody probes       *)

\* As long as nobody has probed anything, the poll thread never calls a service that is
\* backed off: neither lists drawn up when a stage began nor rows read then have gone
\* stale by the time they are used, although calls take time and rows are edited.
LeavesBackedOffAlone ==
  [][\A s \in Services :
       probes = 0 /\ calling # s /\ calling' = s => ~BackedOff(s)]_vars

\* Drawing up a list looks at the backoffs, or notes them down.
LEMMA EnterIsFresh ==
  ASSUME NEW n \in 1 .. 7, RowsTyped, EnterStage(n), probing' = NoService, UNCHANGED wait
  PROVE  ListIsFresh'
<1>1. stage' = n /\ todo' = Listed(Stages[n])
  BY DEF EnterStage
<1>2. ASSUME NEW s \in todo', Stages[n] \in {"requests", "downloads", "media"}
      PROVE  wait[s] = 0
  <2>1. s \in Services /\ ~(wait[s] > 0)
    BY <1>1, <1>2, ListedAreServices
  <2>2. wait[s] \in 0 .. MaxBackoff
    BY <2>1 DEF RowsTyped
  <2> QED
    BY <2>1, <2>2, Durations
<1>3. ASSUME NEW s \in todo', Stages[n] = "queues"
      PROVE  wait[s] <= listedWait'[s]
  <2>1. s \in Services /\ listedWait'[s] = wait[s]
    BY <1>1, <1>3, ListedAreServices DEF EnterStage
  <2>2. wait[s] \in 0 .. MaxBackoff
    BY <2>1 DEF RowsTyped
  <2> QED
    BY <2>1, <2>2, Durations
<1>4. Stages[n] = "diagnosis" => todo' = {}
  BY <1>1, ListedAreServices
<1> QED
  BY <1>1, <1>2, <1>3, <1>4 DEF ListIsFresh

\* A list stays fresh while it gets shorter and the backoffs on it do too.
LEMMA ShorterIsFresh ==
  ASSUME ListIsFresh, UNCHANGED <<stage, listedWait>>, probing' = NoService,
         todo' \subseteq todo, RowsTyped, ThreadsTyped,
         \A s \in todo' : wait'[s] = wait[s] \/ wait'[s] = 0
  PROVE  ListIsFresh'
<1>1. \A s \in todo' : s \in Services /\ listedWait[s] \in 0 .. MaxBackoff
  BY DEF ThreadsTyped
<1>2. \A s \in todo' : listedWait[s] >= 0
  BY <1>1, Durations
<1> QED
  BY <1>2 DEF ListIsFresh

\* A service that was called is on no list, so what is recorded of it makes none stale.
LEMMA RecordedIsOffList ==
  ASSUME NEW s \in Services, NEW retryable \in BOOLEAN, NEW t \in Services, t # s, RowsTyped,
         RecordSuccess(s) \/ RecordFailure(s, retryable)
  PROVE  wait'[t] = wait[t]
BY DEF RecordSuccess, RecordFailure, RowsTyped

\* Every list stays fresh through every step that leaves nobody having probed.
LEMMA FreshStep ==
  ASSUME probes' = 0, RowsTyped, ThreadsTyped, CalledIsOffList, ListIsFresh, [Next]_vars
  PROVE  CalledIsOffList' /\ ListIsFresh'
<1> USE DEF pollVars, uiVars, rowVars
<1>1. CASE Tick
  <2>1. CalledIsOffList'
    BY <1>1 DEF Tick, CalledIsOffList, Idle
  <2>2. ASSUME NEW s \in todo
        PROVE  /\ wait[s] = 0 => wait'[s] = 0
               /\ wait[s] <= listedWait[s] => wait'[s] <= listedWait'[s]
    <3>1. s \in Services
      BY DEF ThreadsTyped
    <3>2. wait[s] \in 0 .. MaxBackoff /\ listedWait[s] \in 0 .. MaxBackoff
      BY <3>1 DEF RowsTyped, ThreadsTyped
    <3>3. wait'[s] = Greatest(wait[s] - 1, 0) /\ listedWait'[s] = Greatest(listedWait[s] - 1, 0)
      BY <1>1, <3>1 DEF Tick
    <3> QED
      BY <3>2, <3>3, Durations DEF Greatest
  <2> QED
    BY <1>1, <2>1, <2>2 DEF Tick, ListIsFresh
<1>2. CASE StartCycle
  <2>1. EnterStage(1) /\ 1 \in 1 .. 7 /\ calling' = calling
    BY <1>2 DEF StartCycle
  <2>2. ListIsFresh'
    BY <1>2, <2>1, EnterIsFresh DEF StartCycle, ListIsFresh
  <2> QED
    BY <1>2, <2>2 DEF StartCycle, CalledIsOffList, Idle, ListIsFresh
<1>3. CASE SkipRun
  BY <1>3, ShorterIsFresh DEF SkipRun, CalledIsOffList, Idle, ListIsFresh
<1>4. CASE \E s \in todo : PassOver(s) \/ Call(s)
  BY <1>4, ShorterIsFresh DEF PassOver, Call, CalledIsOffList, Idle, ListIsFresh
<1>5. ASSUME calling # NoService, NEW r \in BOOLEAN, HangUp, UNCHANGED <<stage, listedWait, probing>>,
             todo' \subseteq todo,
             RecordSuccess(calling) \/ RecordFailure(calling, r) \/ UNCHANGED wait
      PROVE  CalledIsOffList' /\ ListIsFresh'
  <2>1. \A s \in todo' : s \in Services /\ s # calling /\ calling \in Services
    BY <1>5 DEF CalledIsOffList, Idle, ThreadsTyped
  <2>2. \A s \in todo' : wait'[s] = wait[s]
    BY <1>5, <2>1, RecordedIsOffList
  <2> QED
    BY <1>5, <2>2, ShorterIsFresh DEF HangUp, CalledIsOffList, Idle, ListIsFresh
<1>6. CASE CallSucceeds
  BY <1>5, <1>6 DEF CallSucceeds
<1>7. CASE CallFails
  BY <1>5, <1>7 DEF CallFails
<1>8. CASE CallGarbles
  BY <1>5, <1>8 DEF CallGarbles
<1>9. CASE NextStage
  <2>1. CASE stage < 7
    <3>1. EnterStage(stage + 1) /\ stage + 1 \in 1 .. 7
      BY <1>9, <2>1 DEF NextStage, Stages, ThreadsTyped
    <3>2. ListIsFresh'
      BY <1>9, <3>1, EnterIsFresh DEF NextStage, ListIsFresh
    <3> QED
      BY <1>9, <3>2 DEF NextStage, CalledIsOffList, Idle
  <2>2. CASE ~(stage < 7)
    BY <1>9, <2>2 DEF NextStage, Stages, CalledIsOffList, Idle, ListIsFresh
  <2> QED
    BY <2>1, <2>2
<1>10. CASE ProbeEnds
  BY <1>10 DEF ProbeEnds, ListIsFresh
<1>11. CASE PollNow
  BY <1>11, ShorterIsFresh DEF PollNow, CalledIsOffList, Idle, ListIsFresh
<1>12. ASSUME NEW s \in Services, Probe(s)
       PROVE  FALSE
  <2>1. probes \in Nat /\ probes' = probes + 1
    BY <1>12, Durations DEF Probe, ThreadsTyped
  <2> QED
    BY <2>1
<1>13. ASSUME NEW s \in Services, Edit(s)
       PROVE  CalledIsOffList' /\ ListIsFresh'
  <2>1. \A t \in todo : wait'[t] = wait[t] \/ wait'[t] = 0
    BY <1>13 DEF Edit, ThreadsTyped, RowsTyped
  <2> QED
    BY <1>13, <2>1, ShorterIsFresh DEF Edit, CalledIsOffList, Idle, ListIsFresh
<1>14. ASSUME NEW s \in Services, ChangeMood(s)
       PROVE  CalledIsOffList' /\ ListIsFresh'
  BY <1>14, ShorterIsFresh DEF ChangeMood, CalledIsOffList, Idle, ListIsFresh
<1>15. CASE UNCHANGED vars
  BY <1>15, ShorterIsFresh DEF vars, CalledIsOffList, Idle, ListIsFresh
<1> QED
  BY <1>1, <1>2, <1>3, <1>4, <1>6, <1>7, <1>8, <1>9, <1>10, <1>11, <1>12, <1>13, <1>14, <1>15
  DEF Next, Scheduling, Polling, People

\* A call to a service finds its list fresh.
LEMMA CallsAreAllowed ==
  ASSUME RowsTyped, ThreadsTyped, ListIsFresh, [Next]_vars
  PROVE  \A s \in Services : calling # s /\ calling' = s => ~BackedOff(s)
<1> USE DEF pollVars, uiVars, rowVars
<1>1. ASSUME NEW s \in todo, Call(s)
      PROVE  ~BackedOff(s)
  <2>1. stage \in 1 .. 7 /\ s \in Services
    BY <1>1 DEF Call, Idle, ThreadsTyped
  <2>2. wait[s] \in 0 .. MaxBackoff /\ listedWait[s] \in 0 .. MaxBackoff
    BY <2>1 DEF ThreadsTyped, RowsTyped
  <2>3. Stages[stage] \in {"requests", "downloads", "media", "queues", "entities", "history",
                           "diagnosis"}
    BY <2>1 DEF Stages
  <2>4. CASE Stages[stage] \in {"requests", "downloads", "media"}
    BY <2>1, <2>4 DEF ListIsFresh, BackedOff
  <2>5. CASE Stages[stage] = "queues"
    <3>1. wait[s] <= listedWait[s] /\ ~(listedWait[s] > 0)
      BY <1>1, <2>1, <2>5 DEF ListIsFresh, Call, PassedOver
    <3> QED
      BY <2>2, <3>1, Durations DEF BackedOff
  <2>6. CASE Stages[stage] \in {"entities", "history"}
    BY <1>1, <2>6 DEF Call, PassedOver
  <2>7. Stages[stage] # "diagnosis"
    BY <2>1 DEF ListIsFresh
  <2> QED
    BY <2>3, <2>4, <2>5, <2>6, <2>7
<1>2. (\E s \in todo : Call(s)) \/ calling' = calling \/ calling' = NoService
  BY DEF Next, Scheduling, Polling, People, Tick, StartCycle, SkipRun, PassOver, CallSucceeds,
         CallFails, CallGarbles, HangUp, NextStage, ProbeEnds, Probe, Edit, PollNow, ChangeMood, vars
<1>3. NoService \notin Services
  BY PollCycleAssumption DEF NoService
<1> QED
  BY <1>1, <1>2, <1>3 DEF Call

\* Probes are counted: while there has been none, there was none before.
LEMMA ProbesAreCounted ==
  ASSUME ThreadsTyped, [Next]_vars, probes' = 0
  PROVE  probes = 0
<1>1. probes \in Nat
  BY Durations DEF ThreadsTyped
<1>2. UNCHANGED probes \/ probes' = probes + 1
  BY DEF Next, Scheduling, Polling, People, Tick, StartCycle, SkipRun, PassOver, Call, CallSucceeds,
         CallFails, CallGarbles, NextStage, ProbeEnds, Probe, Edit, PollNow, ChangeMood, vars,
         uiVars
<1> QED
  BY <1>1, <1>2

\* Until somebody probes from the user interface, the poll thread calls no service while
\* it is backed off: the lists of a stage and the rows it read are never stale when they
\* are used, although time passes and services are edited.
THEOREM BackedOffAreLeftAlone == Spec => LeavesBackedOffAlone
<1> DEFINE Inv == /\ RowsTyped /\ ThreadsTyped /\ BackoffHonoured
                  /\ probes = 0 => CalledIsOffList /\ ListIsFresh
<1>1. Init => Inv
  BY InitEstablishes DEF Init, ListIsFresh
<1>2. Inv /\ [Next]_vars => Inv'
  BY HealthStep, ThreadsStep, FreshStep, ProbesAreCounted
<1>3. Inv /\ [Next]_vars =>
        [\A s \in Services : probes = 0 /\ calling # s /\ calling' = s => ~BackedOff(s)]_vars
  BY CallsAreAllowed
<1> QED
  BY <1>1, <1>2, <1>3, PTL DEF Spec, LeavesBackedOffAlone
=============================================================================
