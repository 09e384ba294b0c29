------------------------------ MODULE PollCycle ------------------------------
(***************************************************************************)
(* The clockwork: one scheduler job that runs a poll cycle every heartbeat *)
(* (core/scheduler.py), the stages of a cycle and the services each stage  *)
(* calls (core/ingest/__init__.py and the loops of its stages), and the    *)
(* health of a service, which decides whether it is called: failures,      *)
(* backoff and the time of the last attempt (core/clients/base.py).        *)
(*                                                                         *)
(* Time is counted in ticks of no particular length.  It passes while a    *)
(* service is being called and while nothing is running; everything else   *)
(* takes none.  A deadline is the number of ticks left, so nothing grows.  *)
(***************************************************************************)
EXTENDS Integers, Sequences, FiniteSets

CONSTANTS
  Services,
  Kind,          \* "manager", "arr", "downloads" or "media", for each service
  Busy,          \* the services some open request has a question for
  Interval,      \* poll_interval; 60 s by default
  MinBackoff,    \* MIN_BACKOFF_SECONDS; 30 s
  MaxBackoff,    \* MAX_BACKOFF_SECONDS; 15 min
  CallTime,      \* the longest one service is talked to in one stage
  Heartbeat,     \* HEARTBEAT_SECONDS; 15 s
  Soon,          \* the delay of _soon(); 10 s
  Enough,        \* failures are counted up to here, where the backoff has stopped growing
  MaxProbes,     \* probes, edits and clicks, and the three together: each bounds the model
  MaxEdits,
  MaxClicks,
  MaxMeddling

ASSUME PollCycleAssumption ==
  /\ Kind \in [Services -> {"manager", "arr", "downloads", "media"}]
  /\ Busy \subseteq Services /\ "nobody" \notin Services
  /\ {Interval, MinBackoff, MaxBackoff, CallTime, Heartbeat, Soon, Enough}
       \subseteq Nat \ {0}
  /\ MinBackoff <= MaxBackoff /\ MaxBackoff <= 2 ^ Enough
  /\ {MaxProbes, MaxEdits, MaxClicks, MaxMeddling} \subseteq Nat

Stages == <<"requests", "entities", "history", "queues", "downloads", "media", "diagnosis">>

NoService == "nobody"

\* What a service does when it is called: answers, fails to (no connection, a timeout,
\* a 5xx), refuses (401, 403, another 4xx, not JSON), or answers something the code that
\* reads it cannot digest, which raises an exception that is no ServiceError.
Moods == {"answers", "fails", "refuses", "garbles"}

VARIABLES
  mood,
  (* ServiceInstance rows *)
  failures,     \* consecutive_failures
  wait,         \* ticks until backoff_until; 0 also when there is none
  age,          \* ticks since last_attempt_at, up to LongAgo; LongAgo also for never
  lastError,    \* what last_error says: nothing, a failure or a refusal
  (* The scheduler *)
  nextRun,      \* ticks until the job's next_run_time
  (* The poll thread *)
  stage,        \* index in Stages, 0 between cycles
  todo,         \* the services the stage has still to look at
  listedWait,   \* wait as it was in the rows the stage read when it began
  calling,      \* the service being talked to
  spent,        \* for how long
  (* The threads of the user interface *)
  probing,      \* the service a probe is talking to
  probes, edits, clicks

rowVars   == <<failures, wait, age, lastError>>
pollVars  == <<stage, todo, listedWait, calling, spent>>
uiVars    == <<probing, probes, edits, clicks>>
vars      == <<mood, rowVars, nextRun, pollVars, uiVars>>

Least(a, b)    == IF a <= b THEN a ELSE b
Greatest(a, b) == IF a >= b THEN a ELSE b

\* record_failure's window after the n-th failure in a row.
Backoff(n) == Least(Greatest(2 ^ n, MinBackoff), MaxBackoff)

\* The longest span a row's age is compared with.
LongAgo == Greatest(Interval, MaxBackoff)

TypeOK ==
  /\ mood \in [Services -> Moods]
  /\ failures \in [Services -> 0 .. Enough]
  /\ wait \in [Services -> 0 .. MaxBackoff]
  /\ age \in [Services -> 0 .. LongAgo]
  /\ lastError \in [Services -> {"", "failed", "refused"}]
  /\ nextRun \in 0 .. Greatest(Heartbeat, Soon)
  /\ stage \in 0 .. Len(Stages)
  /\ todo \subseteq Services
  /\ listedWait \in [Services -> 0 .. MaxBackoff]
  /\ calling \in Services \cup {NoService}
  /\ spent \in 0 .. CallTime
  /\ probing \in Services \cup {NoService}
  /\ probes \in 0 .. MaxProbes /\ edits \in 0 .. MaxEdits /\ clicks \in 0 .. MaxClicks

Init ==
  /\ mood \in [Services -> Moods]
  /\ failures = [s \in Services |-> 0]
  /\ wait = [s \in Services |-> 0]
  /\ age = [s \in Services |-> LongAgo]
  /\ lastError = [s \in Services |-> ""]
  /\ nextRun = Soon
  /\ stage = 0 /\ todo = {} /\ listedWait = [s \in Services |-> 0]
  /\ calling = NoService /\ spent = 0
  /\ probing = NoService /\ probes = 0 /\ edits = 0 /\ clicks = 0

-----------------------------------------------------------------------------
(* Health of a service (BaseClient)                                        *)

\* As it would be if a service that refused had to be edited first.
RecordSuccessUnlessRefused(s) ==
  IF lastError[s] = "refused"
    THEN UNCHANGED rowVars
    ELSE /\ failures' = [failures EXCEPT ![s] = 0]
         /\ wait' = [wait EXCEPT ![s] = 0]
         /\ age' = [age EXCEPT ![s] = 0]
         /\ lastError' = [lastError EXCEPT ![s] = ""]

RecordSuccess(s) ==
  /\ failures' = [failures EXCEPT ![s] = 0]
  /\ wait' = [wait EXCEPT ![s] = 0]
  /\ age' = [age EXCEPT ![s] = 0]
  /\ lastError' = [lastError EXCEPT ![s] = ""]

\* As it would be if refusals were backed off like any failure.
RecordFailureSoftly(s, retryable) ==
  LET n == Least(failures[s] + 1, Enough) IN
    /\ failures' = [failures EXCEPT ![s] = n]
    /\ wait' = [wait EXCEPT ![s] = Backoff(n)]
    /\ age' = [age EXCEPT ![s] = 0]
    /\ lastError' = [lastError EXCEPT ![s] = IF retryable THEN "failed" ELSE "refused"]

\* As it would be without the ceiling.
RecordFailureUncapped(s, retryable) ==
  LET n == Least(failures[s] + 1, Enough) IN
    /\ failures' = [failures EXCEPT ![s] = n]
    /\ wait' = [wait EXCEPT ![s] = IF retryable THEN Greatest(2 ^ n, MinBackoff) ELSE MaxBackoff]
    /\ age' = [age EXCEPT ![s] = 0]
    /\ lastError' = [lastError EXCEPT ![s] = IF retryable THEN "failed" ELSE "refused"]

RecordFailure(s, retryable) ==
  LET n == Least(failures[s] + 1, Enough) IN
    /\ failures' = [failures EXCEPT ![s] = n]
    /\ wait' = [wait EXCEPT ![s] = IF retryable THEN Backoff(n) ELSE MaxBackoff]
    /\ age' = [age EXCEPT ![s] = 0]
    /\ lastError' = [lastError EXCEPT ![s] = IF retryable THEN "failed" ELSE "refused"]

\* As it would be if a backoff lasted until a success lifts it.
BackedOffForGood(s) == failures[s] > 0

BackedOff(s) == wait[s] > 0

\* due_services
Due(s) == ~BackedOff(s) /\ age[s] >= Interval

-----------------------------------------------------------------------------
(* The scheduler                                                           *)

Idle == stage = 0

\* Time passes: never past a deadline something is waiting for.
Tick ==
  /\ nextRun > 0
  /\ IF Idle THEN TRUE ELSE calling # NoService /\ spent < CallTime
  /\ nextRun' = nextRun - 1
  /\ spent' = IF Idle THEN 0 ELSE spent + 1
  /\ wait' = [s \in Services |-> Greatest(wait[s] - 1, 0)]
  /\ listedWait' = [s \in Services |-> Greatest(listedWait[s] - 1, 0)]
  /\ age' = [s \in Services |-> Least(age[s] + 1, LongAgo)]
  /\ UNCHANGED <<mood, failures, lastError, stage, todo, calling, uiVars>>

\* The list a stage draws up when it begins.
Listed(label) ==
  CASE label = "requests"  -> {s \in Services : Kind[s] = "manager" /\ Due(s)}
    [] label = "entities"  -> {s \in Busy : Kind[s] = "arr"}
    [] label = "history"   -> {s \in Busy : Kind[s] = "arr"}
    [] label = "queues"    -> {s \in Services : Kind[s] = "arr"}
    [] label = "downloads" -> {s \in Busy : Kind[s] = "downloads" /\ ~BackedOff(s)}
    [] label = "media"     -> {s \in Busy : Kind[s] = "media" /\ ~BackedOff(s)}
    [] label = "diagnosis" -> {}

EnterStage(n) ==
  /\ stage' = n
  /\ todo' = Listed(Stages[n])
  /\ listedWait' = [s \in Services |-> IF Stages[n] = "queues" THEN wait[s] ELSE 0]

\* The job's time has come and no cycle is running.
StartCycle ==
  /\ nextRun = 0 /\ Idle
  /\ nextRun' = Heartbeat
  /\ EnterStage(1)
  /\ UNCHANGED <<mood, rowVars, calling, spent, uiVars>>

\* The job's time has come while a cycle is running (max_instances=1): it is skipped.
SkipRun ==
  /\ nextRun = 0 /\ ~Idle
  /\ nextRun' = Heartbeat
  /\ UNCHANGED <<mood, rowVars, pollVars, uiVars>>

-----------------------------------------------------------------------------
(* The poll thread                                                         *)

\* Whether the stage's loop passes over s.  Entities and history read the row again for
\* each service; queues looks at the row it read when the stage began; the others
\* looked when they drew up their list.
PassedOver(s) ==
  CASE Stages[stage] \in {"entities", "history"} -> BackedOff(s)
    [] Stages[stage] = "queues"                  -> listedWait[s] > 0
    [] OTHER                                     -> FALSE

PassOver(s) ==
  /\ ~Idle /\ calling = NoService
  /\ s \in todo /\ PassedOver(s)
  /\ todo' = todo \ {s}
  /\ UNCHANGED <<mood, rowVars, nextRun, stage, listedWait, calling, spent, uiVars>>

Call(s) ==
  /\ ~Idle /\ calling = NoService
  /\ s \in todo /\ ~PassedOver(s)
  /\ todo' = todo \ {s}
  /\ calling' = s
  /\ UNCHANGED <<mood, rowVars, nextRun, stage, listedWait, spent, uiVars>>

HangUp == calling' = NoService /\ spent' = 0

CallSucceeds ==
  /\ calling # NoService /\ mood[calling] = "answers"
  /\ RecordSuccess(calling)
  /\ HangUp
  /\ UNCHANGED <<mood, nextRun, stage, todo, listedWait, uiVars>>

CallFails ==
  /\ calling # NoService /\ mood[calling] \in {"fails", "refuses"}
  /\ RecordFailure(calling, mood[calling] = "fails")
  /\ HangUp
  /\ UNCHANGED <<mood, nextRun, stage, todo, listedWait, uiVars>>

\* An exception that is no ServiceError.  Downloads and media record it as a failure;
\* requests and entities log it; history and queues let it end the whole stage.
CallGarbles ==
  /\ calling # NoService /\ mood[calling] = "garbles"
  /\ HangUp
  /\ IF Stages[stage] \in {"downloads", "media"}
       THEN /\ RecordFailure(calling, TRUE)
            /\ UNCHANGED todo
       ELSE /\ UNCHANGED <<rowVars>>
            /\ todo' = IF Stages[stage] \in {"history", "queues"} THEN {} ELSE todo
  /\ UNCHANGED <<mood, nextRun, stage, listedWait, uiVars>>

NextStage ==
  /\ ~Idle /\ calling = NoService /\ todo = {}
  /\ IF stage < Len(Stages)
       THEN EnterStage(stage + 1)
       ELSE stage' = 0 /\ UNCHANGED <<todo, listedWait>>
  /\ UNCHANGED <<mood, rowVars, nextRun, calling, spent, uiVars>>

-----------------------------------------------------------------------------
(* The user interface                                                      *)

MayMeddle == probes + edits + clicks < MaxMeddling

\* probe_service, and probe_all: whether the service is backed off is not asked.
Probe(s) ==
  /\ probing = NoService /\ probes < MaxProbes /\ MayMeddle
  /\ probing' = s
  /\ probes' = probes + 1
  /\ UNCHANGED <<mood, rowVars, nextRun, pollVars, edits, clicks>>

\* checked_probe: every exception is recorded.
ProbeEnds ==
  /\ probing # NoService
  /\ IF mood[probing] = "answers"
       THEN RecordSuccess(probing)
       ELSE RecordFailure(probing, mood[probing] # "refuses")
  /\ probing' = NoService
  /\ UNCHANGED <<mood, nextRun, pollVars, probes, edits, clicks>>

\* service_save: "Editing a service invalidates its backoff".
Edit(s) ==
  /\ edits < MaxEdits /\ MayMeddle
  /\ edits' = edits + 1
  /\ failures' = [failures EXCEPT ![s] = 0]
  /\ wait' = [wait EXCEPT ![s] = 0]
  /\ UNCHANGED <<mood, age, lastError, nextRun, pollVars, probing, probes, clicks>>

\* run_all_now
PollNow ==
  /\ clicks < MaxClicks /\ MayMeddle
  /\ clicks' = clicks + 1
  /\ nextRun' = Soon
  /\ UNCHANGED <<mood, rowVars, pollVars, probing, probes, edits>>

\* A service recovers or falters.
ChangeMood(s) ==
  /\ \E m \in Moods \ {mood[s]} : mood' = [mood EXCEPT ![s] = m]
  /\ UNCHANGED <<rowVars, nextRun, pollVars, uiVars>>

-----------------------------------------------------------------------------

Scheduling == StartCycle \/ SkipRun \/ Tick

Polling ==
  \/ \E s \in todo : PassOver(s) \/ Call(s)
  \/ CallSucceeds \/ CallFails \/ CallGarbles
  \/ NextStage

People ==
  \/ \E s \in Services : Probe(s) \/ Edit(s)
  \/ PollNow

Next ==
  \/ Scheduling
  \/ Polling
  \/ People
  \/ ProbeEnds
  \/ \E s \in Services : ChangeMood(s)

Spec == Init /\ [][Next]_vars

\* Clocks run, the scheduler's thread gets its turn, and a call ends, with an answer or
\* at its time limit.  Nobody has to click, and no service has to recover.
FairSpec == Spec /\ WF_vars(Scheduling) /\ WF_vars(Polling) /\ WF_vars(ProbeEnds)

-----------------------------------------------------------------------------
(* Properties                                                              *)

\* The health fields agree: no failure means no backoff, and a backoff that was widened
\* lasts at least the floor, or the full ceiling after a refusal, counted from the
\* attempt it punishes (record_success, record_failure, service_save).
BackoffHonoured ==
  \A s \in Services :
    /\ failures[s] = 0 => wait[s] = 0
    /\ failures[s] # 0 =>
         wait[s] + age[s] >= IF lastError[s] = "refused" THEN MaxBackoff ELSE MinBackoff

\* The services the poll thread has a reason to call, whatever else happens.
Polled == {s \in Services : Kind[s] \in {"manager", "arr"} \/ s \in Busy}

NothingGarbled == \A s \in Services : mood[s] # "garbles"

\* No service is given up, and none keeps the poll thread from the others: dead and
\* refusing services are tried again for ever, unless an undigestible answer ends stages.
KeepsPolling ==
  <>[]NothingGarbled => \A s \in Polled : []<>(calling = s)

\* A service that answers again is healthy again.
Recovers ==
  <>[]NothingGarbled =>
    \A s \in Polled : <>[](mood[s] = "answers") => <>[](failures[s] = 0)
=============================================================================
