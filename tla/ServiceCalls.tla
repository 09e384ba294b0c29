---------------------------- MODULE ServiceCalls ----------------------------
(***************************************************************************)
(* One service, the ServiceInstance rows that stand for it, and everybody  *)
(* who uses them at the same time: the poll thread and the threads of the  *)
(* user interface, which talk to it through BaseClient                     *)
(* (core/clients/base.py: the lock, the retries, the health fields, which  *)
(* are read in one statement and written in another), logging in as its    *)
(* kind demands (core/clients/download.py); and the pages that write rows: *)
(* the settings (core/views.py), the sign-in to a media server             *)
(* (core/signin.py) and discovery (core/discovery.py).                     *)
(***************************************************************************)
EXTENDS Integers, FiniteSets

CONSTANTS
  Workers,       \* threads
  Poller,        \* the one that polls
  Ids,           \* primary keys there ever are (bounds the model)
  Keys,          \* credentials there ever are
  Good,          \* those the service accepts
  Protocols,     \* what the service may be: see below
  Attempts,      \* BaseClient.attempts; 3 in the code
  MaxRequests,   \* questions one operation asks
  Enough,        \* failures are counted up to here
  MaxEdits,      \* edits, sign-ins and discoveries; each bounds the model
  MaxFaults      \* sessions the service forgets, daemons that are not there

Nobody == "nobody"
NoRow  == 0
NoKey  == "none"

ASSUME ServiceCallsAssumption ==
  /\ Poller \in Workers /\ "nobody" \notin Workers
  /\ Ids \subseteq Nat \ {0} /\ Ids # {}
  /\ Good \in Keys /\ "none" \notin Keys
  /\ Protocols \subseteq {"key", "login", "token", "proxy"}
  /\ {Attempts, MaxRequests, Enough} \subseteq Nat \ {0} /\ {MaxEdits, MaxFaults} \subseteq Nat

VARIABLES
  (* The service, out there.  It takes credentials with every request ("key": the *arrs,   *)
  (* the request managers, the media servers, SABnzbd, NZBGet), wants a login that opens   *)
  (* a session (qBittorrent), or that and a daemon attached (Deluge, a "proxy"), or hands  *)
  (* out a session in a refusal (Transmission: "token").                                   *)
  protocol, up,
  (* The rows *)
  rows,       \* those there are
  made,       \* those there ever were: a primary key is not used twice
  key, failures,
  backoff,    \* backoff_until: "none", "running" (in the future), "over" (in the past)
  (* The rows' entries in _locks *)
  holder,
  (* The threads: program counter and local variables *)
  pc,
  pk, copy,   \* the row the thread loaded, or found, and the credentials it has
  session,    \* of its client: "none", "good", or "stale" when the service has forgotten it
  ask,        \* what it asks: "login", "attach" or "query"
  again,      \* whether it has opened a second session for this question
  attempt, requests,
  seen,       \* consecutive_failures as record_failure read it
  (* What happened to the operation (history): 2 excuses a failure *)
  trouble,
  edits, faults

serviceVars == <<protocol, up>>
rowVars     == <<rows, made, key, failures, backoff>>
callVars    == <<session, ask, again, requests>>
workerVars  == <<pc, pk, copy, callVars, attempt, seen, trouble>>
boundVars   == <<edits, faults>>
vars        == <<serviceVars, rowVars, holder, workerVars, boundVars>>

InRequest == {"inFlight", "pausing"}
Calling   == {"wants"} \cup InRequest
Editing   == {"typed", "blank"}
Labels    == {"idle", "succeeded", "failed", "recording", "linking", "proposed"}
               \cup Calling \cup Editing

TypeOK ==
  /\ protocol \in Protocols /\ up \in BOOLEAN
  /\ rows \subseteq made /\ made \subseteq Ids
  /\ key \in [Ids -> Keys]
  /\ failures \in [Ids -> 0 .. Enough]
  /\ backoff \in [Ids -> {"none", "running", "over"}]
  /\ holder \in [Ids -> Workers \cup {Nobody}]
  /\ pc \in [Workers -> Labels]
  /\ pk \in [Workers -> Ids \cup {NoRow}]
  /\ copy \in [Workers -> Keys \cup {NoKey}]
  /\ session \in [Workers -> {"none", "good", "stale"}]
  /\ ask \in [Workers -> {"login", "attach", "query"}]
  /\ again \in [Workers -> BOOLEAN]
  /\ attempt \in [Workers -> 0 .. Attempts]
  /\ requests \in [Workers -> 0 .. MaxRequests]
  /\ seen \in [Workers -> 0 .. Enough]
  /\ trouble \in [Workers -> 0 .. 2]
  /\ edits \in 0 .. MaxEdits /\ faults \in 0 .. MaxFaults

Init ==
  /\ protocol \in Protocols /\ up \in BOOLEAN
  /\ made = {i \in Ids : \A j \in Ids : i =< j} /\ rows = made
  /\ \E k \in Keys : key = [i \in Ids |-> k]
  /\ failures = [i \in Ids |-> 0]
  /\ backoff = [i \in Ids |-> "none"]
  /\ holder = [i \in Ids |-> Nobody]
  /\ pc = [w \in Workers |-> "idle"]
  /\ pk = [w \in Workers |-> NoRow] /\ copy = [w \in Workers |-> NoKey]
  /\ session = [w \in Workers |-> "none"]
  /\ ask = [w \in Workers |-> "query"] /\ again = [w \in Workers |-> FALSE]
  /\ attempt = [w \in Workers |-> 0] /\ requests = [w \in Workers |-> 0]
  /\ seen = [w \in Workers |-> 0] /\ trouble = [w \in Workers |-> 0]
  /\ edits = 0 /\ faults = 0

Goto(w, label) == pc' = [pc EXCEPT ![w] = label]

\* The client is closed, and its session with it.
Close(w) ==
  /\ session' = [session EXCEPT ![w] = "none"]
  /\ ask' = [ask EXCEPT ![w] = "query"]
  /\ again' = [again EXCEPT ![w] = FALSE]
  /\ requests' = [requests EXCEPT ![w] = 0]

\* The operation is over: its local variables are gone.
Return(w) ==
  /\ Goto(w, "idle")
  /\ pk' = [pk EXCEPT ![w] = NoRow]
  /\ copy' = [copy EXCEPT ![w] = NoKey]
  /\ seen' = [seen EXCEPT ![w] = 0]
  /\ trouble' = [trouble EXCEPT ![w] = 0]
  /\ UNCHANGED <<callVars, attempt>>

Load(w, i, k) ==
  /\ pk' = [pk EXCEPT ![w] = i]
  /\ copy' = [copy EXCEPT ![w] = k]

-----------------------------------------------------------------------------
(* BaseClient.request                                                      *)

\* A client is made of row i and used: it logs in first, where there is something to log
\* in to.  The first question to Transmission is also a request for a session.
Use(w, i, k) ==
  /\ Goto(w, "wants") /\ Load(w, i, k)
  /\ ask' = [ask EXCEPT ![w] = IF protocol \in {"login", "proxy"} THEN "login" ELSE "query"]
  /\ requests' = [requests EXCEPT ![w] = 1]
  /\ trouble' = [trouble EXCEPT ![w] = IF ~up THEN 2 ELSE IF protocol = "token" THEN 1 ELSE 0]
  /\ UNCHANGED <<session, again, attempt, seen>>

\* As it would be if a backoff were taken for one that never ends.
BeginUnlessFailed(w, i) ==
  /\ pc[w] = "idle" /\ i \in rows
  /\ w = Poller => backoff[i] = "none"
  /\ Use(w, i, key[i])
  /\ UNCHANGED <<serviceVars, rowVars, holder, boundVars>>

\* A stage or a view loads the row; the poll thread leaves a service alone that is backed
\* off.
Begin(w, i) ==
  /\ pc[w] = "idle" /\ i \in rows
  /\ w = Poller => backoff[i] # "running"
  /\ Use(w, i, key[i])
  /\ UNCHANGED <<serviceVars, rowVars, holder, boundVars>>

\* As it would be without the lock.
AcquireFreely(w) ==
  /\ pc[w] = "wants"
  /\ holder' = [holder EXCEPT ![pk[w]] = w]
  /\ Goto(w, "inFlight")
  /\ attempt' = [attempt EXCEPT ![w] = 1]
  /\ UNCHANGED <<serviceVars, rowVars, pk, copy, callVars, seen, trouble, boundVars>>

Acquire(w) ==
  /\ pc[w] = "wants" /\ holder[pk[w]] = Nobody
  /\ holder' = [holder EXCEPT ![pk[w]] = w]
  /\ Goto(w, "inFlight")
  /\ attempt' = [attempt EXCEPT ![w] = 1]
  /\ UNCHANGED <<serviceVars, rowVars, pk, copy, callVars, seen, trouble, boundVars>>

Release(w) ==
  /\ holder' = [holder EXCEPT ![pk[w]] = Nobody]
  /\ attempt' = [attempt EXCEPT ![w] = 0]

\* The service answers in some way, to the request that is in flight.
Reached(w, question) == pc[w] = "inFlight" /\ ask[w] = question /\ up

\* What a request leaves alone however it ends, but for what the client makes of it.
LeavesAlone == UNCHANGED <<serviceVars, rowVars, pk, copy, seen, trouble, boundVars>>

Unchallenged(w) == protocol = "key" \/ session[w] = "good"

\* An answer; the operation may have more to ask, and a session of its own to open for it.
Answered(w) ==
  /\ Reached(w, "query") /\ copy[w] = Good /\ Unchallenged(w)
  /\ Release(w)
  /\ \/ /\ requests[w] < MaxRequests /\ Goto(w, "wants")
        /\ requests' = [requests EXCEPT ![w] = @ + 1]
        /\ again' = [again EXCEPT ![w] = FALSE]
        /\ UNCHANGED <<session, ask>>
     \/ Goto(w, "succeeded") /\ Close(w)
  /\ LeavesAlone

\* 401 or 403, or a login that answers 200 and says no: not retried.
Refused(w) ==
  /\ pc[w] = "inFlight" /\ ask[w] # "attach" /\ up /\ copy[w] # Good
  /\ Release(w)
  /\ Goto(w, "failed") /\ Close(w)
  /\ LeavesAlone

\* Deluge's probe asks for the version by one name and by another, and when both calls
\* fail it takes the service for healthy all the same.
Swallows(w) == protocol = "proxy" /\ w # Poller /\ ask[w] = "query"

GivesUp(w) ==
  /\ Release(w)
  /\ IF Swallows(w) /\ requests[w] < MaxRequests
       THEN /\ Goto(w, "wants")
            /\ requests' = [requests EXCEPT ![w] = @ + 1]
            /\ UNCHANGED <<session, ask, again>>
       ELSE Goto(w, IF Swallows(w) THEN "succeeded" ELSE "failed") /\ Close(w)

Pauses(w) == Goto(w, "pausing") /\ UNCHANGED <<holder, attempt, callVars>>

\* As it would be if the attempts were counted from zero.
UnansweredOnceMore(w) ==
  /\ pc[w] = "inFlight" /\ ~up
  /\ IF attempt[w] =< Attempts THEN Pauses(w) ELSE GivesUp(w)
  /\ LeavesAlone

\* No connection, a timeout or a 5xx: retried after a pause, with the lock held.
Unanswered(w) ==
  /\ pc[w] = "inFlight" /\ ~up
  /\ IF attempt[w] < Attempts THEN Pauses(w) ELSE GivesUp(w)
  /\ LeavesAlone

Retry(w) ==
  /\ pc[w] = "pausing"
  /\ Goto(w, "inFlight")
  /\ attempt' = [attempt EXCEPT ![w] = @ + 1]
  /\ UNCHANGED <<serviceVars, rowVars, holder, pk, copy, callVars, seen, trouble, boundVars>>

-----------------------------------------------------------------------------
(* Sessions (QBittorrentClient, TransmissionClient, DelugeClient)          *)

\* The lock is free between the login and the question it is for.
LoggedIn(w) ==
  /\ Reached(w, "login") /\ copy[w] = Good
  /\ Release(w)
  /\ Goto(w, "wants")
  /\ session' = [session EXCEPT ![w] = "good"]
  /\ ask' = [ask EXCEPT ![w] = IF protocol = "proxy" THEN "attach" ELSE "query"]
  /\ UNCHANGED <<again, requests>> /\ LeavesAlone

\* _ensure_daemon, its requests taken as one.
Attached(w) ==
  /\ Reached(w, "attach") /\ session[w] = "good"
  /\ Release(w)
  /\ Goto(w, "wants")
  /\ ask' = [ask EXCEPT ![w] = "query"]
  /\ UNCHANGED <<session, again, requests>> /\ LeavesAlone

\* There is no daemon, or it does not connect.
NotAttached(w) ==
  /\ Reached(w, "attach") /\ session[w] = "good"
  /\ faults < MaxFaults /\ faults' = faults + 1
  /\ Release(w)
  /\ Goto(w, "failed") /\ Close(w)
  /\ trouble' = [trouble EXCEPT ![w] = 2]
  /\ UNCHANGED <<serviceVars, rowVars, pk, copy, seen, edits>>

Challenged(w) ==
  /\ pc[w] = "inFlight" /\ ask[w] # "login" /\ up
  /\ copy[w] = Good /\ ~Unchallenged(w)

\* Who opens a second session for a question: Transmission's client and, when it polls,
\* qBittorrent's, whose probe does not.
SecondChance(w) == protocol = "token" \/ (protocol = "login" /\ w = Poller)

\* As it would be if a session that is lost were the end of the operation.
ChallengeIsFinal(w) == Challenged(w) /\ GivesUp(w) /\ LeavesAlone

\* 403 (qBittorrent) or 409 (Transmission) for want of a session: once per question a new
\* one is opened, by a login, or with the token the refusal carries.  Deluge's error is
\* like any other.
ChallengeMet(w) ==
  /\ Challenged(w)
  /\ IF again[w] \/ ~SecondChance(w)
       THEN GivesUp(w)
       ELSE /\ Release(w) /\ Goto(w, "wants")
            /\ again' = [again EXCEPT ![w] = TRUE]
            /\ session' = [session EXCEPT ![w] = IF protocol = "token" THEN "good" ELSE "none"]
            /\ ask' = [ask EXCEPT ![w] = IF protocol = "token" THEN "query" ELSE "login"]
            /\ UNCHANGED requests
  /\ LeavesAlone

\* The service forgets a session: it has restarted, or the session was too old.
Forget(w) ==
  /\ session[w] = "good" /\ faults < MaxFaults
  /\ faults' = faults + 1
  /\ session' = [session EXCEPT ![w] = "stale"]
  /\ trouble' = [trouble EXCEPT ![w] = IF @ = 0 /\ SecondChance(w) THEN 1 ELSE 2]
  /\ UNCHANGED <<serviceVars, rowVars, holder, pc, pk, copy, ask, again, requests, attempt,
                 seen, edits>>

-----------------------------------------------------------------------------
(* Health bookkeeping                                                      *)

\* record_success: one UPDATE of the health fields; of no row if there is none.
RecordSuccess(w) ==
  /\ pc[w] = "succeeded"
  /\ IF pk[w] \in rows
       THEN /\ failures' = [failures EXCEPT ![pk[w]] = 0]
            /\ backoff' = [backoff EXCEPT ![pk[w]] = "none"]
       ELSE UNCHANGED <<failures, backoff>>
  /\ Return(w)
  /\ UNCHANGED <<serviceVars, rows, made, key, holder, boundVars>>

\* record_failure reads the row ...
ReadFailures(w) ==
  /\ pc[w] = "failed"
  /\ IF pk[w] \in rows
       THEN /\ Goto(w, "recording")
            /\ seen' = [seen EXCEPT ![w] = failures[pk[w]]]
            /\ UNCHANGED <<pk, copy, callVars, attempt, trouble>>
       ELSE Return(w)
  /\ UNCHANGED <<serviceVars, rowVars, holder, boundVars>>

OneMore(n) == IF n < Enough THEN n + 1 ELSE Enough

\* As it would be if the failure were saved with the object the client was made of.
RecordFailureSaves(w) ==
  /\ pc[w] = "recording"
  /\ rows' = rows \cup {pk[w]} /\ key' = [key EXCEPT ![pk[w]] = copy[w]]
  /\ failures' = [failures EXCEPT ![pk[w]] = OneMore(seen[w])]
  /\ backoff' = [backoff EXCEPT ![pk[w]] = "running"]
  /\ Return(w)
  /\ UNCHANGED <<serviceVars, made, holder, boundVars>>

\* ... and writes the health fields; of no row if there is none.
RecordFailure(w) ==
  /\ pc[w] = "recording"
  /\ IF pk[w] \in rows
       THEN /\ failures' = [failures EXCEPT ![pk[w]] = OneMore(seen[w])]
            /\ backoff' = [backoff EXCEPT ![pk[w]] = "running"]
       ELSE UNCHANGED <<failures, backoff>>
  /\ Return(w)
  /\ UNCHANGED <<serviceVars, rows, made, key, holder, boundVars>>

-----------------------------------------------------------------------------
(* The pages that write rows                                               *)

\* The user turns to one of them.
Turn(w) ==
  /\ w # Poller /\ pc[w] = "idle"
  /\ edits < MaxEdits /\ edits' = edits + 1
  /\ UNCHANGED <<serviceVars, rowVars, holder, callVars, attempt, seen, trouble, faults>>

\* service_save loads the row; the form comes with a key, or with the field left blank.
LoadForEdit(w) ==
  /\ Turn(w)
  /\ \E i \in rows, form \in Editing : Goto(w, form) /\ Load(w, i, key[i])

\* All of a row is written, with credentials k and its health made good; it is inserted if
\* there is none.
Put(i, k) ==
  /\ rows' = rows \cup {i} /\ made' = made \cup {i}
  /\ key' = [key EXCEPT ![i] = k]
  /\ failures' = [failures EXCEPT ![i] = 0]
  /\ backoff' = [backoff EXCEPT ![i] = "none"]

\* As it would be if the count were left to the next success.
SaveKeepsCount(w, k) ==
  /\ pc[w] \in Editing
  /\ rows' = rows \cup {pk[w]} /\ key' = [key EXCEPT ![pk[w]] = k]
  /\ backoff' = [backoff EXCEPT ![pk[w]] = "none"]
  /\ Return(w)
  /\ UNCHANGED <<serviceVars, made, failures, holder, boundVars>>

\* service_save writes all of the row, and inserts it again if it has been deleted since.
Save(w, k) ==
  /\ pc[w] \in Editing
  /\ Put(pk[w], k)
  /\ Return(w)
  /\ UNCHANGED <<serviceVars, holder, boundVars>>

\* The key is the one typed, or, if the field was left blank, the one that was loaded.
SaveTyped(w) == pc[w] = "typed" /\ \E k \in Keys : Save(w, k)
SaveBlank(w) == pc[w] = "blank" /\ Save(w, copy[w])

\* service_delete, which is one step of a thread that does nothing else.
Delete(i) ==
  /\ i \in rows
  /\ rows' = rows \ {i}
  /\ failures' = [failures EXCEPT ![i] = 0] /\ backoff' = [backoff EXCEPT ![i] = "none"]
  /\ UNCHANGED <<serviceVars, made, key, holder, workerVars, boundVars>>

\* One of the rows with the service's host and port, or, if there is none, a new row,
\* which gets a primary key that was never used.
Found == IF rows # {} THEN rows ELSE {NoRow}
Fresh == {i \in Ids \ made : \A j \in Ids \ made : i =< j}

\* save_media_server, with the token of a sign-in, looks for the server's row ...
SignIn(w) ==
  /\ Turn(w) /\ protocol = "key" /\ Fresh # {}
  /\ \E i \in Found, k \in Keys : Load(w, i, k)
  /\ Goto(w, "linking")

\* ... and writes all of it, or a new one; the view then tries what it has stored.
Link(w) ==
  /\ pc[w] = "linking"
  /\ \E i \in IF pk[w] = NoRow THEN Fresh ELSE {pk[w]} :
       Put(i, copy[w]) /\ Use(w, i, copy[w])
  /\ UNCHANGED <<serviceVars, holder, boundVars>>

\* discover_apply asks the other services what there is, and with which credentials ...
Discover(w) ==
  /\ Turn(w) /\ Fresh # {}
  /\ \E i \in Found, k \in Keys : Load(w, i, k)
  /\ Goto(w, "proposed")

\* As it would be if a row that is known were saved as a whole.
ApplyCandidateSaves(w) ==
  /\ pc[w] = "proposed"
  /\ \E i \in IF pk[w] = NoRow THEN Fresh ELSE {pk[w]} : Put(i, copy[w])
  /\ Return(w)
  /\ UNCHANGED <<serviceVars, holder, boundVars>>

\* ... and apply_candidate adds what is new; of a row that is known it writes the routing
\* fields and no others, and nothing if it has been deleted since.
ApplyCandidate(w) ==
  /\ pc[w] = "proposed"
  /\ IF pk[w] = NoRow THEN \E i \in Fresh : Put(i, copy[w]) ELSE UNCHANGED rowVars
  /\ Return(w)
  /\ UNCHANGED <<serviceVars, holder, boundVars>>

-----------------------------------------------------------------------------

BackoffPasses(i) ==
  /\ backoff[i] = "running"
  /\ backoff' = [backoff EXCEPT ![i] = "over"]
  /\ UNCHANGED <<serviceVars, rows, made, key, failures, holder, workerVars, boundVars>>

UpOrDown ==
  /\ up' = ~up
  /\ trouble' = [w \in Workers |-> IF pc[w] \in Calling /\ ~up' THEN 2 ELSE trouble[w]]
  /\ UNCHANGED <<protocol, rowVars, holder, pc, pk, copy, callVars, attempt, seen, boundVars>>

\* What a thread does once it has begun an operation.
Goes(w) ==
  \/ Acquire(w) \/ Answered(w) \/ Refused(w) \/ Unanswered(w) \/ Retry(w)
  \/ LoggedIn(w) \/ Attached(w) \/ NotAttached(w) \/ ChallengeMet(w)
  \/ RecordSuccess(w) \/ ReadFailures(w) \/ RecordFailure(w)
  \/ SaveTyped(w) \/ SaveBlank(w) \/ Link(w) \/ ApplyCandidate(w)

\* What a user does next.
Turns(w) == LoadForEdit(w) \/ SignIn(w) \/ Discover(w)

Next ==
  \/ \E w \in Workers : Goes(w) \/ Turns(w) \/ Forget(w)
  \/ \E w \in Workers, i \in Ids : Begin(w, i)
  \/ \E i \in Ids : Delete(i) \/ BackoffPasses(i)
  \/ UpOrDown

Spec == Init /\ [][Next]_vars

\* Every operation that was begun goes on: calls have time limits, and a lock that is free
\* now and then is got in the end by a thread that goes on trying, although Python's locks
\* promise no order.  The poll thread polls again and again, every row in its turn, and
\* time passes.
FairSpec ==
  /\ Spec
  /\ \A w \in Workers : SF_vars(Goes(w))
  /\ \A i \in Ids : SF_vars(BackoffPasses(i) \/ Begin(Poller, i))

-----------------------------------------------------------------------------
(* Properties                                                              *)

\* "One in-flight request per service instance": of all threads only the one that holds
\* a row's lock is in a request for it, its pauses between attempts included.
OneInFlight == \A w \in Workers : pc[w] \in InRequest => holder[pk[w]] = w

\* The health fields agree, whoever wrote them last and whatever he had read before: a
\* service without failures is not backed off, and one with failures was.
HealthAgrees == \A i \in Ids : failures[i] = 0 <=> backoff[i] = "none"

\* A failure, and the backoff that follows, is never the work of the session alone: with
\* the right credentials an operation fails only if the service was down at some time in
\* it, or forgot its session twice; once is enough for Transmission's first question,
\* which has no session to begin with, and where there is no second chance.
OnlyTroubleFails ==
  \A w \in Workers : pc[w] \in {"failed", "recording"} => trouble[w] = 2 \/ copy[w] # Good

\* A thread that only talks to a service never undoes what the settings page or a sign-in
\* saved in the meantime, and never brings a deleted service back; nor does discovery,
\* which may only add rows that never were.
SettingsAreEdited ==
  [][\A i \in Ids :
       key'[i] # key[i] \/ i \in rows' \ rows =>
         \E w \in Workers : \/ pc[w] \in Editing \cup {"linking"}
                            \/ pc[w] = "proposed" /\ i \notin made]_vars

\* Whatever was in flight when the key was mended and the service came back, and whatever
\* had been read before: the service is healthy in the end.
Heals ==
  \A i \in Ids : <>[](i \in rows /\ up /\ key[i] = Good) => <>[](failures[i] = 0)
=============================================================================
