------------------------- MODULE ServiceCallsProofs -------------------------
(***************************************************************************)
(* One service, any number of rows for it and of threads that use them:    *)
(* what holds of the rows, their locks and the sessions however the steps  *)
(* interleave.                                                             *)
(***************************************************************************)
EXTENDS ServiceCalls, TLAPS

\* A pause is followed by another attempt, so some are left.
AttemptsLeft == \A w \in Workers : pc[w] = "pausing" => attempt[w] < Attempts

\* Who has begun has credentials, and a row unless he is about to add one.
HasRow ==
  \A w \in Workers :
    /\ pc[w] # "idle" => copy[w] \in Keys
    /\ pc[w] \notin {"idle", "linking", "proposed"} => pk[w] \in Ids

\* There are sessions only in calls, and none is given up but for a login: past it there is
\* one, and Transmission's second chance has brought one.
HasSession ==
  \A w \in Workers :
    /\ pc[w] \notin Calling => session[w] = "none" /\ ~again[w]
    /\ pc[w] \in Calling /\ ask[w] # "login" /\ protocol \in {"login", "proxy"} =>
         session[w] # "none"
    /\ pc[w] \in Calling /\ protocol = "token" /\ again[w] => session[w] # "none"

\* What the trouble of a call says of it: the service was down, or did not know a session, or
\* did not know one where there is no other chance.
TroubleTells ==
  \A w \in Workers : pc[w] \in Calling =>
    /\ ~up => trouble[w] = 2
    /\ protocol = "token" \/ again[w] \/ session[w] = "stale" => trouble[w] # 0
    /\ session[w] = "stale" /\ (protocol = "token" \/ again[w] \/ ~SecondChance(w)) =>
         trouble[w] = 2

\* What the steps keep together.
IInv ==
  /\ TypeOK /\ AttemptsLeft /\ HasRow /\ HasSession /\ TroubleTells
  /\ OneInFlight /\ HealthAgrees /\ OnlyTroubleFails

-----------------------------------------------------------------------------

\* The constants, one by one.
LEMMA Numbers ==
  /\ Attempts \in Nat /\ Attempts > 0 /\ MaxRequests \in Nat /\ MaxRequests > 0
  /\ Enough \in Nat /\ Enough > 0 /\ MaxEdits \in Nat /\ MaxFaults \in Nat
  /\ Poller \in Workers /\ Nobody \notin Workers /\ Good \in Keys
  /\ Ids \subseteq Nat /\ NoRow \notin Ids /\ NoKey \notin Keys
BY ServiceCallsAssumption DEF Nobody, NoRow, NoKey

\* The invariant holds at the start.
LEMMA InitEstablishes == Init => IInv
<1> SUFFICES ASSUME Init PROVE IInv
  OBVIOUS
<1>1. /\ 0 \in 0 .. Enough /\ 0 \in 0 .. Attempts /\ 0 \in 0 .. MaxRequests
      /\ 0 \in 0 .. MaxEdits /\ 0 \in 0 .. MaxFaults
  BY Numbers
<1>2. TypeOK
  BY <1>1 DEF Init, TypeOK, Labels
<1> QED
  BY <1>2 DEF IInv, Init, AttemptsLeft, HasRow, HasSession, TroubleTells, OneInFlight,
              HealthAgrees, OnlyTroubleFails, Calling, InRequest

\* The types, operator by operator.
LEMMA ReleaseTypes ==
  ASSUME TypeOK, NEW w \in Workers, Release(w)
  PROVE  holder' \in [Ids -> Workers \cup {Nobody}] /\ attempt' \in [Workers -> 0 .. Attempts]
<1>1. 0 \in 0 .. Attempts
  BY Numbers
<1> QED
  BY <1>1 DEF TypeOK, Release

LEMMA CloseTypes ==
  ASSUME TypeOK, NEW w \in Workers, Close(w)
  PROVE  /\ session' \in [Workers -> {"none", "good", "stale"}]
         /\ ask' \in [Workers -> {"login", "attach", "query"}]
         /\ again' \in [Workers -> BOOLEAN]
         /\ requests' \in [Workers -> 0 .. MaxRequests]
<1>1. 0 \in 0 .. MaxRequests
  BY Numbers
<1> QED
  BY <1>1 DEF TypeOK, Close

LEMMA NextQuestionTypes ==
  ASSUME TypeOK, NEW w \in Workers, requests[w] < MaxRequests,
         requests' = [requests EXCEPT ![w] = @ + 1]
  PROVE  requests' \in [Workers -> 0 .. MaxRequests]
<1>1. requests[w] + 1 \in 0 .. MaxRequests
  BY Numbers DEF TypeOK
<1> QED
  BY <1>1 DEF TypeOK

LEMMA GivesUpTypes ==
  ASSUME TypeOK, NEW w \in Workers, GivesUp(w)
  PROVE  /\ pc' \in [Workers -> Labels]
         /\ holder' \in [Ids -> Workers \cup {Nobody}] /\ attempt' \in [Workers -> 0 .. Attempts]
         /\ session' \in [Workers -> {"none", "good", "stale"}]
         /\ ask' \in [Workers -> {"login", "attach", "query"}]
         /\ again' \in [Workers -> BOOLEAN]
         /\ requests' \in [Workers -> 0 .. MaxRequests]
<1>1. holder' \in [Ids -> Workers \cup {Nobody}] /\ attempt' \in [Workers -> 0 .. Attempts]
  BY ReleaseTypes DEF GivesUp
<1>2. CASE Swallows(w) /\ requests[w] < MaxRequests
  <2>1. requests' \in [Workers -> 0 .. MaxRequests]
    BY <1>2, NextQuestionTypes DEF GivesUp
  <2> QED
    BY <1>1, <1>2, <2>1 DEF GivesUp, Goto, TypeOK, Labels, Calling
<1>3. CASE ~(Swallows(w) /\ requests[w] < MaxRequests)
  <2>1. Close(w)
    BY <1>3 DEF GivesUp
  <2>2. Goto(w, IF Swallows(w) THEN "succeeded" ELSE "failed")
    BY <1>3 DEF GivesUp
  <2>3. pc' \in [Workers -> Labels]
    BY <2>2 DEF Goto, TypeOK, Labels
  <2> QED
    BY <1>1, <2>1, <2>3, CloseTypes
<1> QED
  BY <1>2, <1>3

LEMMA ReturnTypes ==
  ASSUME TypeOK, NEW w \in Workers, Return(w)
  PROVE  /\ pc' \in [Workers -> Labels]
         /\ pk' \in [Workers -> Ids \cup {NoRow}] /\ copy' \in [Workers -> Keys \cup {NoKey}]
         /\ seen' \in [Workers -> 0 .. Enough] /\ trouble' \in [Workers -> 0 .. 2]
         /\ UNCHANGED <<session, ask, again, requests, attempt>>
<1>1. 0 \in 0 .. Enough
  BY Numbers
<1> QED
  BY <1>1 DEF TypeOK, Return, Goto, Labels, callVars

LEMMA PutTypes ==
  ASSUME TypeOK, NEW i \in Ids, NEW k \in Keys, Put(i, k)
  PROVE  /\ rows' \subseteq made' /\ made' \subseteq Ids
         /\ key' \in [Ids -> Keys] /\ failures' \in [Ids -> 0 .. Enough]
         /\ backoff' \in [Ids -> {"none", "running", "over"}]
<1>1. 0 \in 0 .. Enough
  BY Numbers
<1> QED
  BY <1>1 DEF TypeOK, Put


\* The variables keep their types.
LEMMA TypeStep ==
  ASSUME TypeOK, AttemptsLeft, HasRow, [Next]_vars
  PROVE  TypeOK'
<1> USE Numbers DEF TypeOK, AttemptsLeft, HasRow, Labels, Calling, InRequest, Editing,
                    rowVars, serviceVars, callVars, workerVars, boundVars
<1>1. ASSUME NEW w \in Workers, Acquire(w)
      PROVE  TypeOK'
  BY <1>1 DEF Acquire, Goto
<1>2. ASSUME NEW w \in Workers, Answered(w)
      PROVE  TypeOK'
  <2>1. holder' \in [Ids -> Workers \cup {Nobody}] /\ attempt' \in [Workers -> 0 .. Attempts]
    BY <1>2, ReleaseTypes DEF Answered
  <2>2. CASE Goto(w, "succeeded") /\ Close(w)
    BY <1>2, <2>1, <2>2, CloseTypes DEF Answered, Goto, LeavesAlone
  <2>3. CASE ~(Goto(w, "succeeded") /\ Close(w))
    <3>1. requests' \in [Workers -> 0 .. MaxRequests]
      BY <1>2, <2>3, NextQuestionTypes DEF Answered
    <3> QED
      BY <1>2, <2>1, <2>3, <3>1 DEF Answered, Goto, LeavesAlone
  <2> QED
    BY <2>2, <2>3
<1>3. ASSUME NEW w \in Workers, Refused(w)
      PROVE  TypeOK'
  BY <1>3 DEF Refused, Goto, Release, Close, LeavesAlone
<1>4. ASSUME NEW w \in Workers, Unanswered(w)
      PROVE  TypeOK'
  <2>1. CASE GivesUp(w)
    BY <1>4, <2>1, GivesUpTypes DEF Unanswered, LeavesAlone
  <2>2. CASE Pauses(w)
    BY <1>4, <2>2 DEF Unanswered, Pauses, Goto, LeavesAlone
  <2> QED
    BY <1>4, <2>1, <2>2 DEF Unanswered
<1>5. ASSUME NEW w \in Workers, Retry(w)
      PROVE  TypeOK'
  BY <1>5 DEF Retry, Goto
<1>6. ASSUME NEW w \in Workers, LoggedIn(w)
      PROVE  TypeOK'
  BY <1>6 DEF LoggedIn, Reached, Goto, Release, LeavesAlone
<1>7. ASSUME NEW w \in Workers, Attached(w)
      PROVE  TypeOK'
  BY <1>7 DEF Attached, Reached, Goto, Release, LeavesAlone
<1>8. ASSUME NEW w \in Workers, NotAttached(w)
      PROVE  TypeOK'
  BY <1>8 DEF NotAttached, Reached, Goto, Release, Close
<1>9. ASSUME NEW w \in Workers, ChallengeMet(w)
      PROVE  TypeOK'
  <2>1. CASE GivesUp(w)
    BY <1>9, <2>1, GivesUpTypes DEF ChallengeMet, LeavesAlone
  <2>2. CASE ~(again[w] \/ ~SecondChance(w))
    <3>1. holder' \in [Ids -> Workers \cup {Nobody}] /\ attempt' \in [Workers -> 0 .. Attempts]
      BY <1>9, <2>2, ReleaseTypes DEF ChallengeMet
    <3> QED
      BY <1>9, <2>2, <3>1 DEF ChallengeMet, Goto, LeavesAlone
  <2> QED
    BY <1>9, <2>1, <2>2 DEF ChallengeMet
<1>10. ASSUME NEW w \in Workers, Forget(w)
      PROVE  TypeOK'
  BY <1>10 DEF Forget, SecondChance
<1>11. ASSUME NEW w \in Workers, RecordSuccess(w)
      PROVE  TypeOK'
  BY <1>11 DEF RecordSuccess, Return, Goto
<1>12. ASSUME NEW w \in Workers, ReadFailures(w)
      PROVE  TypeOK'
  <2>1. CASE pk[w] \in rows
    <3>1. failures[pk[w]] \in 0 .. Enough
      BY <2>1
    <3> QED
      BY <1>12, <2>1, <3>1 DEF ReadFailures, Goto
  <2>2. CASE pk[w] \notin rows
    BY <1>12, <2>2, ReturnTypes DEF ReadFailures
  <2> QED
    BY <2>1, <2>2
<1>13. ASSUME NEW w \in Workers, RecordFailure(w)
      PROVE  TypeOK'
  BY <1>13 DEF RecordFailure, OneMore, Return, Goto
<1>14. ASSUME NEW w \in Workers, SaveTyped(w)
      PROVE  TypeOK'
  <2>1. PICK k \in Keys : Put(pk[w], k)
    BY <1>14 DEF SaveTyped, Save
  <2>2. pk[w] \in Ids
    BY <1>14 DEF SaveTyped
  <2> QED
    BY <1>14, <2>1, <2>2, PutTypes, ReturnTypes DEF SaveTyped, Save
<1>15. ASSUME NEW w \in Workers, SaveBlank(w)
      PROVE  TypeOK'
  <2>1. pk[w] \in Ids /\ copy[w] \in Keys /\ Put(pk[w], copy[w])
    BY <1>15 DEF SaveBlank, Save
  <2> QED
    BY <1>15, <2>1, PutTypes, ReturnTypes DEF SaveBlank, Save
<1>16. ASSUME NEW w \in Workers, Link(w)
      PROVE  TypeOK'
  BY <1>16 DEF Link, Fresh, Put, Use, Load, Goto
<1>17. ASSUME NEW w \in Workers, ApplyCandidate(w)
      PROVE  TypeOK'
  <2>1. copy[w] \in Keys
    BY <1>17 DEF ApplyCandidate
  <2>2. CASE pk[w] = NoRow
    <3>1. PICK i \in Fresh : Put(i, copy[w])
      BY <1>17, <2>2 DEF ApplyCandidate
    <3> QED
      BY <1>17, <2>1, <3>1, PutTypes, ReturnTypes DEF ApplyCandidate, Fresh
  <2>3. CASE pk[w] # NoRow
    BY <1>17, <2>3, ReturnTypes DEF ApplyCandidate
  <2> QED
    BY <2>2, <2>3
<1>18. ASSUME NEW w \in Workers, LoadForEdit(w)
      PROVE  TypeOK'
  BY <1>18 DEF LoadForEdit, Turn, Load, Goto
<1>19. ASSUME NEW w \in Workers, SignIn(w)
      PROVE  TypeOK'
  BY <1>19 DEF SignIn, Turn, Found, Load, Goto
<1>20. ASSUME NEW w \in Workers, Discover(w)
      PROVE  TypeOK'
  BY <1>20 DEF Discover, Turn, Found, Load, Goto
<1>21. ASSUME NEW w \in Workers, NEW i \in Ids, Begin(w, i)
      PROVE  TypeOK'
  BY <1>21 DEF Begin, Use, Load, Goto
<1>22. ASSUME NEW i \in Ids, Delete(i) \/ BackoffPasses(i)
      PROVE  TypeOK'
  <2>1. CASE Delete(i)
    <3>1. 0 \in 0 .. Enough
      BY Numbers
    <3>2. failures' \in [Ids -> 0 .. Enough] /\ backoff' \in [Ids -> {"none", "running", "over"}]
      BY <2>1, <3>1 DEF Delete
    <3> QED
      BY <2>1, <3>2 DEF Delete
  <2>2. CASE BackoffPasses(i)
    BY <2>2 DEF BackoffPasses
  <2> QED
    BY <1>22, <2>1, <2>2
<1>23. CASE UpOrDown \/ UNCHANGED vars
  <2>1. CASE UpOrDown
    <3>1. \A w \in Workers : trouble[w] \in 0 .. 2
      OBVIOUS
    <3>2. 2 \in 0 .. 2
      OBVIOUS
    <3>3. trouble' \in [Workers -> 0 .. 2]
      BY <2>1, <3>1, <3>2 DEF UpOrDown
    <3> QED
      BY <2>1, <3>3 DEF UpOrDown
  <2>2. CASE UNCHANGED vars
    BY <2>2 DEF vars
  <2> QED
    BY <1>23, <2>1, <2>2
<1> QED
  BY <1>1, <1>2, <1>3, <1>4, <1>5, <1>6, <1>7, <1>8, <1>9, <1>10, <1>11, <1>12, <1>13,
     <1>14, <1>15, <1>16, <1>17, <1>18, <1>19, <1>20, <1>21, <1>22, <1>23
  DEF Next, Goes, Turns

\* Nobody pauses after the last attempt.
LEMMA AttemptsStep ==
  ASSUME TypeOK, AttemptsLeft, [Next]_vars
  PROVE  AttemptsLeft'
<1> USE Numbers DEF TypeOK, AttemptsLeft, Labels, Calling, InRequest, Editing, rowVars,
                    serviceVars, callVars, workerVars, boundVars
<1>1. ASSUME NEW w \in Workers, Acquire(w)
      PROVE  AttemptsLeft'
  BY <1>1 DEF Acquire, Goto
<1>2. ASSUME NEW w \in Workers, Answered(w)
      PROVE  AttemptsLeft'
  BY <1>2 DEF Answered, Goto, Reached, Unchallenged, Release, Close, LeavesAlone
<1>3. ASSUME NEW w \in Workers, Refused(w)
      PROVE  AttemptsLeft'
  BY <1>3 DEF Refused, Goto, Release, Close, LeavesAlone
<1>4. ASSUME NEW w \in Workers, Unanswered(w)
      PROVE  AttemptsLeft'
  BY <1>4 DEF Unanswered, Goto, Pauses, GivesUp, Swallows, Release, Close, LeavesAlone
<1>5. ASSUME NEW w \in Workers, Retry(w)
      PROVE  AttemptsLeft'
  BY <1>5 DEF Retry, Goto
<1>6. ASSUME NEW w \in Workers, LoggedIn(w)
      PROVE  AttemptsLeft'
  BY <1>6 DEF LoggedIn, Reached, Goto, Release, LeavesAlone
<1>7. ASSUME NEW w \in Workers, Attached(w)
      PROVE  AttemptsLeft'
  BY <1>7 DEF Attached, Reached, Goto, Release, LeavesAlone
<1>8. ASSUME NEW w \in Workers, NotAttached(w)
      PROVE  AttemptsLeft'
  BY <1>8 DEF NotAttached, Reached, Goto, Release, Close
<1>9. ASSUME NEW w \in Workers, ChallengeMet(w)
      PROVE  AttemptsLeft'
  BY <1>9 DEF ChallengeMet, Challenged, Unchallenged, SecondChance, Goto, GivesUp,
        Swallows, Release, Close, LeavesAlone
<1>10. ASSUME NEW w \in Workers, Forget(w)
      PROVE  AttemptsLeft'
  BY <1>10 DEF Forget, SecondChance
<1>11. ASSUME NEW w \in Workers, RecordSuccess(w)
      PROVE  AttemptsLeft'
  BY <1>11 DEF RecordSuccess, Return, Goto
<1>12. ASSUME NEW w \in Workers, ReadFailures(w)
      PROVE  AttemptsLeft'
  BY <1>12 DEF ReadFailures, Return, Goto
<1>13. ASSUME NEW w \in Workers, RecordFailure(w)
      PROVE  AttemptsLeft'
  BY <1>13 DEF RecordFailure, OneMore, Return, Goto
<1>14. ASSUME NEW w \in Workers, SaveTyped(w)
      PROVE  AttemptsLeft'
  BY <1>14 DEF SaveTyped, Save, Put, Return, Goto
<1>15. ASSUME NEW w \in Workers, SaveBlank(w)
      PROVE  AttemptsLeft'
  BY <1>15 DEF SaveBlank, Save, Put, Return, Goto
<1>16. ASSUME NEW w \in Workers, Link(w)
      PROVE  AttemptsLeft'
  BY <1>16 DEF Link, Fresh, Put, Use, Load, Goto
<1>17. ASSUME NEW w \in Workers, ApplyCandidate(w)
      PROVE  AttemptsLeft'
  BY <1>17 DEF ApplyCandidate, Fresh, Put, Return, Goto
<1>18. ASSUME NEW w \in Workers, LoadForEdit(w)
      PROVE  AttemptsLeft'
  BY <1>18 DEF LoadForEdit, Turn, Load, Goto
<1>19. ASSUME NEW w \in Workers, SignIn(w)
      PROVE  AttemptsLeft'
  BY <1>19 DEF SignIn, Turn, Found, Load, Goto
<1>20. ASSUME NEW w \in Workers, Discover(w)
      PROVE  AttemptsLeft'
  BY <1>20 DEF Discover, Turn, Found, Load, Goto
<1>21. ASSUME NEW w \in Workers, NEW i \in Ids, Begin(w, i)
      PROVE  AttemptsLeft'
  BY <1>21 DEF Begin, Use, Load, Goto
<1>22. ASSUME NEW i \in Ids, Delete(i) \/ BackoffPasses(i)
      PROVE  AttemptsLeft'
  BY <1>22 DEF Delete, BackoffPasses
<1>23. CASE UpOrDown \/ UNCHANGED vars
  BY <1>23 DEF UpOrDown, vars
<1> QED
  BY <1>1, <1>2, <1>3, <1>4, <1>5, <1>6, <1>7, <1>8, <1>9, <1>10, <1>11, <1>12, <1>13,
     <1>14, <1>15, <1>16, <1>17, <1>18, <1>19, <1>20, <1>21, <1>22, <1>23
  DEF Next, Goes, Turns

\* A row once loaded stays in hand, and so do the credentials.
LEMMA RowStep ==
  ASSUME TypeOK, HasRow, [Next]_vars
  PROVE  HasRow'
<1> USE Numbers DEF TypeOK, HasRow, Labels, Calling, InRequest, Editing, rowVars,
                    serviceVars, callVars, workerVars, boundVars
<1>1. ASSUME NEW w \in Workers, Acquire(w)
      PROVE  HasRow'
  BY <1>1 DEF Acquire, Goto
<1>2. ASSUME NEW w \in Workers, Answered(w)
      PROVE  HasRow'
  BY <1>2 DEF Answered, Goto, Reached, Unchallenged, Release, Close, LeavesAlone
<1>3. ASSUME NEW w \in Workers, Refused(w)
      PROVE  HasRow'
  BY <1>3 DEF Refused, Goto, Release, Close, LeavesAlone
<1>4. ASSUME NEW w \in Workers, Unanswered(w)
      PROVE  HasRow'
  BY <1>4 DEF Unanswered, Goto, Pauses, GivesUp, Swallows, Release, Close, LeavesAlone
<1>5. ASSUME NEW w \in Workers, Retry(w)
      PROVE  HasRow'
  BY <1>5 DEF Retry, Goto
<1>6. ASSUME NEW w \in Workers, LoggedIn(w)
      PROVE  HasRow'
  BY <1>6 DEF LoggedIn, Reached, Goto, Release, LeavesAlone
<1>7. ASSUME NEW w \in Workers, Attached(w)
      PROVE  HasRow'
  BY <1>7 DEF Attached, Reached, Goto, Release, LeavesAlone
<1>8. ASSUME NEW w \in Workers, NotAttached(w)
      PROVE  HasRow'
  BY <1>8 DEF NotAttached, Reached, Goto, Release, Close
<1>9. ASSUME NEW w \in Workers, ChallengeMet(w)
      PROVE  HasRow'
  BY <1>9 DEF ChallengeMet, Challenged, Unchallenged, SecondChance, Goto, GivesUp,
        Swallows, Release, Close, LeavesAlone
<1>10. ASSUME NEW w \in Workers, Forget(w)
      PROVE  HasRow'
  BY <1>10 DEF Forget, SecondChance
<1>11. ASSUME NEW w \in Workers, RecordSuccess(w)
      PROVE  HasRow'
  BY <1>11 DEF RecordSuccess, Return, Goto
<1>12. ASSUME NEW w \in Workers, ReadFailures(w)
      PROVE  HasRow'
  BY <1>12 DEF ReadFailures, Return, Goto
<1>13. ASSUME NEW w \in Workers, RecordFailure(w)
      PROVE  HasRow'
  BY <1>13 DEF RecordFailure, OneMore, Return, Goto
<1>14. ASSUME NEW w \in Workers, SaveTyped(w)
      PROVE  HasRow'
  BY <1>14 DEF SaveTyped, Save, Put, Return, Goto
<1>15. ASSUME NEW w \in Workers, SaveBlank(w)
      PROVE  HasRow'
  BY <1>15 DEF SaveBlank, Save, Put, Return, Goto
<1>16. ASSUME NEW w \in Workers, Link(w)
      PROVE  HasRow'
  BY <1>16 DEF Link, Fresh, Put, Use, Load, Goto
<1>17. ASSUME NEW w \in Workers, ApplyCandidate(w)
      PROVE  HasRow'
  BY <1>17 DEF ApplyCandidate, Fresh, Put, Return, Goto
<1>18. ASSUME NEW w \in Workers, LoadForEdit(w)
      PROVE  HasRow'
  BY <1>18 DEF LoadForEdit, Turn, Load, Goto
<1>19. ASSUME NEW w \in Workers, SignIn(w)
      PROVE  HasRow'
  BY <1>19 DEF SignIn, Turn, Found, Load, Goto
<1>20. ASSUME NEW w \in Workers, Discover(w)
      PROVE  HasRow'
  BY <1>20 DEF Discover, Turn, Found, Load, Goto
<1>21. ASSUME NEW w \in Workers, NEW i \in Ids, Begin(w, i)
      PROVE  HasRow'
  BY <1>21 DEF Begin, Use, Load, Goto
<1>22. ASSUME NEW i \in Ids, Delete(i) \/ BackoffPasses(i)
      PROVE  HasRow'
  BY <1>22 DEF Delete, BackoffPasses
<1>23. CASE UpOrDown \/ UNCHANGED vars
  BY <1>23 DEF UpOrDown, vars
<1> QED
  BY <1>1, <1>2, <1>3, <1>4, <1>5, <1>6, <1>7, <1>8, <1>9, <1>10, <1>11, <1>12, <1>13,
     <1>14, <1>15, <1>16, <1>17, <1>18, <1>19, <1>20, <1>21, <1>22, <1>23
  DEF Next, Goes, Turns

\* A session lost is followed by a login.
LEMMA SessionStep ==
  ASSUME TypeOK, HasSession, [Next]_vars
  PROVE  HasSession'
<1> USE Numbers DEF TypeOK, HasSession, Labels, Calling, InRequest, Editing, rowVars,
                    serviceVars, callVars, workerVars, boundVars
<1>1. ASSUME NEW w \in Workers, Acquire(w)
      PROVE  HasSession'
  BY <1>1 DEF Acquire, Goto
<1>2. ASSUME NEW w \in Workers, Answered(w)
      PROVE  HasSession'
  BY <1>2 DEF Answered, Goto, Reached, Unchallenged, Release, Close, LeavesAlone
<1>3. ASSUME NEW w \in Workers, Refused(w)
      PROVE  HasSession'
  BY <1>3 DEF Refused, Goto, Release, Close, LeavesAlone
<1>4. ASSUME NEW w \in Workers, Unanswered(w)
      PROVE  HasSession'
  BY <1>4 DEF Unanswered, Goto, Pauses, GivesUp, Swallows, Release, Close, LeavesAlone
<1>5. ASSUME NEW w \in Workers, Retry(w)
      PROVE  HasSession'
  BY <1>5 DEF Retry, Goto
<1>6. ASSUME NEW w \in Workers, LoggedIn(w)
      PROVE  HasSession'
  BY <1>6 DEF LoggedIn, Reached, Goto, Release, LeavesAlone
<1>7. ASSUME NEW w \in Workers, Attached(w)
      PROVE  HasSession'
  BY <1>7 DEF Attached, Reached, Goto, Release, LeavesAlone
<1>8. ASSUME NEW w \in Workers, NotAttached(w)
      PROVE  HasSession'
  BY <1>8 DEF NotAttached, Reached, Goto, Release, Close
<1>9. ASSUME NEW w \in Workers, ChallengeMet(w)
      PROVE  HasSession'
  BY <1>9 DEF ChallengeMet, Challenged, Unchallenged, SecondChance, Goto, GivesUp,
        Swallows, Release, Close, LeavesAlone
<1>10. ASSUME NEW w \in Workers, Forget(w)
      PROVE  HasSession'
  BY <1>10 DEF Forget, SecondChance
<1>11. ASSUME NEW w \in Workers, RecordSuccess(w)
      PROVE  HasSession'
  BY <1>11 DEF RecordSuccess, Return, Goto
<1>12. ASSUME NEW w \in Workers, ReadFailures(w)
      PROVE  HasSession'
  BY <1>12 DEF ReadFailures, Return, Goto
<1>13. ASSUME NEW w \in Workers, RecordFailure(w)
      PROVE  HasSession'
  BY <1>13 DEF RecordFailure, OneMore, Return, Goto
<1>14. ASSUME NEW w \in Workers, SaveTyped(w)
      PROVE  HasSession'
  BY <1>14 DEF SaveTyped, Save, Put, Return, Goto
<1>15. ASSUME NEW w \in Workers, SaveBlank(w)
      PROVE  HasSession'
  BY <1>15 DEF SaveBlank, Save, Put, Return, Goto
<1>16. ASSUME NEW w \in Workers, Link(w)
      PROVE  HasSession'
  BY <1>16 DEF Link, Fresh, Put, Use, Load, Goto
<1>17. ASSUME NEW w \in Workers, ApplyCandidate(w)
      PROVE  HasSession'
  BY <1>17 DEF ApplyCandidate, Fresh, Put, Return, Goto
<1>18. ASSUME NEW w \in Workers, LoadForEdit(w)
      PROVE  HasSession'
  BY <1>18 DEF LoadForEdit, Turn, Load, Goto
<1>19. ASSUME NEW w \in Workers, SignIn(w)
      PROVE  HasSession'
  BY <1>19 DEF SignIn, Turn, Found, Load, Goto
<1>20. ASSUME NEW w \in Workers, Discover(w)
      PROVE  HasSession'
  BY <1>20 DEF Discover, Turn, Found, Load, Goto
<1>21. ASSUME NEW w \in Workers, NEW i \in Ids, Begin(w, i)
      PROVE  HasSession'
  BY <1>21 DEF Begin, Use, Load, Goto
<1>22. ASSUME NEW i \in Ids, Delete(i) \/ BackoffPasses(i)
      PROVE  HasSession'
  BY <1>22 DEF Delete, BackoffPasses
<1>23. CASE UpOrDown \/ UNCHANGED vars
  BY <1>23 DEF UpOrDown, vars
<1> QED
  BY <1>1, <1>2, <1>3, <1>4, <1>5, <1>6, <1>7, <1>8, <1>9, <1>10, <1>11, <1>12, <1>13,
     <1>14, <1>15, <1>16, <1>17, <1>18, <1>19, <1>20, <1>21, <1>22, <1>23
  DEF Next, Goes, Turns

\* Trouble is noted when it comes, and kept.
LEMMA TroubleStep ==
  ASSUME TypeOK, HasSession, TroubleTells, [Next]_vars
  PROVE  TroubleTells'
<1> USE Numbers DEF TypeOK, HasSession, TroubleTells, SecondChance, Labels, Calling,
                    InRequest, Editing, rowVars, serviceVars, callVars, workerVars,
                    boundVars
<1>1. ASSUME NEW w \in Workers, Acquire(w)
      PROVE  TroubleTells'
  BY <1>1 DEF Acquire, Goto
<1>2. ASSUME NEW w \in Workers, Answered(w)
      PROVE  TroubleTells'
  BY <1>2 DEF Answered, Goto, Reached, Unchallenged, Release, Close, LeavesAlone
<1>3. ASSUME NEW w \in Workers, Refused(w)
      PROVE  TroubleTells'
  BY <1>3 DEF Refused, Goto, Release, Close, LeavesAlone
<1>4. ASSUME NEW w \in Workers, Unanswered(w)
      PROVE  TroubleTells'
  BY <1>4 DEF Unanswered, Goto, Pauses, GivesUp, Swallows, Release, Close, LeavesAlone
<1>5. ASSUME NEW w \in Workers, Retry(w)
      PROVE  TroubleTells'
  BY <1>5 DEF Retry, Goto
<1>6. ASSUME NEW w \in Workers, LoggedIn(w)
      PROVE  TroubleTells'
  BY <1>6 DEF LoggedIn, Reached, Goto, Release, LeavesAlone
<1>7. ASSUME NEW w \in Workers, Attached(w)
      PROVE  TroubleTells'
  BY <1>7 DEF Attached, Reached, Goto, Release, LeavesAlone
<1>8. ASSUME NEW w \in Workers, NotAttached(w)
      PROVE  TroubleTells'
  BY <1>8 DEF NotAttached, Reached, Goto, Release, Close
<1>9. ASSUME NEW w \in Workers, ChallengeMet(w)
      PROVE  TroubleTells'
  BY <1>9 DEF ChallengeMet, Challenged, Unchallenged, SecondChance, Goto, GivesUp,
        Swallows, Release, Close, LeavesAlone
<1>10. ASSUME NEW w \in Workers, Forget(w)
      PROVE  TroubleTells'
  BY <1>10 DEF Forget, SecondChance
<1>11. ASSUME NEW w \in Workers, RecordSuccess(w)
      PROVE  TroubleTells'
  BY <1>11 DEF RecordSuccess, Return, Goto
<1>12. ASSUME NEW w \in Workers, ReadFailures(w)
      PROVE  TroubleTells'
  BY <1>12 DEF ReadFailures, Return, Goto
<1>13. ASSUME NEW w \in Workers, RecordFailure(w)
      PROVE  TroubleTells'
  BY <1>13 DEF RecordFailure, OneMore, Return, Goto
<1>14. ASSUME NEW w \in Workers, SaveTyped(w)
      PROVE  TroubleTells'
  BY <1>14 DEF SaveTyped, Save, Put, Return, Goto
<1>15. ASSUME NEW w \in Workers, SaveBlank(w)
      PROVE  TroubleTells'
  BY <1>15 DEF SaveBlank, Save, Put, Return, Goto
<1>16. ASSUME NEW w \in Workers, Link(w)
      PROVE  TroubleTells'
  BY <1>16 DEF Link, Fresh, Put, Use, Load, Goto
<1>17. ASSUME NEW w \in Workers, ApplyCandidate(w)
      PROVE  TroubleTells'
  BY <1>17 DEF ApplyCandidate, Fresh, Put, Return, Goto
<1>18. ASSUME NEW w \in Workers, LoadForEdit(w)
      PROVE  TroubleTells'
  BY <1>18 DEF LoadForEdit, Turn, Load, Goto
<1>19. ASSUME NEW w \in Workers, SignIn(w)
      PROVE  TroubleTells'
  BY <1>19 DEF SignIn, Turn, Found, Load, Goto
<1>20. ASSUME NEW w \in Workers, Discover(w)
      PROVE  TroubleTells'
  BY <1>20 DEF Discover, Turn, Found, Load, Goto
<1>21. ASSUME NEW w \in Workers, NEW i \in Ids, Begin(w, i)
      PROVE  TroubleTells'
  BY <1>21 DEF Begin, Use, Load, Goto
<1>22. ASSUME NEW i \in Ids, Delete(i) \/ BackoffPasses(i)
      PROVE  TroubleTells'
  BY <1>22 DEF Delete, BackoffPasses
<1>23. CASE UpOrDown \/ UNCHANGED vars
  BY <1>23 DEF UpOrDown, vars
<1> QED
  BY <1>1, <1>2, <1>3, <1>4, <1>5, <1>6, <1>7, <1>8, <1>9, <1>10, <1>11, <1>12, <1>13,
     <1>14, <1>15, <1>16, <1>17, <1>18, <1>19, <1>20, <1>21, <1>22, <1>23
  DEF Next, Goes, Turns

\* Whoever fails has had the trouble.
LEMMA FailureStep ==
  ASSUME TypeOK, HasSession, TroubleTells, OnlyTroubleFails, [Next]_vars
  PROVE  OnlyTroubleFails'
<1> USE Numbers DEF TypeOK, HasSession, TroubleTells, OnlyTroubleFails, SecondChance,
                    Labels, Calling, InRequest, Editing, rowVars, serviceVars, callVars,
                    workerVars, boundVars
<1>1. ASSUME NEW w \in Workers, Acquire(w)
      PROVE  OnlyTroubleFails'
  BY <1>1 DEF Acquire, Goto
<1>2. ASSUME NEW w \in Workers, Answered(w)
      PROVE  OnlyTroubleFails'
  BY <1>2 DEF Answered, Goto, Reached, Unchallenged, Release, Close, LeavesAlone
<1>3. ASSUME NEW w \in Workers, Refused(w)
      PROVE  OnlyTroubleFails'
  BY <1>3 DEF Refused, Goto, Release, Close, LeavesAlone
<1>4. ASSUME NEW w \in Workers, Unanswered(w)
      PROVE  OnlyTroubleFails'
  BY <1>4 DEF Unanswered, Goto, Pauses, GivesUp, Swallows, Release, Close, LeavesAlone
<1>5. ASSUME NEW w \in Workers, Retry(w)
      PROVE  OnlyTroubleFails'
  BY <1>5 DEF Retry, Goto
<1>6. ASSUME NEW w \in Workers, LoggedIn(w)
      PROVE  OnlyTroubleFails'
  BY <1>6 DEF LoggedIn, Reached, Goto, Release, LeavesAlone
<1>7. ASSUME NEW w \in Workers, Attached(w)
      PROVE  OnlyTroubleFails'
  BY <1>7 DEF Attached, Reached, Goto, Release, LeavesAlone
<1>8. ASSUME NEW w \in Workers, NotAttached(w)
      PROVE  OnlyTroubleFails'
  BY <1>8 DEF NotAttached, Reached, Goto, Release, Close
<1>9. ASSUME NEW w \in Workers, ChallengeMet(w)
      PROVE  OnlyTroubleFails'
  <2>1. CASE GivesUp(w)
    <3>1. session[w] # "good" /\ protocol # "key" /\ pc[w] \in Calling
      BY <1>9 DEF ChallengeMet, Challenged, Unchallenged
    <3>2. again[w] \/ ~SecondChance(w)
      BY <1>9, <2>1 DEF ChallengeMet, GivesUp, Release, Goto
    <3>3. session[w] = "stale"
      BY <1>9, <3>1, <3>2, ServiceCallsAssumption DEF ChallengeMet, Challenged
    <3>4. trouble[w] = 2
      BY <3>1, <3>2, <3>3
    <3>5. pc' = [pc EXCEPT ![w] = pc'[w]] /\ UNCHANGED <<trouble, copy>>
      BY <1>9, <2>1 DEF ChallengeMet, GivesUp, Goto, LeavesAlone
    <3> QED
      BY <3>4, <3>5
  <2>2. CASE ~(again[w] \/ ~SecondChance(w))
    BY <1>9, <2>2 DEF ChallengeMet, Goto, LeavesAlone
  <2> QED
    BY <1>9, <2>1, <2>2 DEF ChallengeMet
<1>10. ASSUME NEW w \in Workers, Forget(w)
      PROVE  OnlyTroubleFails'
  BY <1>10 DEF Forget, SecondChance
<1>11. ASSUME NEW w \in Workers, RecordSuccess(w)
      PROVE  OnlyTroubleFails'
  BY <1>11 DEF RecordSuccess, Return, Goto
<1>12. ASSUME NEW w \in Workers, ReadFailures(w)
      PROVE  OnlyTroubleFails'
  BY <1>12 DEF ReadFailures, Return, Goto
<1>13. ASSUME NEW w \in Workers, RecordFailure(w)
      PROVE  OnlyTroubleFails'
  BY <1>13 DEF RecordFailure, OneMore, Return, Goto
<1>14. ASSUME NEW w \in Workers, SaveTyped(w)
      PROVE  OnlyTroubleFails'
  BY <1>14 DEF SaveTyped, Save, Put, Return, Goto
<1>15. ASSUME NEW w \in Workers, SaveBlank(w)
      PROVE  OnlyTroubleFails'
  BY <1>15 DEF SaveBlank, Save, Put, Return, Goto
<1>16. ASSUME NEW w \in Workers, Link(w)
      PROVE  OnlyTroubleFails'
  BY <1>16 DEF Link, Fresh, Put, Use, Load, Goto
<1>17. ASSUME NEW w \in Workers, ApplyCandidate(w)
      PROVE  OnlyTroubleFails'
  BY <1>17 DEF ApplyCandidate, Fresh, Put, Return, Goto
<1>18. ASSUME NEW w \in Workers, LoadForEdit(w)
      PROVE  OnlyTroubleFails'
  BY <1>18 DEF LoadForEdit, Turn, Load, Goto
<1>19. ASSUME NEW w \in Workers, SignIn(w)
      PROVE  OnlyTroubleFails'
  BY <1>19 DEF SignIn, Turn, Found, Load, Goto
<1>20. ASSUME NEW w \in Workers, Discover(w)
      PROVE  OnlyTroubleFails'
  BY <1>20 DEF Discover, Turn, Found, Load, Goto
<1>21. ASSUME NEW w \in Workers, NEW i \in Ids, Begin(w, i)
      PROVE  OnlyTroubleFails'
  BY <1>21 DEF Begin, Use, Load, Goto
<1>22. ASSUME NEW i \in Ids, Delete(i) \/ BackoffPasses(i)
      PROVE  OnlyTroubleFails'
  BY <1>22 DEF Delete, BackoffPasses
<1>23. CASE UpOrDown \/ UNCHANGED vars
  BY <1>23 DEF UpOrDown, vars
<1> QED
  BY <1>1, <1>2, <1>3, <1>4, <1>5, <1>6, <1>7, <1>8, <1>9, <1>10, <1>11, <1>12, <1>13,
     <1>14, <1>15, <1>16, <1>17, <1>18, <1>19, <1>20, <1>21, <1>22, <1>23
  DEF Next, Goes, Turns

\* A thread enters a request with the lock and leaves it when it gives the lock back.
LEMMA LockStep ==
  ASSUME TypeOK, HasRow, OneInFlight, [Next]_vars
  PROVE  OneInFlight'
<1> USE Numbers DEF TypeOK, HasRow, OneInFlight, Labels, Calling, InRequest, Editing,
                    rowVars, serviceVars, callVars, workerVars, boundVars
<1>1. ASSUME NEW w \in Workers, Acquire(w)
      PROVE  OneInFlight'
  BY <1>1 DEF Acquire, Goto
<1>2. ASSUME NEW w \in Workers, Answered(w)
      PROVE  OneInFlight'
  BY <1>2 DEF Answered, Goto, Reached, Unchallenged, Release, Close, LeavesAlone
<1>3. ASSUME NEW w \in Workers, Refused(w)
      PROVE  OneInFlight'
  BY <1>3 DEF Refused, Goto, Release, Close, LeavesAlone
<1>4. ASSUME NEW w \in Workers, Unanswered(w)
      PROVE  OneInFlight'
  <2>1. CASE GivesUp(w)
    <3>1. pc' = [pc EXCEPT ![w] = pc'[w]] /\ pc'[w] \notin InRequest
      BY <2>1 DEF GivesUp, Goto
    <3> QED
      BY <1>4, <2>1, <3>1 DEF Unanswered, GivesUp, Release, LeavesAlone
  <2>2. CASE Pauses(w)
    BY <1>4, <2>2 DEF Unanswered, Pauses, Goto, LeavesAlone
  <2> QED
    BY <1>4, <2>1, <2>2 DEF Unanswered
<1>5. ASSUME NEW w \in Workers, Retry(w)
      PROVE  OneInFlight'
  BY <1>5 DEF Retry, Goto
<1>6. ASSUME NEW w \in Workers, LoggedIn(w)
      PROVE  OneInFlight'
  BY <1>6 DEF LoggedIn, Reached, Goto, Release, LeavesAlone
<1>7. ASSUME NEW w \in Workers, Attached(w)
      PROVE  OneInFlight'
  BY <1>7 DEF Attached, Reached, Goto, Release, LeavesAlone
<1>8. ASSUME NEW w \in Workers, NotAttached(w)
      PROVE  OneInFlight'
  BY <1>8 DEF NotAttached, Reached, Goto, Release, Close
<1>9. ASSUME NEW w \in Workers, ChallengeMet(w)
      PROVE  OneInFlight'
  <2>1. pc' = [pc EXCEPT ![w] = pc'[w]] /\ pc'[w] \notin InRequest /\ Release(w)
    BY <1>9 DEF ChallengeMet, GivesUp, Goto
  <2> QED
    BY <1>9, <2>1 DEF ChallengeMet, Challenged, Release, LeavesAlone
<1>10. ASSUME NEW w \in Workers, Forget(w)
      PROVE  OneInFlight'
  BY <1>10 DEF Forget, SecondChance
<1>11. ASSUME NEW w \in Workers, RecordSuccess(w)
      PROVE  OneInFlight'
  BY <1>11 DEF RecordSuccess, Return, Goto
<1>12. ASSUME NEW w \in Workers, ReadFailures(w)
      PROVE  OneInFlight'
  BY <1>12 DEF ReadFailures, Return, Goto
<1>13. ASSUME NEW w \in Workers, RecordFailure(w)
      PROVE  OneInFlight'
  BY <1>13 DEF RecordFailure, OneMore, Return, Goto
<1>14. ASSUME NEW w \in Workers, SaveTyped(w)
      PROVE  OneInFlight'
  BY <1>14 DEF SaveTyped, Save, Put, Return, Goto
<1>15. ASSUME NEW w \in Workers, SaveBlank(w)
      PROVE  OneInFlight'
  BY <1>15 DEF SaveBlank, Save, Put, Return, Goto
<1>16. ASSUME NEW w \in Workers, Link(w)
      PROVE  OneInFlight'
  BY <1>16 DEF Link, Fresh, Put, Use, Load, Goto
<1>17. ASSUME NEW w \in Workers, ApplyCandidate(w)
      PROVE  OneInFlight'
  BY <1>17 DEF ApplyCandidate, Fresh, Put, Return, Goto
<1>18. ASSUME NEW w \in Workers, LoadForEdit(w)
      PROVE  OneInFlight'
  BY <1>18 DEF LoadForEdit, Turn, Load, Goto
<1>19. ASSUME NEW w \in Workers, SignIn(w)
      PROVE  OneInFlight'
  BY <1>19 DEF SignIn, Turn, Found, Load, Goto
<1>20. ASSUME NEW w \in Workers, Discover(w)
      PROVE  OneInFlight'
  BY <1>20 DEF Discover, Turn, Found, Load, Goto
<1>21. ASSUME NEW w \in Workers, NEW i \in Ids, Begin(w, i)
      PROVE  OneInFlight'
  BY <1>21 DEF Begin, Use, Load, Goto
<1>22. ASSUME NEW i \in Ids, Delete(i) \/ BackoffPasses(i)
      PROVE  OneInFlight'
  BY <1>22 DEF Delete, BackoffPasses
<1>23. CASE UpOrDown \/ UNCHANGED vars
  BY <1>23 DEF UpOrDown, vars
<1> QED
  BY <1>1, <1>2, <1>3, <1>4, <1>5, <1>6, <1>7, <1>8, <1>9, <1>10, <1>11, <1>12, <1>13,
     <1>14, <1>15, <1>16, <1>17, <1>18, <1>19, <1>20, <1>21, <1>22, <1>23
  DEF Next, Goes, Turns

\* Whoever writes one health field writes the other.
LEMMA HealthStep ==
  ASSUME TypeOK, HealthAgrees, [Next]_vars
  PROVE  HealthAgrees'
<1> USE Numbers DEF TypeOK, HealthAgrees, Labels, Calling, InRequest, Editing, rowVars,
                    serviceVars, callVars, workerVars, boundVars
<1>1. ASSUME NEW w \in Workers, Acquire(w)
      PROVE  HealthAgrees'
  BY <1>1 DEF Acquire, Goto
<1>2. ASSUME NEW w \in Workers, Answered(w)
      PROVE  HealthAgrees'
  BY <1>2 DEF Answered, Goto, Reached, Unchallenged, Release, Close, LeavesAlone
<1>3. ASSUME NEW w \in Workers, Refused(w)
      PROVE  HealthAgrees'
  BY <1>3 DEF Refused, Goto, Release, Close, LeavesAlone
<1>4. ASSUME NEW w \in Workers, Unanswered(w)
      PROVE  HealthAgrees'
  BY <1>4 DEF Unanswered, Goto, Pauses, GivesUp, Swallows, Release, Close, LeavesAlone
<1>5. ASSUME NEW w \in Workers, Retry(w)
      PROVE  HealthAgrees'
  BY <1>5 DEF Retry, Goto
<1>6. ASSUME NEW w \in Workers, LoggedIn(w)
      PROVE  HealthAgrees'
  BY <1>6 DEF LoggedIn, Reached, Goto, Release, LeavesAlone
<1>7. ASSUME NEW w \in Workers, Attached(w)
      PROVE  HealthAgrees'
  BY <1>7 DEF Attached, Reached, Goto, Release, LeavesAlone
<1>8. ASSUME NEW w \in Workers, NotAttached(w)
      PROVE  HealthAgrees'
  BY <1>8 DEF NotAttached, Reached, Goto, Release, Close
<1>9. ASSUME NEW w \in Workers, ChallengeMet(w)
      PROVE  HealthAgrees'
  BY <1>9 DEF ChallengeMet, Challenged, Unchallenged, SecondChance, Goto, GivesUp,
        Swallows, Release, Close, LeavesAlone
<1>10. ASSUME NEW w \in Workers, Forget(w)
      PROVE  HealthAgrees'
  BY <1>10 DEF Forget, SecondChance
<1>11. ASSUME NEW w \in Workers, RecordSuccess(w)
      PROVE  HealthAgrees'
  BY <1>11 DEF RecordSuccess, Return, Goto
<1>12. ASSUME NEW w \in Workers, ReadFailures(w)
      PROVE  HealthAgrees'
  BY <1>12 DEF ReadFailures, Return, Goto
<1>13. ASSUME NEW w \in Workers, RecordFailure(w)
      PROVE  HealthAgrees'
  BY <1>13 DEF RecordFailure, OneMore, Return, Goto
<1>14. ASSUME NEW w \in Workers, SaveTyped(w)
      PROVE  HealthAgrees'
  BY <1>14 DEF SaveTyped, Save, Put, Return, Goto
<1>15. ASSUME NEW w \in Workers, SaveBlank(w)
      PROVE  HealthAgrees'
  BY <1>15 DEF SaveBlank, Save, Put, Return, Goto
<1>16. ASSUME NEW w \in Workers, Link(w)
      PROVE  HealthAgrees'
  <2>1. PICK i \in IF pk[w] = NoRow THEN Fresh ELSE {pk[w]} : Put(i, copy[w])
    BY <1>16 DEF Link
  <2>2. i \in Ids
    BY <1>16, <2>1 DEF Link, Fresh
  <2> QED
    BY <2>1, <2>2 DEF Put
<1>17. ASSUME NEW w \in Workers, ApplyCandidate(w)
      PROVE  HealthAgrees'
  BY <1>17 DEF ApplyCandidate, Fresh, Put, Return, Goto
<1>18. ASSUME NEW w \in Workers, LoadForEdit(w)
      PROVE  HealthAgrees'
  BY <1>18 DEF LoadForEdit, Turn, Load, Goto
<1>19. ASSUME NEW w \in Workers, SignIn(w)
      PROVE  HealthAgrees'
  BY <1>19 DEF SignIn, Turn, Found, Load, Goto
<1>20. ASSUME NEW w \in Workers, Discover(w)
      PROVE  HealthAgrees'
  BY <1>20 DEF Discover, Turn, Found, Load, Goto
<1>21. ASSUME NEW w \in Workers, NEW i \in Ids, Begin(w, i)
      PROVE  HealthAgrees'
  BY <1>21 DEF Begin, Use, Load, Goto
<1>22. ASSUME NEW i \in Ids, Delete(i) \/ BackoffPasses(i)
      PROVE  HealthAgrees'
  BY <1>22 DEF Delete, BackoffPasses
<1>23. CASE UpOrDown \/ UNCHANGED vars
  BY <1>23 DEF UpOrDown, vars
<1> QED
  BY <1>1, <1>2, <1>3, <1>4, <1>5, <1>6, <1>7, <1>8, <1>9, <1>10, <1>11, <1>12, <1>13,
     <1>14, <1>15, <1>16, <1>17, <1>18, <1>19, <1>20, <1>21, <1>22, <1>23
  DEF Next, Goes, Turns

\* Every step keeps the invariant.
LEMMA InvariantStep == IInv /\ [Next]_vars => IInv'
BY TypeStep, AttemptsStep, RowStep, SessionStep, TroubleStep, FailureStep, LockStep, HealthStep
DEF IInv

\* The invariant holds in every reachable state.
LEMMA Invariant == Spec => []IInv
BY InitEstablishes, InvariantStep, PTL DEF Spec

\* The variables keep their types: no call makes more than its attempts, whatever comes
\* in between.
THEOREM TypeCorrect == Spec => []TypeOK
<1>1. IInv => TypeOK
  BY DEF IInv
<1> QED
  BY <1>1, Invariant, PTL

\* For any number of threads and rows: a row's service never has two requests in flight, and
\* nobody gets in between the attempts of a request.
THEOREM RequestsExclude == Spec => []OneInFlight
<1>1. IInv => OneInFlight
  BY DEF IInv
<1> QED
  BY <1>1, Invariant, PTL

\* For any number of threads, although record_failure reads in one statement and writes
\* in another: the count of failures and the backoff never contradict each other.
THEOREM HealthIsCoherent == Spec => []HealthAgrees
<1>1. IInv => HealthAgrees
  BY DEF IInv
<1> QED
  BY <1>1, Invariant, PTL

\* For any number of threads, questions and attempts, and whenever a session is lost: with the
\* right credentials no operation fails for the want of a session that could be opened again.
THEOREM SessionsAreNoTrouble == Spec => []OnlyTroubleFails
<1>1. IInv => OnlyTroubleFails
  BY DEF IInv
<1> QED
  BY <1>1, Invariant, PTL

\* Only a save from the settings page and a sign-in change a key or bring a row back, and
\* discovery adds but rows that never were.
THEOREM HealthWritesSpareSettings == Spec => SettingsAreEdited
<1> DEFINE Edited ==
      \A i \in Ids :
        key'[i] # key[i] \/ i \in rows' \ rows =>
          \E w \in Workers : \/ pc[w] \in Editing \cup {"linking"}
                             \/ pc[w] = "proposed" /\ i \notin made
<1>1. ASSUME IInv, [Next]_vars
      PROVE  [Edited]_vars
  <2> USE DEF IInv, TypeOK, rowVars, Editing
  <2>1. ASSUME NEW w \in Workers, SaveTyped(w) \/ SaveBlank(w)
        PROVE  Edited
    BY <2>1 DEF SaveTyped, SaveBlank, Save
  <2>2. ASSUME NEW w \in Workers, Link(w)
        PROVE  Edited
    BY <2>2 DEF Link
  <2>3. ASSUME NEW w \in Workers, ApplyCandidate(w)
        PROVE  Edited
    <3>1. CASE pk[w] = NoRow
      <4>1. PICK j \in Fresh : Put(j, copy[w])
        BY <2>3, <3>1 DEF ApplyCandidate
      <4>2. j \in Ids /\ j \notin made /\ pc[w] = "proposed"
        BY <2>3, <4>1 DEF ApplyCandidate, Fresh
      <4>3. \A i \in Ids : key'[i] # key[i] \/ i \in rows' \ rows => i = j
        BY <4>1 DEF Put
      <4> QED
        BY <4>2, <4>3
    <3>2. CASE pk[w] # NoRow
      BY <2>3, <3>2 DEF ApplyCandidate
    <3> QED
      BY <3>1, <3>2
  <2>4. ASSUME NEW w \in Workers, RecordSuccess(w) \/ ReadFailures(w) \/ RecordFailure(w)
        PROVE  UNCHANGED <<rows, key>>
    BY <2>4 DEF RecordSuccess, ReadFailures, RecordFailure
  <2>5. ASSUME NEW w \in Workers,
               \/ Acquire(w) \/ Answered(w) \/ Refused(w) \/ Unanswered(w) \/ Retry(w)
               \/ LoggedIn(w) \/ Attached(w) \/ NotAttached(w) \/ ChallengeMet(w) \/ Forget(w)
        PROVE  UNCHANGED <<rows, key>>
    BY <2>5 DEF Acquire, Answered, Refused, Unanswered, Retry, LoggedIn, Attached, NotAttached,
                ChallengeMet, Forget, LeavesAlone
  <2>6. ASSUME NEW w \in Workers, Turns(w)
        PROVE  UNCHANGED <<rows, key>>
    BY <2>6 DEF Turns, LoadForEdit, SignIn, Discover, Turn
  <2>7. ASSUME NEW w \in Workers, NEW i \in Ids, Begin(w, i)
        PROVE  UNCHANGED <<rows, key>>
    BY <2>7 DEF Begin
  <2>8. ASSUME NEW i \in Ids, Delete(i) \/ BackoffPasses(i)
        PROVE  key' = key /\ rows' \subseteq rows
    BY <2>8 DEF Delete, BackoffPasses
  <2>9. CASE UpOrDown \/ UNCHANGED vars
    BY <2>9 DEF UpOrDown, vars
  <2> QED
    BY <1>1, <2>1, <2>2, <2>3, <2>4, <2>5, <2>6, <2>7, <2>8, <2>9 DEF Next, Goes
<1> QED
  BY <1>1, Invariant, PTL DEF Spec, SettingsAreEdited
=============================================================================
