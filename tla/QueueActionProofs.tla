-------------------------- MODULE QueueActionProofs --------------------------
(***************************************************************************)
(* What a removal deletes and what its log says, for every number of queue *)
(* rows, downloads, entities, attempts and faults.  The argument: from the *)
(* second look to the end of the DELETE the id is not given away, so the   *)
(* row under it is, until it goes, the one the second look found;          *)
(* and a download that was removed is queued nowhere, for good.            *)
(***************************************************************************)
EXTENDS QueueAction, TLAPS

NoReuse == ReuseInFlight = FALSE

\* What is queued has been started, and is not started again.
QueuedOnce == \A i \in QueueIds : queue[i].download \in started \cup {"none"}

\* What was deleted is queued nowhere.
GoneForGood ==
  \A x \in deleted :
    x.download \in started /\ \A i \in QueueIds : queue[i].download # x.download

\* The row under the id is the target of the second look, or gone.
TargetOrGone ==
  /\ pc # "idle" => id \in QueueIds
  /\ pc = "delete" => /\ target \in Row /\ ~Another(target)
                      /\ attempt \in 1 .. Attempts
                      /\ NoReuse => queue[id] \in {target, NoRow}
  /\ NoReuse /\ pc = "log" => \E x \in deleted : x.download = target.download

\* What a log entry says was removed, was.
LogTrue ==
  NoReuse => \A l \in log : l.download # "none" =>
               \E x \in deleted : x.download = l.download

IInv == TypeOK /\ QueuedOnce /\ GoneForGood /\ TargetOrGone /\ LogTrue

-----------------------------------------------------------------------------

\* The invariant holds at the start.
LEMMA InitEstablishes == Init => IInv
<1> SUFFICES ASSUME Init PROVE IInv
    OBVIOUS
<1> USE QueueActionAssumption DEF Init, Row, NoRow, NoEntity, NoId
<1>1. TypeOK
    BY DEF TypeOK
<1>2. QueuedOnce /\ GoneForGood
    BY DEF QueuedOnce, GoneForGood
<1>3. TargetOrGone /\ LogTrue
    BY DEF TargetOrGone, LogTrue
<1> QED
    BY <1>1, <1>2, <1>3 DEF IInv

\* Each step keeps the types; the second conjunct of TargetOrGone bounds the attempts.
LEMMA TypeStep ==
  ASSUME TypeOK, TargetOrGone, [Next]_vars
  PROVE  TypeOK'
<1> USE QueueActionAssumption DEF Row, NoRow, NoEntity, NoId, arrVars, dbVars, actionVars, pollVars, TypeOK, TargetOrGone
<1>1. ASSUME NEW ids \in SUBSET QueueIds, NEW d \in Downloads, NEW e \in Entities \cup {NoEntity},
             RowsArrive(ids, d, e)
      PROVE  TypeOK'
    BY <1>1 DEF RowsArrive
<1>2. ASSUME NEW d \in Downloads, DownloadLeaves(d)
      PROVE  TypeOK'
    BY <1>2 DEF DownloadLeaves, Without
<1>3. ASSUME NEW e \in Entities, Relink(e)
      PROVE  TypeOK'
    BY <1>3 DEF Relink
<1>4. ASSUME Remove
      PROVE  TypeOK'
    BY <1>4 DEF Remove
<1>5. ASSUME PollReads
      PROVE  TypeOK'
    BY <1>5 DEF PollReads, Matching
<1>6. ASSUME PollFails
      PROVE  TypeOK'
    BY <1>6 DEF PollFails
<1>7. ASSUME Reassess
      PROVE  TypeOK'
    BY <1>7 DEF Reassess
<1>8. ASSUME NEW s \in snapshot, PollRecords(s)
      PROVE  TypeOK'
    BY <1>8 DEF PollRecords
<1>9. ASSUME PollEnds
      PROVE  TypeOK'
    BY <1>9 DEF PollEnds
<1>10. ASSUME NEW d \in Downloads, Ask(d)
      PROVE  TypeOK'
    BY <1>10 DEF Ask
<1>11. ASSUME Confirm
      PROVE  TypeOK'
    BY <1>11 DEF Confirm, Finish
<1>12. ASSUME Reread
      PROVE  TypeOK'
    BY <1>12 DEF Reread
<1>13. ASSUME RereadFails
      PROVE  TypeOK'
    BY <1>13 DEF RereadFails
<1>14. ASSUME DeleteAnswered
      PROVE  TypeOK'
    BY <1>14 DEF DeleteAnswered, CarryOut, Without
<1>15. ASSUME DeleteRefused
      PROVE  TypeOK'
    BY <1>15 DEF DeleteRefused
<1>16. ASSUME DeleteUnanswered
      PROVE  TypeOK'
  <2>1. /\ id \in QueueIds /\ attempt \in 1 .. Attempts /\ faults' \in 0 .. MaxFaults
        /\ attempt' \in 0 .. Attempts /\ pc' \in {"delete", "logFailed"}
    BY <1>16 DEF DeleteUnanswered
  <2>2. CASE queue[id] # NoRow /\ CarryOut
    <3>1. queue[id] \in Row
      BY <2>1, <2>2
    <3>2. queue' \in [QueueIds -> Row \cup {NoRow}]
      BY <2>1, <2>2 DEF CarryOut, Without
    <3>3. deleted' \subseteq [id : QueueIds, download : Downloads]
      BY <2>1, <2>2, <3>1 DEF CarryOut, Without
    <3> QED
      BY <1>16, <2>1, <3>2, <3>3 DEF DeleteUnanswered
  <2>3. CASE UNCHANGED <<queue, deleted>>
    BY <1>16, <2>1, <2>3 DEF DeleteUnanswered
  <2> QED
    BY <1>16, <2>2, <2>3 DEF DeleteUnanswered
<1>17. ASSUME Log
      PROVE  TypeOK'
    BY <1>17 DEF Log, Finish
<1>18. ASSUME Tell
      PROVE  TypeOK'
  <2>1. id \in QueueIds /\ told' \subseteq QueueIds
    BY <1>18 DEF Tell
  <2>2. CASE exists
    BY <1>18, <2>1, <2>2 DEF Tell
  <2>3. CASE ~exists
    BY <1>18, <2>1, <2>3 DEF Tell, Finish
  <2> QED
    BY <2>2, <2>3
<1>19. ASSUME Clear
      PROVE  TypeOK'
    BY <1>19 DEF Clear, Finish
<1>20. ASSUME Restart
      PROVE  TypeOK'
    BY <1>20 DEF Restart, Finish
<1>21. ASSUME Unlink
      PROVE  TypeOK'
    BY <1>21 DEF Unlink
<1>22. ASSUME PollReadsInPart
      PROVE  TypeOK'
    BY <1>22 DEF PollReadsInPart, Matching
<1>23. CASE UNCHANGED vars
    BY <1>23 DEF vars
<1> QED
    BY <1>1, <1>2, <1>3, <1>4, <1>5, <1>6, <1>7, <1>8, <1>9, <1>10, <1>11, <1>12, <1>13, <1>14, <1>15, <1>16, <1>17, <1>18, <1>19, <1>20, <1>21, <1>22, <1>23
    DEF Next, Arr, Polling, Acting

\* What is queued was started once, and a deleted download never comes back.
LEMMA OnceStep ==
  ASSUME TypeOK, QueuedOnce, GoneForGood, TargetOrGone, [Next]_vars
  PROVE  QueuedOnce' /\ GoneForGood'
<1> USE QueueActionAssumption DEF Row, NoRow, NoEntity, NoId, arrVars, dbVars, actionVars, pollVars, TypeOK, QueuedOnce, GoneForGood, TargetOrGone
<1>1. ASSUME NEW ids \in SUBSET QueueIds, NEW d \in Downloads, NEW e \in Entities \cup {NoEntity},
             RowsArrive(ids, d, e)
      PROVE  QueuedOnce' /\ GoneForGood'
    BY <1>1 DEF RowsArrive
<1>2. ASSUME NEW d \in Downloads, DownloadLeaves(d)
      PROVE  QueuedOnce' /\ GoneForGood'
    BY <1>2 DEF DownloadLeaves, Without
<1>3. ASSUME NEW e \in Entities, Relink(e)
      PROVE  QueuedOnce' /\ GoneForGood'
    BY <1>3 DEF Relink
<1>4. ASSUME Remove
      PROVE  QueuedOnce' /\ GoneForGood'
    BY <1>4 DEF Remove
<1>5. ASSUME PollReads
      PROVE  QueuedOnce' /\ GoneForGood'
    BY <1>5 DEF PollReads, Matching
<1>6. ASSUME PollFails
      PROVE  QueuedOnce' /\ GoneForGood'
    BY <1>6 DEF PollFails
<1>7. ASSUME Reassess
      PROVE  QueuedOnce' /\ GoneForGood'
    BY <1>7 DEF Reassess
<1>8. ASSUME NEW s \in snapshot, PollRecords(s)
      PROVE  QueuedOnce' /\ GoneForGood'
    BY <1>8 DEF PollRecords
<1>9. ASSUME PollEnds
      PROVE  QueuedOnce' /\ GoneForGood'
    BY <1>9 DEF PollEnds
<1>10. ASSUME NEW d \in Downloads, Ask(d)
      PROVE  QueuedOnce' /\ GoneForGood'
    BY <1>10 DEF Ask
<1>11. ASSUME Confirm
      PROVE  QueuedOnce' /\ GoneForGood'
    BY <1>11 DEF Confirm, Finish
<1>12. ASSUME Reread
      PROVE  QueuedOnce' /\ GoneForGood'
    BY <1>12 DEF Reread
<1>13. ASSUME RereadFails
      PROVE  QueuedOnce' /\ GoneForGood'
    BY <1>13 DEF RereadFails
<1>14. ASSUME DeleteAnswered
      PROVE  QueuedOnce' /\ GoneForGood'
    BY <1>14 DEF DeleteAnswered, CarryOut, Without
<1>15. ASSUME DeleteRefused
      PROVE  QueuedOnce' /\ GoneForGood'
    BY <1>15 DEF DeleteRefused
<1>16. ASSUME DeleteUnanswered
      PROVE  QueuedOnce' /\ GoneForGood'
    BY <1>16 DEF DeleteUnanswered, CarryOut, Without
<1>17. ASSUME Log
      PROVE  QueuedOnce' /\ GoneForGood'
    BY <1>17 DEF Log, Finish
<1>18. ASSUME Tell
      PROVE  QueuedOnce' /\ GoneForGood'
    BY <1>18 DEF Tell, Finish
<1>19. ASSUME Clear
      PROVE  QueuedOnce' /\ GoneForGood'
    BY <1>19 DEF Clear, Finish
<1>20. ASSUME Restart
      PROVE  QueuedOnce' /\ GoneForGood'
    BY <1>20 DEF Restart, Finish
<1>21. ASSUME Unlink
      PROVE  QueuedOnce' /\ GoneForGood'
    BY <1>21 DEF Unlink
<1>22. ASSUME PollReadsInPart
      PROVE  QueuedOnce' /\ GoneForGood'
    BY <1>22 DEF PollReadsInPart, Matching
<1>23. CASE UNCHANGED vars
    BY <1>23 DEF vars
<1> QED
    BY <1>1, <1>2, <1>3, <1>4, <1>5, <1>6, <1>7, <1>8, <1>9, <1>10, <1>11, <1>12, <1>13, <1>14, <1>15, <1>16, <1>17, <1>18, <1>19, <1>20, <1>21, <1>22, <1>23
    DEF Next, Arr, Polling, Acting

\* What the second look found stays under its id until it goes.
LEMMA TargetStep ==
  ASSUME TypeOK, TargetOrGone, [Next]_vars
  PROVE  TargetOrGone'
<1> USE QueueActionAssumption DEF Row, NoRow, NoEntity, NoId, arrVars, dbVars, actionVars, pollVars, TypeOK, TargetOrGone, NoReuse, Another
<1>1. ASSUME NEW ids \in SUBSET QueueIds, NEW d \in Downloads, NEW e \in Entities \cup {NoEntity},
             RowsArrive(ids, d, e)
      PROVE  TargetOrGone'
    BY <1>1 DEF RowsArrive
<1>2. ASSUME NEW d \in Downloads, DownloadLeaves(d)
      PROVE  TargetOrGone'
    BY <1>2 DEF DownloadLeaves, Without
<1>3. ASSUME NEW e \in Entities, Relink(e)
      PROVE  TargetOrGone'
    BY <1>3 DEF Relink
<1>4. ASSUME Remove
      PROVE  TargetOrGone'
    BY <1>4 DEF Remove
<1>5. ASSUME PollReads
      PROVE  TargetOrGone'
    BY <1>5 DEF PollReads, Matching
<1>6. ASSUME PollFails
      PROVE  TargetOrGone'
    BY <1>6 DEF PollFails
<1>7. ASSUME Reassess
      PROVE  TargetOrGone'
    BY <1>7 DEF Reassess
<1>8. ASSUME NEW s \in snapshot, PollRecords(s)
      PROVE  TargetOrGone'
    BY <1>8 DEF PollRecords
<1>9. ASSUME PollEnds
      PROVE  TargetOrGone'
    BY <1>9 DEF PollEnds
<1>10. ASSUME NEW d \in Downloads, Ask(d)
      PROVE  TargetOrGone'
    BY <1>10 DEF Ask
<1>11. ASSUME Confirm
      PROVE  TargetOrGone'
    BY <1>11 DEF Confirm, Finish
<1>12. ASSUME Reread
      PROVE  TargetOrGone'
    BY <1>12 DEF Reread
<1>13. ASSUME RereadFails
      PROVE  TargetOrGone'
    BY <1>13 DEF RereadFails
<1>14. ASSUME DeleteAnswered
      PROVE  TargetOrGone'
  <2>1. pc' = "log" /\ target' = target /\ id' = id /\ id \in QueueIds
    BY <1>14 DEF DeleteAnswered
  <2>2. ASSUME NoReuse
        PROVE  \E x \in deleted' : x.download = target'.download
    <3>1. queue[id] = target
      BY <1>14, <2>2 DEF DeleteAnswered
    <3>2. [id |-> id, download |-> target.download] \in deleted'
      BY <1>14, <3>1 DEF DeleteAnswered, CarryOut, Without
    <3> QED
      BY <2>1, <3>2
  <2> QED
    BY <2>1, <2>2
<1>15. ASSUME DeleteRefused
      PROVE  TargetOrGone'
    BY <1>15 DEF DeleteRefused
<1>16. ASSUME DeleteUnanswered
      PROVE  TargetOrGone'
    BY <1>16 DEF DeleteUnanswered, CarryOut, Without
<1>17. ASSUME Log
      PROVE  TargetOrGone'
    BY <1>17 DEF Log, Finish
<1>18. ASSUME Tell
      PROVE  TargetOrGone'
    BY <1>18 DEF Tell, Finish
<1>19. ASSUME Clear
      PROVE  TargetOrGone'
    BY <1>19 DEF Clear, Finish
<1>20. ASSUME Restart
      PROVE  TargetOrGone'
    BY <1>20 DEF Restart, Finish
<1>21. ASSUME Unlink
      PROVE  TargetOrGone'
    BY <1>21 DEF Unlink
<1>22. ASSUME PollReadsInPart
      PROVE  TargetOrGone'
    BY <1>22 DEF PollReadsInPart, Matching
<1>23. CASE UNCHANGED vars
    BY <1>23 DEF vars
<1> QED
    BY <1>1, <1>2, <1>3, <1>4, <1>5, <1>6, <1>7, <1>8, <1>9, <1>10, <1>11, <1>12, <1>13, <1>14, <1>15, <1>16, <1>17, <1>18, <1>19, <1>20, <1>21, <1>22, <1>23
    DEF Next, Arr, Polling, Acting

\* A success is logged only of a download that was deleted.
LEMMA LogStep ==
  ASSUME TypeOK, TargetOrGone, LogTrue, [Next]_vars
  PROVE  LogTrue'
<1> USE QueueActionAssumption DEF Row, NoRow, NoEntity, NoId, arrVars, dbVars, actionVars, pollVars, TypeOK, TargetOrGone, LogTrue, NoReuse
<1>1. ASSUME NEW ids \in SUBSET QueueIds, NEW d \in Downloads, NEW e \in Entities \cup {NoEntity},
             RowsArrive(ids, d, e)
      PROVE  LogTrue'
    BY <1>1 DEF RowsArrive
<1>2. ASSUME NEW d \in Downloads, DownloadLeaves(d)
      PROVE  LogTrue'
    BY <1>2 DEF DownloadLeaves, Without
<1>3. ASSUME NEW e \in Entities, Relink(e)
      PROVE  LogTrue'
    BY <1>3 DEF Relink
<1>4. ASSUME Remove
      PROVE  LogTrue'
    BY <1>4 DEF Remove
<1>5. ASSUME PollReads
      PROVE  LogTrue'
    BY <1>5 DEF PollReads, Matching
<1>6. ASSUME PollFails
      PROVE  LogTrue'
    BY <1>6 DEF PollFails
<1>7. ASSUME Reassess
      PROVE  LogTrue'
    BY <1>7 DEF Reassess
<1>8. ASSUME NEW s \in snapshot, PollRecords(s)
      PROVE  LogTrue'
    BY <1>8 DEF PollRecords
<1>9. ASSUME PollEnds
      PROVE  LogTrue'
    BY <1>9 DEF PollEnds
<1>10. ASSUME NEW d \in Downloads, Ask(d)
      PROVE  LogTrue'
    BY <1>10 DEF Ask
<1>11. ASSUME Confirm
      PROVE  LogTrue'
    BY <1>11 DEF Confirm, Finish
<1>12. ASSUME Reread
      PROVE  LogTrue'
    BY <1>12 DEF Reread
<1>13. ASSUME RereadFails
      PROVE  LogTrue'
    BY <1>13 DEF RereadFails
<1>14. ASSUME DeleteAnswered
      PROVE  LogTrue'
    BY <1>14 DEF DeleteAnswered, CarryOut, Without
<1>15. ASSUME DeleteRefused
      PROVE  LogTrue'
    BY <1>15 DEF DeleteRefused
<1>16. ASSUME DeleteUnanswered
      PROVE  LogTrue'
    BY <1>16 DEF DeleteUnanswered, CarryOut, Without
<1>17. ASSUME Log
      PROVE  LogTrue'
    BY <1>17 DEF Log, Finish
<1>18. ASSUME Tell
      PROVE  LogTrue'
    BY <1>18 DEF Tell, Finish
<1>19. ASSUME Clear
      PROVE  LogTrue'
    BY <1>19 DEF Clear, Finish
<1>20. ASSUME Restart
      PROVE  LogTrue'
    BY <1>20 DEF Restart, Finish
<1>21. ASSUME Unlink
      PROVE  LogTrue'
    BY <1>21 DEF Unlink
<1>22. ASSUME PollReadsInPart
      PROVE  LogTrue'
    BY <1>22 DEF PollReadsInPart, Matching
<1>23. CASE UNCHANGED vars
    BY <1>23 DEF vars
<1> QED
    BY <1>1, <1>2, <1>3, <1>4, <1>5, <1>6, <1>7, <1>8, <1>9, <1>10, <1>11, <1>12, <1>13, <1>14, <1>15, <1>16, <1>17, <1>18, <1>19, <1>20, <1>21, <1>22, <1>23
    DEF Next, Arr, Polling, Acting

\* Each step keeps the invariant.
LEMMA InvariantStep == IInv /\ [Next]_vars => IInv'
BY TypeStep, OnceStep, TargetStep, LogStep DEF IInv

\* The invariant holds in every reachable state.
LEMMA Invariant == Spec => []IInv
BY InitEstablishes, InvariantStep, PTL DEF Spec

\* Every variable of the model of remove_from_queue keeps its type; in particular no more
\* than Attempts calls are made.
THEOREM TypeCorrect == Spec => []TypeOK
<1>1. IInv => TypeOK
  BY DEF IInv
<1> QED
  BY <1>1, Invariant, PTL

\* The log is right: an entry that says a download was removed was written after a DELETE
\* of ours removed that very download, and the download is in no queue any more.
THEOREM SuccessesAreTrue == NoReuse => (Spec => []SuccessMeansRemoved)
<1> SUFFICES ASSUME NoReuse PROVE Spec => []SuccessMeansRemoved
  OBVIOUS
<1>1. IInv => SuccessMeansRemoved
  BY DEF IInv, LogTrue, GoneForGood, SuccessMeansRemoved
<1> QED
  BY <1>1, Invariant, PTL

\* One step of the removal deletes nothing but what the second look found.
LEMMA DeletesTarget ==
  ASSUME NoReuse, IInv, [Next]_vars
  PROVE  \A x \in deleted' \ deleted : x.download = target.download /\ ~Another(target)
<1> USE DEF arrVars, dbVars, actionVars, pollVars
<1>1. ASSUME pc = "delete", queue[id] # NoRow, CarryOut
      PROVE  \A x \in deleted' \ deleted : x.download = target.download /\ ~Another(target)
  <2>1. queue[id] = target /\ ~Another(target)
    BY <1>1 DEF IInv, TargetOrGone
  <2> QED
    BY <1>1, <2>1 DEF CarryOut, Without
<1>2. deleted' = deleted \/ (pc = "delete" /\ queue[id] # NoRow /\ CarryOut)
  BY DEF Next, Arr, Polling, Acting, RowsArrive, DownloadLeaves, Relink, Unlink,
         Reassess, Remove, PollReads,
         PollReadsInPart, PollFails, PollRecords, PollEnds, Ask, Confirm, Reread, RereadFails,
         DeleteAnswered, DeleteRefused, DeleteUnanswered, Log, Tell, Clear, Restart, vars
<1> QED
  BY <1>1, <1>2

\* Whatever the queue, the poll and the user's pace did, a removal deletes only the
\* download its second look found, and none that is known to be another title's.
THEOREM RemovalsAreOwn == NoReuse => (Spec => DeletesOnlyItsOwn)
<1> SUFFICES ASSUME NoReuse PROVE Spec => DeletesOnlyItsOwn
  OBVIOUS
<1>1. IInv /\ [Next]_vars =>
        [\A x \in deleted' \ deleted : x.download = target.download /\ ~Another(target)]_vars
  BY DeletesTarget
<1> QED
  BY <1>1, Invariant, PTL DEF Spec, DeletesOnlyItsOwn

\* One step leaves a removal without its entry only if the request is gone or the process
\* stops: until Log, what is removed is under the id of the action.
LEMMA StepEndsLogged ==
  ASSUME [Next]_vars, NEW x \in deleted', Forgotten(x)'
  PROVE  Forgotten(x) \/ ~exists \/ Restart
<1> SUFFICES ASSUME ~Restart, exists, ~Forgotten(x) PROVE FALSE
  OBVIOUS
<1> USE DEF Forgotten, arrVars, dbVars, actionVars, pollVars
<1>1. CASE pc \notin {"delete", "log", "logFailed"}
  <2>1. log' = log /\ deleted' = deleted
    BY <1>1 DEF Next, Arr, Polling, Acting, RowsArrive, DownloadLeaves, Relink, Unlink,
         Reassess, Remove,
         PollReads, PollReadsInPart, PollFails, PollRecords, PollEnds, Ask, Confirm,
         Reread, RereadFails, DeleteAnswered, DeleteRefused, DeleteUnanswered, Log, Tell, Clear,
         vars
  <2> QED
    BY <1>1, <2>1
<1>2. CASE DeleteAnswered \/ DeleteRefused \/ DeleteUnanswered
  <2>1. /\ pc = "delete" /\ pc' \in {"delete", "log", "logFailed"} /\ id' = id /\ log' = log
        /\ deleted' = deleted \/ CarryOut
    BY <1>2 DEF DeleteAnswered, DeleteRefused, DeleteUnanswered
  <2>2. x \in deleted \/ x.id = id
    BY <2>1 DEF CarryOut, Without
  <2> QED
    BY <2>1, <2>2
<1>3. CASE Log
  <2> DEFINE entry == [id |-> id, download |-> IF pc = "log" THEN target.download ELSE "none"]
  <2>1. deleted' = deleted /\ log' = log \cup {entry} /\ pc \in {"log", "logFailed"}
    BY <1>3 DEF Log
  <2>2. entry \in log' /\ entry.id = id
    BY <2>1
  <2> QED
    BY <2>1, <2>2
<1>4. CASE /\ pc \in {"delete", "log", "logFailed"}
           /\ ~ (DeleteAnswered \/ DeleteRefused \/ DeleteUnanswered \/ Log)
  <2>1. UNCHANGED <<pc, id, log, deleted>>
    BY <1>4 DEF Next, Arr, Polling, Acting, RowsArrive, DownloadLeaves, Relink, Unlink,
         Reassess, Remove,
         PollReads, PollReadsInPart, PollFails, PollRecords, PollEnds, Ask, Confirm,
         Reread, RereadFails, Tell, Clear, vars
  <2> QED
    BY <2>1
<1> QED
  BY <1>1, <1>2, <1>3, <1>4

\* ActionLog's "Anything that does write gets a durable record here" is false (the run
\* QueueUnlogged); how it can be false is this: a removal stays without an entry only if
\* the request was withdrawn while the action ran or the process stopped in it.  Whether
\* queue ids are reused does not matter.
THEOREM RemovalsEndLogged == Spec => WritesEndLogged
<1>1. [Next]_vars =>
        [\A x \in deleted' : Forgotten(x)' => Forgotten(x) \/ ~exists \/ Restart]_vars
  BY StepEndsLogged
<1> QED
  BY <1>1, PTL DEF Spec, WritesEndLogged
=============================================================================
