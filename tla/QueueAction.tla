----------------------------- MODULE QueueAction -----------------------------
(***************************************************************************)
(* The one destructive thing Sleutharr does: remove_from_queue             *)
(* (core/actions.py) deletes a row of a Sonarr/Radarr queue on a click,    *)
(* while the poll thread copies that same queue into timeline events       *)
(* (sync_arr_queues in core/ingest/arr.py), the queue itself goes on       *)
(* changing, answers get lost (BaseClient.request tries again) and the     *)
(* process may stop at any point.                                          *)
(*                                                                         *)
(* One tracked request and one *arr instance.  A download, for one library *)
(* entity or for none the *arr knows, has one row of the queue or several  *)
(* (a season pack has one for each episode), each under an id of its own;  *)
(* an id may be given to another download later, as remove_from_queue      *)
(* assumes.                                                                *)
(***************************************************************************)
EXTENDS Integers, FiniteSets

CONSTANTS
  QueueIds,      \* ids the *arr gives its queue rows
  Downloads,     \* downloads there ever are (bounds the model)
  Entities,      \* entities of the *arr's library
  Attempts,      \* how often request() tries; 3 in the code
  MaxFaults,     \* lost calls and restarts (bounds the model)
  MaxEntries,    \* entries in the log before a last removal is begun (bounds the model)
  ReuseInFlight  \* whether a queue id may be given away while a DELETE of it is under way

ASSUME QueueActionAssumption ==
  /\ QueueIds \subseteq Nat \ {0}
  /\ "none" \notin Downloads /\ "none" \notin Entities
  /\ Attempts \in Nat \ {0} /\ MaxFaults \in Nat /\ MaxEntries \in Nat
  /\ ReuseInFlight \in BOOLEAN

\* The request is linked to no entity; the *arr does not know whose download it is.
NoEntity == "none"

Row   == [download : Downloads, entity : Entities \cup {NoEntity}]
NoRow == [download |-> "none", entity |-> NoEntity]

VARIABLES
  (* The *arr *)
  queue,      \* the row under each queue id
  started,    \* the downloads that have been queued, ever
  (* The database *)
  exists,     \* the TrackedRequest is there
  open,       \* it is neither available nor deleted upstream (_open_requests)
  entity,     \* its arr_entity_id
  events,     \* QUEUED and IMPORT_BLOCKED events: the queue id stored for a download
  log,        \* ActionLog: entries, by queue id; a success names the download too
  told,       \* ids with a "Removed from queue by Sleutharr" event
  (* The action: local variables of remove_from_queue *)
  pc, id, mine, target, attempt,
  (* The poll: local variables of sync_arr_queues *)
  poll, snapshot,
  (* What really happened (history) *)
  deleted,    \* what a DELETE of ours removed: queue id and download
  faults

arrVars    == <<queue, started>>
dbVars     == <<exists, open, entity, events, log, told>>
actionVars == <<pc, id, mine, target, attempt>>
pollVars   == <<poll, snapshot>>
vars       == <<arrVars, dbVars, actionVars, pollVars, deleted, faults>>

\* No queue id: 0 is no id, as in action_remove.
NoId == 0

TypeOK ==
  /\ queue \in [QueueIds -> Row \cup {NoRow}]
  /\ started \subseteq Downloads
  /\ exists \in BOOLEAN /\ open \in BOOLEAN
  /\ entity \in Entities \cup {NoEntity}
  /\ events \in [Downloads -> QueueIds \cup {NoId}]
  /\ log \subseteq [id : QueueIds, download : Downloads \cup {"none"}]
  /\ told \subseteq QueueIds
  /\ pc \in {"idle", "asked", "reread", "delete", "log", "logFailed", "tell", "clear"}
  /\ id \in QueueIds \cup {NoId}
  /\ mine \in Entities \cup {NoEntity}
  /\ target \in Row \cup {NoRow}
  /\ attempt \in 0 .. Attempts
  /\ poll \in {"idle", "record"}
  /\ snapshot \subseteq [id : QueueIds, row : Row]
  /\ deleted \subseteq [id : QueueIds, download : Downloads]
  /\ faults \in 0 .. MaxFaults

Init ==
  /\ queue = [i \in QueueIds |-> NoRow] /\ started = {}
  /\ exists = TRUE /\ open = TRUE /\ entity \in Entities
  /\ events = [d \in Downloads |-> NoId]
  /\ log = {} /\ told = {}
  /\ pc = "idle" /\ id = NoId /\ mine = NoEntity /\ target = NoRow /\ attempt = 0
  /\ poll = "idle" /\ snapshot = {}
  /\ deleted = {} /\ faults = 0

-----------------------------------------------------------------------------
(* The *arr and its queue                                                  *)

\* The queue when the rows of a download are gone.
Without(d) == [i \in QueueIds |-> IF queue[i].download = d THEN NoRow ELSE queue[i]]

\* A download is queued, under one free id or several, if need be under the one a DELETE
\* is being made for, whose row has gone since the second look found it.
RowsArrive(ids, d, e) ==
  /\ \A i \in ids : queue[i] = NoRow
  /\ d \notin started
  /\ pc = "delete" /\ id \in ids => ReuseInFlight
  /\ queue' = [i \in QueueIds |->
                IF i \in ids THEN [download |-> d, entity |-> e] ELSE queue[i]]
  /\ started' = started \cup {d}
  /\ UNCHANGED <<dbVars, actionVars, pollVars, deleted, faults>>

\* A download finishes, or somebody removes it in the *arr: its rows go with it.
DownloadLeaves(d) ==
  /\ \E i \in QueueIds : queue[i].download = d
  /\ queue' = Without(d)
  /\ UNCHANGED <<started, dbVars, actionVars, pollVars, deleted, faults>>

-----------------------------------------------------------------------------
(* The request's own row, changed by other stages of the poll              *)

\* The request manager (_upsert) or a lookup in the library (_resolve_entity) links the
\* request to another entity, or to one again.
Relink(e) ==
  /\ exists /\ poll = "idle" /\ e # entity
  /\ entity' = e
  /\ UNCHANGED <<arrVars, exists, open, events, log, told, actionVars, pollVars, deleted, faults>>

\* The *arr has the title no more, under its id or any other (_resolve_entity): it is in
\* no row of the queue either, but events of earlier rows stay.
Unlink ==
  /\ exists /\ open /\ poll = "idle" /\ entity # NoEntity
  /\ \A i \in QueueIds : queue[i].entity # entity
  /\ entity' = NoEntity
  /\ UNCHANGED <<arrVars, exists, open, events, log, told, actionVars, pollVars, deleted, faults>>

\* The request manager has the title as available or deleted, or as neither any more
\* (_upsert): only while it is neither do the stages of the *arrs look at the request.
Reassess ==
  /\ exists /\ poll = "idle"
  /\ open' = ~open
  /\ UNCHANGED <<arrVars, exists, entity, events, log, told, actionVars, pollVars, deleted, faults>>

\* The request is withdrawn upstream and removed here (_remove_deleted); its events go
\* with it, its log entries stay.
Remove ==
  /\ exists /\ poll = "idle"
  /\ exists' = FALSE /\ open' = FALSE
  /\ entity' = NoEntity
  /\ events' = [d \in Downloads |-> NoId]
  /\ told' = {}
  /\ UNCHANGED <<arrVars, log, actionVars, pollVars, deleted, faults>>

-----------------------------------------------------------------------------
(* sync_arr_queues                                                         *)

\* The rows among ids of the entity the request is linked to, if it is open.
Matching(ids) ==
  IF exists /\ open /\ entity # NoEntity
    THEN {[id |-> i, row |-> queue[i]] : i \in {j \in ids : queue[j].entity = entity}}
    ELSE {}

\* client.queue(), and the rows of _open_requests() in its answer; that only the poll
\* itself changes the request makes it one step.
PollReads ==
  /\ poll = "idle"
  /\ poll' = "record"
  /\ snapshot' = Matching(QueueIds)
  /\ UNCHANGED <<arrVars, dbVars, actionVars, deleted, faults>>

\* client.queue() takes a page that is no object for the end of the queue.
PollReadsInPart ==
  /\ poll = "idle" /\ faults < MaxFaults
  /\ faults' = faults + 1
  /\ poll' = "record"
  /\ \E ids \in SUBSET QueueIds : snapshot' = Matching(ids)
  /\ UNCHANGED <<arrVars, dbVars, actionVars, deleted>>

\* client.queue() fails, or the service is backed off: nothing this time.
PollFails ==
  /\ poll = "idle" /\ faults < MaxFaults
  /\ faults' = faults + 1
  /\ UNCHANGED <<arrVars, dbVars, actionVars, pollVars, deleted>>

\* As it would be if rows that were removed once were kept off the timeline by their id.
PollRecordsUnlessTold(s) ==
  /\ poll = "record" /\ s \in snapshot
  /\ snapshot' = snapshot \ {s}
  /\ events' = IF s.id \notin told THEN [events EXCEPT ![s.row.download] = s.id] ELSE events
  /\ UNCHANGED <<arrVars, exists, open, entity, log, told, actionVars, poll, deleted, faults>>

\* record_event with update_existing: one event per download, refreshed, so that of
\* several rows the last one's id stays.
PollRecords(s) ==
  /\ poll = "record" /\ s \in snapshot
  /\ snapshot' = snapshot \ {s}
  /\ events' = [events EXCEPT ![s.row.download] = s.id]
  /\ UNCHANGED <<arrVars, exists, open, entity, log, told, actionVars, poll, deleted, faults>>

PollEnds ==
  /\ poll = "record" /\ snapshot = {}
  /\ poll' = "idle"
  /\ UNCHANGED <<arrVars, dbVars, actionVars, snapshot, deleted, faults>>

-----------------------------------------------------------------------------
(* remove_from_queue                                                       *)

Finish ==
  /\ pc' = "idle" /\ id' = NoId /\ mine' = NoEntity /\ target' = NoRow /\ attempt' = 0

\* find_queue_targets: the dialog offers an id from a stored event.
Ask(d) ==
  /\ pc = "idle" /\ events[d] # NoId /\ Cardinality(log) < MaxEntries
  /\ pc' = "asked"
  /\ id' = events[d]
  /\ UNCHANGED <<arrVars, dbVars, mine, target, attempt, pollVars, deleted, faults>>

\* The user confirms: action_remove loads the request, if it is still there.
Confirm ==
  /\ pc = "asked"
  /\ IF exists
       THEN pc' = "reread" /\ mine' = entity /\ UNCHANGED <<id, target, attempt>>
       ELSE Finish
  /\ UNCHANGED <<arrVars, dbVars, pollVars, deleted, faults>>

\* As it would be without the second look at whose download it is.
RereadTrusting ==
  /\ pc = "reread"
  /\ target' = queue[id]
  /\ IF queue[id] = NoRow
       THEN pc' = "logFailed" /\ UNCHANGED attempt
       ELSE pc' = "delete" /\ attempt' = 1
  /\ UNCHANGED <<arrVars, dbVars, id, mine, pollVars, deleted, faults>>

\* The title the row belongs to is known, and so is the request's, and they differ.
Another(row) == NoEntity \notin {row.entity, mine} /\ row.entity # mine

\* client.queue() again: the row must still be there, and not be another title's.
Reread ==
  /\ pc = "reread"
  /\ target' = queue[id]
  /\ IF queue[id] = NoRow \/ Another(queue[id])
       THEN pc' = "logFailed" /\ UNCHANGED attempt
       ELSE pc' = "delete" /\ attempt' = 1
  /\ UNCHANGED <<arrVars, dbVars, id, mine, pollVars, deleted, faults>>

\* The second look itself fails, or breaks off before the row.
RereadFails ==
  /\ pc = "reread" /\ faults < MaxFaults
  /\ faults' = faults + 1
  /\ pc' = "logFailed"
  /\ UNCHANGED <<arrVars, dbVars, id, mine, target, attempt, pollVars, deleted>>

\* The *arr carries out the DELETE: it drops the download, and every row of it.
CarryOut ==
  /\ queue' = Without(queue[id].download)
  /\ deleted' = deleted \cup {[id |-> id, download |-> queue[id].download]}

DeleteAnswered ==
  /\ pc = "delete" /\ queue[id] # NoRow
  /\ CarryOut
  /\ pc' = "log"
  /\ UNCHANGED <<started, dbVars, id, mine, target, attempt, pollVars, faults>>

\* As it would be if "not found" were taken for "done".
DeleteRefusedIsDone ==
  /\ pc = "delete" /\ queue[id] = NoRow
  /\ pc' = "log"
  /\ UNCHANGED <<arrVars, dbVars, id, mine, target, attempt, pollVars, deleted, faults>>

\* A 4xx, which request() does not retry: 404 when the row is gone, or a rejected key.
DeleteRefused ==
  /\ pc = "delete"
  /\ \/ queue[id] = NoRow /\ UNCHANGED faults
     \/ faults < MaxFaults /\ faults' = faults + 1
  /\ pc' = "logFailed"
  /\ UNCHANGED <<arrVars, dbVars, id, mine, target, attempt, pollVars, deleted>>

\* As it would be if the attempts were counted from zero.
DeleteUnansweredOnceMore ==
  /\ pc = "delete"
  /\ faults < MaxFaults
  /\ faults' = faults + 1
  /\ \/ queue[id] # NoRow /\ CarryOut
     \/ UNCHANGED <<queue, deleted>>
  /\ IF attempt =< Attempts
       THEN attempt' = attempt + 1 /\ UNCHANGED pc
       ELSE pc' = "logFailed" /\ UNCHANGED attempt
  /\ UNCHANGED <<started, dbVars, id, mine, target, pollVars>>

\* No answer, or a 5xx; the DELETE may have been carried out all the same.  request()
\* tries again, up to Attempts times.
DeleteUnanswered ==
  /\ pc = "delete"
  /\ faults < MaxFaults
  /\ faults' = faults + 1
  /\ \/ queue[id] # NoRow /\ CarryOut
     \/ UNCHANGED <<queue, deleted>>
  /\ IF attempt < Attempts
       THEN attempt' = attempt + 1 /\ UNCHANGED pc
       ELSE pc' = "logFailed" /\ UNCHANGED attempt
  /\ UNCHANGED <<started, dbVars, id, mine, target, pollVars>>

\* As it would be if only what succeeded were logged.
LogSuccesses ==
  /\ pc \in {"log", "logFailed"}
  /\ log' = IF exists /\ pc = "log"
              THEN log \cup {[id |-> id, download |-> target.download]} ELSE log
  /\ IF exists /\ pc = "log"
       THEN pc' = "tell" /\ UNCHANGED <<id, mine, target, attempt>>
       ELSE Finish
  /\ UNCHANGED <<arrVars, exists, open, entity, events, told, pollVars, deleted, faults>>

\* _log fails on a request that is no longer there, and the view with it.
Log ==
  /\ pc \in {"log", "logFailed"}
  /\ log' = IF exists
              THEN log \cup {[id |-> id,
                              download |-> IF pc = "log" THEN target.download ELSE "none"]}
              ELSE log
  /\ IF exists /\ pc = "log"
       THEN pc' = "tell" /\ UNCHANGED <<id, mine, target, attempt>>
       ELSE Finish
  /\ UNCHANGED <<arrVars, exists, open, entity, events, told, pollVars, deleted, faults>>

\* The timeline event; it too needs the request.
Tell ==
  /\ pc = "tell"
  /\ IF exists
       THEN /\ told' = told \cup {id}
            /\ pc' = "clear" /\ UNCHANGED <<id, mine, target, attempt>>
       ELSE Finish /\ UNCHANGED told
  /\ UNCHANGED <<arrVars, exists, open, entity, events, log, pollVars, deleted, faults>>

\* "The stale queue/progress events describe a download that no longer exists."
Clear ==
  /\ pc = "clear"
  /\ events' = [d \in Downloads |-> NoId]
  /\ Finish
  /\ UNCHANGED <<arrVars, exists, open, entity, log, told, pollVars, deleted, faults>>

\* The process stops and starts again: every thread's local variables are gone.
Restart ==
  /\ faults < MaxFaults
  /\ faults' = faults + 1
  /\ Finish
  /\ poll' = "idle" /\ snapshot' = {}
  /\ UNCHANGED <<arrVars, dbVars, deleted>>

-----------------------------------------------------------------------------

Arr ==
  \/ \E d \in Downloads : DownloadLeaves(d)
  \/ \E ids \in SUBSET QueueIds \ {{}}, d \in Downloads, e \in Entities \cup {NoEntity} :
       RowsArrive(ids, d, e)

Polling == PollReads \/ (\E s \in snapshot : PollRecords(s)) \/ PollEnds

Acting ==
  \/ Confirm \/ Reread \/ RereadFails
  \/ DeleteAnswered \/ DeleteRefused \/ DeleteUnanswered
  \/ Log \/ Tell \/ Clear

Next ==
  \/ Arr
  \/ \E e \in Entities : Relink(e)
  \/ Unlink
  \/ Reassess
  \/ Remove
  \/ Polling \/ PollReadsInPart \/ PollFails
  \/ \E d \in Downloads : Ask(d)
  \/ Acting
  \/ Restart

Spec == Init /\ [][Next]_vars

\* Polls go on; an action that was begun may hang in any of its calls.
FairSpec == Spec /\ WF_vars(Polling)

-----------------------------------------------------------------------------
(* Properties                                                              *)

\* What a DELETE removes is the download the second look found, and never one the *arr
\* and Sleutharr know to be for another title than the user acted on, whatever he was
\* shown, however long he waited and however often the call was repeated; as long as
\* queue ids are not given away between that look and the DELETE.
DeletesOnlyItsOwn ==
  [][\A x \in deleted' \ deleted : x.download = target.download /\ ~Another(target)]_vars

\* A log entry that says a download was removed is true: we removed it, and it is in no
\* queue any more.
SuccessMeansRemoved ==
  \A l \in log : l.download # "none" =>
    /\ \E x \in deleted : x.download = l.download
    /\ \A i \in QueueIds : queue[i].download # l.download

\* Whatever actions, failures and restarts came between, a download that stays in the
\* queue ends up on the timeline of the request it belongs to, under an id a removal can
\* use, once the request stays open and linked to one entity.
EventuallyOnTimeline ==
  <>[][FALSE]_<<open, entity>> =>
    <>[](open /\ entity # NoEntity =>
           \A i \in QueueIds : queue[i].entity = entity =>
             \E j \in QueueIds : /\ queue[j].download = queue[i].download
                                /\ events[queue[i].download] = j)

\* A removal that has no entry, and whose entry is not about to be written.
Forgotten(x) ==
  /\ x \in deleted /\ \A l \in log : l.id # x.id
  /\ ~ (pc \in {"delete", "log", "logFailed"} /\ id = x.id)

\* As long as the table takes the entries, a removal stays without one (_log) in two
\* cases only: the request was withdrawn while its action ran, or the process stopped in
\* the middle of it.  In particular a DELETE that was carried out and never answered, or
\* answered "not found" when it was repeated, is logged as one that failed.
WritesEndLogged ==
  [][\A x \in deleted' : Forgotten(x)' => Forgotten(x) \/ ~exists \/ Restart]_vars

-----------------------------------------------------------------------------
(* What the repository says, and the code does not keep                    *)

\* ActionLog: "Record of every write Sleutharr has performed ... Anything that does write
\* gets a durable record here": once no action is under way, every removal has an entry,
\* be it one that says it failed.
EveryWriteIsLogged ==
  pc = "idle" => \A x \in deleted : \E l \in log : l.id = x.id
=============================================================================
