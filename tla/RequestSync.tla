---------------------------- MODULE RequestSync ----------------------------
(***************************************************************************)
(* One request manager's requests, mirrored into TrackedRequest rows:      *)
(* sync_service_requests and what it calls (core/ingest/requests.py).      *)
(*                                                                         *)
(* This module is the part that is the same for every request manager: the *)
(* loop that applies rows, the early stop, the removal of rows that are    *)
(* gone upstream and the cursor.  SeerrSync and OmbiSync add how each      *)
(* product's client lists its requests (client.iter_requests).             *)
(*                                                                         *)
(* Requests are numbered by the time they were made, so a request's number *)
(* is its requested_at and a larger number is newer.                       *)
(***************************************************************************)
EXTENDS Integers, Sequences, FiniteSets

CONSTANTS
  MaxRequest,   \* requests ever made upstream (bounds the model)
  Lifecycle,    \* the (request_state, availability) pairs a request goes through
  StreakLimit,  \* untouched records in a row that mean "caught up"; 25 in the code
  MaxOldest,    \* how far the backfill cutoff may move (bounds the model)
  MaxFaults     \* failures and restarts (bounds the model)

ASSUME RequestSyncAssumption ==
  /\ MaxRequest \in Nat /\ MaxOldest \in Nat /\ MaxFaults \in Nat
  /\ StreakLimit \in Nat \ {0}
  /\ Lifecycle \in Seq(STRING) /\ Len(Lifecycle) > 0

Ids      == 1 .. MaxRequest
Versions == 1 .. Len(Lifecycle)
Rows     == [id : Ids, version : Versions]

VARIABLES
  (* Upstream *)
  made,           \* how many requests have been made, ever
  version,        \* how far along its Lifecycle each request is
  (* The database *)
  tracked,        \* the requests with a TrackedRequest row
  known,          \* the version each row holds
  titled,         \* the rows whose title is filled in
  backfilled,     \* IngestCursor.backfill_complete
  reconcileDue,   \* reconcile_minutes have passed since cursor.last_reconcile
  (* Time and luck *)
  oldest,         \* requests numbered up to this are older than backfill_days
  faults,         \* failures so far
  (* The local variables of sync_service_requests *)
  pc,             \* where the walk is
  cutoff, reconciling, walkBackfilled, seen, streak, complete,
  page,           \* the rows the client has fetched and not yielded yet
  more            \* whether the client will ask for another page after this one

upstreamVars == <<made, version>>
rowVars      == <<tracked, known, titled>>
cursorVars   == <<backfilled, reconcileDue>>
walkVars     == <<pc, cutoff, reconciling, walkBackfilled, seen, streak, complete, page, more>>
syncVars     == <<upstreamVars, rowVars, cursorVars, oldest, faults, walkVars>>

SyncTypeOK ==
  /\ made \in 0 .. MaxRequest
  /\ version \in [Ids -> Versions]
  /\ tracked \subseteq Ids
  /\ known \in [Ids -> Versions]
  /\ titled \subseteq tracked
  /\ backfilled \in BOOLEAN /\ reconcileDue \in BOOLEAN
  /\ oldest \in 0 .. MaxRequest
  /\ faults \in 0 .. MaxFaults
  /\ pc \in {"idle", "fetch", "apply", "settle", "save"}
  /\ cutoff \in 0 .. MaxRequest
  /\ reconciling \in BOOLEAN /\ walkBackfilled \in BOOLEAN
  /\ seen \subseteq Ids
  /\ streak \in Nat
  /\ complete \in BOOLEAN
  /\ page \in Seq(Rows)
  /\ more \in BOOLEAN

\* No walk is under way; nothing of an earlier one is remembered.
NoWalk ==
  /\ pc = "idle"
  /\ cutoff = 0 /\ reconciling = FALSE /\ walkBackfilled = FALSE
  /\ seen = {} /\ streak = 0 /\ complete = FALSE
  /\ page = <<>> /\ more = FALSE

SyncInit ==
  /\ made = 0 /\ version = [i \in Ids |-> 1]
  /\ tracked = {} /\ known = [i \in Ids |-> 1] /\ titled = {}
  /\ backfilled = FALSE /\ reconcileDue = TRUE
  /\ oldest = 0 /\ faults = 0
  /\ NoWalk

\* The walk is over and its local variables are gone.
EndWalk ==
  /\ pc' = "idle"
  /\ cutoff' = 0 /\ reconciling' = FALSE /\ walkBackfilled' = FALSE
  /\ seen' = {} /\ streak' = 0 /\ complete' = FALSE
  /\ page' = <<>> /\ more' = FALSE

-----------------------------------------------------------------------------
(* The world outside: time passes, requests change.                        *)

\* A request grows older than backfill_days.
GrowOld ==
  /\ oldest < MaxOldest /\ oldest < made
  /\ oldest' = oldest + 1
  /\ UNCHANGED <<upstreamVars, rowVars, cursorVars, faults, walkVars>>

\* reconcile_minutes have passed since the last complete walk.
ReconcileFallsDue ==
  /\ ~reconcileDue
  /\ reconcileDue' = TRUE
  /\ UNCHANGED <<upstreamVars, rowVars, backfilled, oldest, faults, walkVars>>

\* Somebody approves, declines, retries ... request i, or its media arrives.
ChangeUpstream(i) ==
  /\ version[i] < Len(Lifecycle)
  /\ version' = [version EXCEPT ![i] = @ + 1]
  /\ UNCHANGED <<made, rowVars, cursorVars, oldest, faults, walkVars>>

-----------------------------------------------------------------------------
(* sync_service_requests                                                   *)

\* The next poll of this service begins: cutoff and cursor are read once, here.
BeginWalk ==
  /\ pc = "idle"
  /\ pc' = "fetch"
  /\ cutoff' = oldest
  /\ reconciling' = reconcileDue
  /\ walkBackfilled' = backfilled
  /\ seen' = {} /\ streak' = 0 /\ complete' = FALSE
  /\ page' = <<>> /\ more' = FALSE
  /\ UNCHANGED <<upstreamVars, rowVars, cursorVars, oldest, faults>>

\* The pair _upsert compares before and after to tell a changed record.
Shown(v) == Lifecycle[v]

Untouched(row) == row.id \in tracked /\ Shown(known[row.id]) = Shown(row.version)

\* 25 untouched records in a row: the walk may stop, unless it is reconciling.
CaughtUp(row) ==
  /\ Untouched(row)
  /\ ~reconciling
  /\ walkBackfilled
  /\ streak + 1 >= StreakLimit

\* As it would be if a title were looked up only when the row is created.
UpsertTitleOnce(row, gotTitle) ==
  /\ tracked' = tracked \cup {row.id}
  /\ known' = [known EXCEPT ![row.id] = row.version]
  /\ titled' = IF gotTitle /\ row.id \notin tracked THEN titled \cup {row.id} ELSE titled

\* _upsert: one transaction.  gotTitle: the title lookup of an untitled row succeeded.
Upsert(row, gotTitle) ==
  /\ tracked' = tracked \cup {row.id}
  /\ known' = [known EXCEPT ![row.id] = row.version]
  /\ titled' = IF gotTitle THEN titled \cup {row.id} ELSE titled

\* The loop body, for a row inside the backfill window.
ApplyRow(gotTitle) ==
  /\ pc = "apply" /\ page # <<>>
  /\ LET row == Head(page) IN
       /\ row.id > cutoff
       /\ seen' = seen \cup {row.id}
       /\ Upsert(row, gotTitle)
       /\ streak' = IF Untouched(row) THEN streak + 1 ELSE 0
       /\ page' = IF CaughtUp(row) THEN <<>> ELSE Tail(page)
       /\ pc' = IF CaughtUp(row) THEN "settle" ELSE "apply"
  /\ UNCHANGED <<upstreamVars, cursorVars, oldest, cutoff, reconciling, walkBackfilled,
                 complete, more>>

\* The loop body, for the first row older than the cutoff: it counts as the end.
ReachCutoff ==
  /\ pc = "apply" /\ page # <<>>
  /\ Head(page).id <= cutoff
  /\ walkBackfilled' = TRUE
  /\ complete' = TRUE
  /\ page' = <<>>
  /\ pc' = "settle"
  /\ UNCHANGED <<upstreamVars, rowVars, cursorVars, oldest, faults, cutoff, reconciling,
                 seen, streak, more>>

\* The page is used up and the client asks for the next one.
NextPage ==
  /\ pc = "apply" /\ page = <<>> /\ more
  /\ pc' = "fetch"
  /\ UNCHANGED <<upstreamVars, rowVars, cursorVars, oldest, faults, cutoff, reconciling,
                 walkBackfilled, seen, streak, complete, page, more>>

\* As it would be if running out of pages did not count as a complete walk.
RunOutIncomplete ==
  /\ pc = "apply" /\ page = <<>> /\ ~more
  /\ walkBackfilled' = TRUE
  /\ pc' = "settle"
  /\ UNCHANGED <<upstreamVars, rowVars, cursorVars, oldest, faults, cutoff, reconciling,
                 seen, streak, complete, page, more>>

\* The loop's else: the client has no more pages.
RunOut ==
  /\ pc = "apply" /\ page = <<>> /\ ~more
  /\ walkBackfilled' = TRUE
  /\ complete' = TRUE
  /\ pc' = "settle"
  /\ UNCHANGED <<upstreamVars, rowVars, cursorVars, oldest, faults, cutoff, reconciling,
                 seen, streak, page, more>>

\* As it would be without the refusal to trust an empty walk.
StaleEvenIfEmpty == {i \in tracked : i > cutoff /\ i \notin seen}

\* _remove_deleted's victims: in the window and not seen; none when nothing was seen.
Stale ==
  IF seen = {} THEN {} ELSE {i \in tracked : i > cutoff /\ i \notin seen}

\* As it would be if removing a row left what hangs off it behind.
SettleWithoutCascade ==
  /\ pc = "settle"
  /\ tracked' = tracked \ (IF reconciling /\ complete THEN Stale ELSE {})
  /\ pc' = "save"
  /\ UNCHANGED <<upstreamVars, known, titled, cursorVars, oldest, faults, cutoff,
                 reconciling, walkBackfilled, seen, streak, complete, page, more>>

\* After the loop: a complete reconciling walk removes what it did not see.
Settle ==
  /\ pc = "settle"
  /\ LET gone == IF reconciling /\ complete THEN Stale ELSE {} IN
       /\ tracked' = tracked \ gone
       /\ titled' = titled \ gone
       /\ known' = [i \in Ids |-> IF i \in gone THEN 1 ELSE known[i]]
  /\ pc' = "save"
  /\ UNCHANGED <<upstreamVars, cursorVars, oldest, faults, cutoff, reconciling,
                 walkBackfilled, seen, streak, complete, page, more>>

\* cursor.save(): the only place the cursor reaches the database.
SaveCursor ==
  /\ pc = "save"
  /\ backfilled' = walkBackfilled
  /\ reconcileDue' = IF reconciling /\ complete THEN FALSE ELSE reconcileDue
  /\ EndWalk
  /\ UNCHANGED <<upstreamVars, rowVars, oldest, faults>>

\* A page request raises ServiceError: the walk ends and the cursor is not saved.
FetchFails ==
  /\ pc = "fetch"
  /\ faults < MaxFaults
  /\ faults' = faults + 1
  /\ EndWalk
  /\ UNCHANGED <<upstreamVars, rowVars, cursorVars, oldest>>

\* The process stops, or a database error leaves the function, at any other point.
Interrupted ==
  /\ pc \notin {"idle", "fetch"}
  /\ faults < MaxFaults
  /\ faults' = faults + 1
  /\ EndWalk
  /\ UNCHANGED <<upstreamVars, rowVars, cursorVars, oldest>>
=============================================================================
