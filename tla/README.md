# Sleutharr in TLA+

Sleutharr answers one question: "I requested this film or series — where did it die?" It polls a
request manager (Seerr family or Ombi), the Sonarr/Radarr instances it hands requests to, their
download clients and the media servers, turns what they answer into a timeline of events per
request, and runs ten rules over it that name the first broken link of the chain. This directory
holds TLA+ models of the parts of that program that a unit test hardly reaches, TLC configurations
that check them, and TLAPS proofs of the main results for every value of the constants.

All paths below are relative to the repository root (`core/...`, `README.md`); line numbers refer
to the commit the models were translated from.

Contents: 1 the system; 2 the modules; 3 what the runs check; 4 bounds; 5 fairness; 6 what is
proved; 7 divergences between the repository's words and its code; 8 what is not modelled;
9 the plan; 10 how to run it.

---------------------------------------------------------------------------------------------------

## 1. The system

One process: gunicorn with one worker and eight threads, and APScheduler's background thread. The
database is SQLite. There is no broker, no cache and no queue of Sleutharr's own; all that survives
a restart is in the tables. Two kinds of thread share it:

* **the poll thread** runs one *cycle* at a time: requests, entities, history, queues, downloads,
  media servers, diagnosis (`core/ingest/__init__.py`);
* **threads of the user interface** run actions (remove from queue, retry, search), probes, the
  settings page, sign-ins to media servers and discovery (`core/views.py`, `core/actions.py`,
  `core/signin.py`, `core/discovery.py`).

They interact through the tables, through one lock per service (`core/clients/base.py`), and through
the services themselves, which change on their own all the time.

| Component | State it keeps | Operations | What makes it correct |
|---|---|---|---|
| Request ingest `core/ingest/requests.py` | `TrackedRequest` rows, `IngestCursor` (backfill_complete, last_reconcile) | walk, upsert, early stop, cutoff, removal of deleted requests | mirrors the window; removes only what is gone upstream; a failure anywhere loses nothing for good |
| Request manager clients `core/clients/requestmanager.py` | none | offset pages (Seerr), whole arrays (Ombi), title lookup, retry | a listing that ends has shown everything |
| Scheduler, cycle `core/scheduler.py`, `core/ingest/__init__.py` | next run time | heartbeat job, skipped runs, Poll now, the stages | every service polled for ever, at its pace, none starving the others |
| Health, lock, retries `core/clients/base.py` | `consecutive_failures`, `backoff_until`, `last_attempt_at`, `last_error`; `_locks` | `request`, `record_success`, `record_failure`, `checked_probe` | one request in flight per service; the health fields agree; a recovered service recovers |
| Settings `core/views.py` (`service_save`, `service_delete`) | the `ServiceInstance` row | load, save whole, delete | only the user changes a key; an edit lifts the backoff |
| Actions `core/actions.py` | `ActionLog` | `remove_from_queue`, `retry_request`, `trigger_search` | delete only one's own; log every write; claim only what happened |
| *arr ingest `core/ingest/arr.py`, `core/clients/arr.py` | `arr_*` fields, events by history id and by queue download | resolve entity, history, queue snapshot | the row says what the *arr says; the timeline has every queue row |
| Download ingest `core/ingest/download.py`, `core/clients/download.py` | hourly samples, `provider_status` | ask for referenced ids, sample | a reading is of the download it is filed under |
| Media server ingest `core/ingest/mediaserver.py`, `core/clients/mediaserver.py` | `media_server_found`, found / not found / mismatch events | path index, two joins | presence and absence are told apart from "could not look" |
| Sign-in, discovery `core/signin.py`, `core/discovery.py` | `ServiceInstance` rows | store a signed-in server's token; add the services another one knows | an existing row's credentials are changed by a sign-in only; no row comes back |
| Timeline `core/ingest/events.py` | `TimelineEvent` | create, create-or-refresh by dedupe key, clear by dedupe key | an event is recorded once, a reading is current |
| Rules and engine `core/rules` | `Diagnosis`, one per request | ten rules, first match wins | names the cause, not its symptom; asserts no absence nobody looked into |
| Search report, views, commands | none | — | see section 8 |

**What is hard.** The walk over a listing that shifts while it is read; state that is read once and
used many calls later (lists of services, a cursor, a queue id on a page a user looks at); calls that
are retried although the first may have been carried out; a restart between an effect and its record;
counters read and written in two statements by several threads; readings of different services,
taken at different moments, combined into one verdict; evidence that is missing because nobody could
look. `PROJECT.json` lists these hazards one by one, each at its line, with the properties that would
catch them going wrong, or the reason why none does.

---------------------------------------------------------------------------------------------------

## 2. The modules

### RequestMirror, RequestSync, SeerrSync, OmbiSync

`RequestMirror` is the abstract specification: requests are made and withdrawn upstream; a mirror
learns of them one at a time and forgets in batches; it may forget only what upstream no longer has,
and never everything. A reading can be *disturbed*, and that is the only excuse.

`RequestSync` is `sync_service_requests`, common to every product. The local variables of the
function are variables here (`pc`, `cutoff`, `reconciling`, `seen`, `streak`, `complete`, `page`,
`more`): they vanish in `EndWalk` when the function returns, raises or the process stops. The actions
are the statements between which the world can change: `BeginWalk` (cutoff and cursor are read once),
`ApplyRow` (the loop body with `_upsert`'s transaction and the early stop), `ReachCutoff`, `NextPage`,
`RunOut` (the loop's `else`), `Settle` (`_remove_deleted`, cascade included), `SaveCursor`,
`FetchFails` (a `ServiceError`), `Interrupted` (a restart or a database error). A request's number is
its `requested_at`; its state and availability are a position in `Lifecycle`.

`SeerrSync` adds a listing that is sorted and read by offset, so that a withdrawal between two pages
shifts it, and title lookups that fail without failing the walk. `shifted` is a history variable: a
row left the part of the listing this walk has passed. `OmbiSync` adds two unsorted arrays. Both
instantiate `RequestMirror` with a refinement mapping (`upstream`, `mirror`, `disturbed`) and have its
specification as the property `KeepsMirrorPromise`.

### PollCycle

The clockwork with time in ticks: the job and its next run (`StartCycle`, `SkipRun` for
`max_instances=1`, `PollNow`), the stages and the list of services each draws up (`Listed`), whom the
stage's loop still passes over (`PassedOver`: entities and history read the row again, queues looks at
the row it read when it began, downloads and media looked when they drew up their list), the call and
its three ends (`CallSucceeds`, `CallFails`, `CallGarbles`: an answer nobody can digest raises
something that is no `ServiceError`, which some stages record, some log, and two let end the stage),
and the health of a service. `Probe`/`ProbeEnds` is `checked_probe` of a view, at the same time;
`Edit` is `service_save` as far as health goes. Deadlines count down (`wait` for `backoff_until`,
`nextRun`), and `age` counts up to `LongAgo`, beyond which nothing compares it.

### ServiceCalls

One service, the rows that stand for it (`ServiceInstance` has no uniqueness constraint, so there may
be two), and any number of threads. `protocol` is what the service may be: one that takes its key with
every request, qBittorrent with its `login`, Transmission with a session `token` that comes in a
refusal, Deluge with a login and a daemon to attach (`proxy`).

* `Begin` is a stage or a view that loads a row and makes a client of it; the poll thread passes over
  what is backed off. `Acquire` … `Answered`/`Refused`/`Unanswered`/`Retry` is `BaseClient.request`
  with the row's lock, which is held over the pauses and free between two requests.
* `LoggedIn`, `Attached`, `NotAttached` and `ChallengeMet` are the clients' sessions, which the
  service may `Forget`: `SecondChance` says who opens a second session for the same question, and
  `Swallows` that Deluge's probe takes two failures for an answer.
* `RecordSuccess` is one UPDATE; `record_failure` is two steps, `ReadFailures` and `RecordFailure`.
* `LoadForEdit` and `SaveTyped`/`SaveBlank` are `service_save`, which loads the row, lets a blank
  field keep the loaded key, and writes every field (inserting the row again when it was deleted
  meanwhile); `Delete` is `service_delete`, one statement of any other thread. `SignIn` and `Link` are
  `save_media_server`: look for the row, then write all of it or create one. `Discover` and
  `ApplyCandidate` are `discover_apply` and `apply_candidate`, with the calls to other services in
  between.

`trouble` is a history variable: it says whether an operation that failed has met with a service that
was down, or with sessions that were lost and could not be opened again.

### QueueAction

`remove_from_queue` with its view, against the queue itself, `sync_arr_queues`, the stages that relink,
unlink, settle (`Reassess`: available or deleted, and no business of the *arr stages any more) or
remove the request, lost answers (`DeleteUnanswered`: carried out or not, tried again) and
restarts. A download may have several rows, as a season pack has; they go together, and share one
event, which keeps the id of the row recorded last. `PollReads` is the question and the choice of the
rows that belong to the request, as only the poll thread itself changes what that choice looks at;
`PollRecords` writes one event. `Ask` is the dialog built from stored events, `Confirm` the click, any
time later; `Reread` is the second look at the queue; `Log`, `Tell`, `Clear` are the entry, the
timeline event and the removal of stale events, each a statement of its own. `RereadFails` is a failing `client.queue()` of
the action, `PollFails` that of the poll or a service that is passed over, and `PollReadsInPart` a
paging that ends at a page that is no object. `NoEntity` stands for a queue row whose title the *arr
does not know and for a request that has lost its link: `Another` is the code's comparison, which says
no when either is missing. `deleted` is a history variable. `ReuseInFlight` says whether a queue id
may be given to another download between an action's second look and the end of its DELETE. It is
FALSE in the runs and an explicit premise (`NoReuse`) of two theorems: the window lies between two
calls of one action, and nothing the code could do would close it. At all other times, the dialog
being open included, ids are reused freely.

### Rules, Diagnosis

`Rules` is pure: the ten rules as operators over a record `c` that holds all a rule may look at, in
the order of `RULES`, and the engine's first-match-wins. Every clause and early return of the ten
files is there; messages, links, severities and evidence lists are wording and are not.

`Diagnosis` is one request for a film, the Radarr it is routed to, that Radarr's one download client
and two media servers, read in the six stages that concern them and then diagnosed. It has two
beginnings. In `JustMade` the request is new, no media server is configured, and the question is how
far the download gets. In `JustImported` Radarr has the file before Sleutharr first looks, a Plex and a
Jellyfin are configured in any state, and the question is whether the arrival is seen. The *world*
(library entry, search, download, file; what is on each media server's `shelf`, and whether a path
mapping leads there) moves between any two stages; every call may fail (`Fails`), be passed over
(`Skips`), or succeed.

History records are known to the rules only once `SyncHistory` has read them (`known`), but carry
Radarr's own time, so they stand where they happened; queue rows, samples and sightings are stamped
when they are recorded, and `Refreshed` rewrites the one with the same dedupe key. Samples are keyed
by the hour, which is the clock's grain. `Candidate` is what makes `sync_media_servers` look at all;
`CheckRequest` is `_check_request` with its two joins (by path, by id), what it clears and the order of
its early returns; `ReadsInPart` is a Plex section that does not answer and is skipped, `BreaksOff` a
lookup by rating key that fails after the library was read, `RecordLibraryState` the mark of an empty
library (`barren`), which makes that server no witness. The media stage's list of services is drawn
up when the first is polled (`BackoffPasses`). `Case` is the translation from rows and events to what
the rules see.

The abstraction: one film, one download at a time, `approved` or `completed` for as long as the model
runs, and witnesses that go silent when an hour passes without an answer (in the code half an hour is
enough). The item id under which Jellyfin has the film, which `_check_request` stores where there is
none, is left out: the next walk over the requests overwrites it (section 7, item 24). Edits of the
library, mishaps of a download, changes for the worse on a shelf and failing calls draw on one budget,
`MaxUpsets`.

`DiagnosisWatched` adds two history variables to `Diagnosis`, which its steps do not read: which
questions Radarr has ever `answered`, and `servedSince` when Plex has been found to hold the film.
Two claims of the rules need them and are about what nobody keeps: that an absence was looked for, and
that a film which has been served for long is reported.

### MC modules, mutated operators, proofs

`MCSeerrSync`, `MCOmbiSync` and `MCPollCycle` only define constants that a configuration cannot write
down. Operators introduced by "As it would be if ..." are deliberate mistakes next to what they
change; no specification uses them, and replacing the original by one makes a property fail. The
`*Proofs` modules hold the theorems.

---------------------------------------------------------------------------------------------------

## 3. What the runs check

| Run | Question | Properties |
|---|---|---|
| SeerrSync | Walks over a paged, shifting listing, with failures, restarts and the early stop | `CompleteWalkSawAll`: a walk that counts as complete has seen every tracked request of the window that still exists, unless the listing shifted. `KeepsMirrorPromise`: it implements `RequestMirror`. `EventuallyMirrored`: in the end the window is mirrored, with its last states. `EventuallyTitled`: a failed title lookup is made up for. `TypeOK`: among the types, a removed row leaves nothing behind |
| OmbiSync | The same over two unsorted arrays | `KeepsMirrorPromise`, `EventuallyMirrored` as long as nothing is older than the window |
| PollCycle | Health and pacing while somebody meddles; nobody is given up, nobody starves | `BackoffHonoured`: no failure means no backoff, and a backoff lasts what it should, counted from the attempt it punishes. `KeepsPolling`, `Recovers`: every polled service is called again and again, and healthy again once it answers, as long as answers can be digested. `TypeOK`: no backoff exceeds the ceiling |
| QueueAction | A removal racing everything | `DeletesOnlyItsOwn`: what a DELETE removes is the download the second look found, never one known to be another title's. `SuccessMeansRemoved`: a logged success is true. `WritesEndLogged`: a removal stays without an entry only if the request is withdrawn meanwhile or the process stops. `EventuallyOnTimeline`: a download that stays in the queue ends up on the timeline, under the id of one of its rows, once the request stays open and linked to one entity (while either keeps changing no poll need ever match it), whatever polls saw a part of the queue only. `TypeOK`: never more than `Attempts` calls |
| ServiceCalls | Two threads and two rows of one service, of each protocol | `OneInFlight`; `HealthAgrees`; `OnlyTroubleFails` (with the right credentials no operation fails because of a session that could have been opened again); `SettingsAreEdited` (who merely talks to a service never undoes a save or revives a deleted row, and discovery only adds rows that never were); `Heals` (healthy in the end once the key is mended, whatever was in flight) |
| Diagnosis | Readings taken at different moments | `NamesTheCause`: a cycle that read everything while nothing moved names the cause, arrival included, or makes a mistake it is known for. `UpstreamIsExact`: rules 1 and 2 are then right in both directions. `BrokenLaterSurfaces`: a completed request whose film no library has any more is not passed over as fulfilled. `ResolvedIsSettled`: once a path resolves, no earlier complaint of that server is left |
| SeerrShift | violation: `OnlyDeletedAreRemoved` | A live request is removed because a deletion between two pages shifted it to a page already read |
| OmbiCutoff | violation: `EverythingNewerSeen` | The first old row of an unsorted array ends the walk as complete |
| QueueUnlogged | violation: `EveryWriteIsLogged` | A restart, or the request's removal, between DELETE and entry |
| DiagnosisSeeding | violation: `ImportedIsNotDenied` | An imported download that keeps seeding is called "complete, never imported" |
| DiagnosisLooked | violation: `AbsenceIsLookedFor` | The entity stage fails, a later stage of the cycle succeeds, and Radarr is a witness to the absence of a film nobody has looked for |
| DiagnosisArrival | violation: `ArrivalIsReported` | A film that has been served for a whole grace time is not reported as arrived: each cycle makes its sighting new |

`NamesTheCause` admits two sets. `Cause` is what the rules' own words call for, told from Radarr (its
entry, its download, and what its history holds, whether Sleutharr has read it or not), its client, the
request and the libraries; what Sleutharr keeps, the row and the timeline, is not looked at. Where
the world does not tell how long a thing has been so (how fast a download was, since when a library
has had the film), `Cause` has both answers that may be right. `Mistakes` are the wrong verdicts that
the code is known to give (section 7, items 12 and 14 to 25), each only where its reason is there to be seen:
an event that has outlived what it says (`Outlived`), an error counted as an attempt (`CountsAsFailed`),
a mismatch of a film that has left, a flag of another server. Code that is mended in one of these
points has the property too, and so has code that says ARRIVED_NOT_REFLECTED in time: the
mistakes are permitted, and none is required. Where something is wrong upstream (`UpstreamCause`)
no mistake is admitted at all.

---------------------------------------------------------------------------------------------------

## 4. Bounds, and why they are enough

* **SeerrSync**: 2 requests, pages of 1, streak limit 1, window edge up to 1, 2 faults. With pages
  of one row every pair of rows straddles a page boundary; an interrupted walk followed by an early
  stop needs two rows and one fault, a title that fails twice two faults. SeerrShift and OmbiCutoff
  need three requests: one passed, one lost, one to make the walk non-empty.
* **OmbiSync**: 2 requests, one of them television, so that both arrays matter and each order of the
  arrays occurs.
* **PollCycle**: a request manager, paced by its interval, and an *arr, called in three stages;
  intervals of 2 ticks, calls of at most one tick, a heartbeat of one: a cycle outlasts the heartbeat, a
  backoff runs out within a cycle, the ceiling (3) differs from the doubling (4). One probe, edit or
  click on Poll now at any moment (`MaxMeddling`); somebody who clicks every few seconds for ever keeps
  the cycle from running (section 7, item 5). Download clients and media servers, which are looked at
  when their stage begins, and probes and edits that meet, are left to the proofs, which are for services
  of all kinds and any number of them. 1.2 million states.
* **QueueAction**: 2 ids, 2 downloads, 2 entities and the lack of one, 2 attempts, 2 faults: an id can
  be reused across actions, a download of another entity or of none stand under it, a pack take both
  ids, both attempts be lost. No removal is begun once the log has 2 entries (`MaxEntries`): a second
  one meets what the first left. 2.4 million states.
* **ServiceCalls**: the poll thread and one other, 2 rows, 2 keys, the 4 protocols, 2 attempts, 2
  questions per operation, 1 edit, sign-in or discovery besides any number of deletions, 1 fault (a
  session forgotten, a daemon missing). A lost update needs two recorders; a session that is lost
  between two questions needs two questions; a row recreated beside a recorder needs one edit. What
  two edits at once do to each other, and a second session lost, is covered by the proofs, for any
  number of threads and rows. 270 thousand states.
* **Diagnosis**: 1 hour passing (the stall window and the grace time are one hour, so a baseline can be
  old enough), 2 downloads (the second meets the leftovers of the first, and two failures are a loop
  at a threshold of 2), progress in halves, 1 upset, 73 initial states, of which 64 have an imported
  file and two media servers in any combination of shelves. One upset is enough for a library read
  in part and mended in the next cycle, or for a film that disappears after it was found. 1.3 million
  states. Of the mistakes `NamesTheCause` admits, all but two that may be said of a
  download in error (item 16: DOWNLOADED_NOT_IMPORTED, DOWNLOAD_IN_PROGRESS) occur within these
  bounds. DiagnosisSeeding, DiagnosisLooked and DiagnosisArrival have the same bounds.

The constants of the code (50 rows a page, streak 25, 30 s to 15 min, 3 attempts, thresholds) are
CONSTANTS; the theorems hold for all of their values.

---------------------------------------------------------------------------------------------------

## 5. Fairness

* Walks, polls and cycles are weakly fair: the scheduler runs the job for ever, each call has a time
  limit (5 s to connect, 30 s to read, three attempts), so every stage ends. Nobody has to click, no
  service has to come up: people and moods have no fairness.
* Clocks (`Elapse`, `Tick` inside `Scheduling`, `BackoffPasses`) run.
* In ServiceCalls every thread that has begun an operation goes on, strongly fair (`SF_vars(Goes(w))`):
  a Python lock promises no order, only that a thread that goes on trying for a lock that is free
  again and again gets it in the end. The poll thread is strongly fair to each row
  (`SF_vars(BackoffPasses(i) \/ Begin(Poller, i))`): the stage calls every service that is not backed
  off, cycle after cycle, and time passes. Users, deletions, the service itself and its sessions have
  no fairness.
* In QueueAction polls go on. An action has no fairness: it may stand still between any two of its
  statements for as long as it likes, and what it does in the end must fit all the same.
* Diagnosis has no liveness property; whether steady cycles keep occurring is up to the world.
* `KeepsPolling` and `Recovers` assume that answers can eventually be digested: an undigestible
  answer ends the history or queue stage for all services after it, every cycle (`core/ingest/arr.py:205`).

---------------------------------------------------------------------------------------------------

## 6. What is proved

All proofs are for every value of the constants that satisfies the modules' named assumptions
(naturals, positive limits, names that are not services), and are checked by tlapm with Z3, Zenon and
LS4.

* **SeerrSyncProofs.** `TypeCorrect`; `CompleteWalksSeeAll` and `ImplementsMirror`, for pages of any
  size. The inductive invariant adds to `TypeOK` where a walk stands in the listing (`Places`): as
  long as nothing shifted, every tracked row of the window is seen, or still on the page, or at an
  offset the walk has yet to fetch; the listing is sorted and without repetition; and at `settle`, a
  complete walk has nothing left to fetch. `CompleteWalkSawAll` alone is not inductive, as it says
  nothing about a walk that has not ended. The refinement maps `ApplyRow` to `Learn`, `Settle` to
  `Forget` (excused by `shifted`), `Begin` to `Reread` and the rest to stutters; completeness at
  `settle` is exactly what `Forget`'s guard needs.
* **OmbiSyncProofs.** `TypeCorrect`; `ImplementsMirror`, for any number of requests and any split
  between the arrays; and `SeenWhileNoneIsOld`, which says up to where the comment
  that the run OmbiCutoff refutes is right. As there is no order to go by, the invariant says of each
  tracked request that exists that it is seen, or on the page in hand, or in an array still to be
  fetched (`Coverage`, `Ahead`), as long as nothing is older than the window; that requests may come
  and go between the two fetches disturbs none of the three. That a mirror is never emptied is part of
  the promise, and is not excused by an old request: a walk that saw nothing of the window removes
  nothing.
* **PollCycleProofs.** `TypeCorrect`, `BackoffsHonoured`, `BackedOffAreLeftAlone`. The health of a
  service is inductive by itself: `Tick` takes from `wait` no more than it adds to `age`, up to a cap
  that exceeds the ceiling. For the third, the invariant says that while nobody has probed, every
  service a stage still has on its list is free, or is looked at again before it is called, because
  a stage calls each service once, and takes it off its list before anything is recorded of it.
* **QueueActionProofs.** `TypeCorrect`; `SuccessesAreTrue` and `RemovalsAreOwn` under `NoReuse`
  (`ReuseInFlight = FALSE`). The invariant: a download that we deleted is queued under no id, and never
  again, and what the second look found is, for as long as its DELETE is tried, under its id
  or gone, and was not another title's when it was compared. `RemovalsEndLogged` says what is left of
  the promise that QueueUnlogged refutes: withdrawal and restart are the only two ways to an unlogged
  removal. It follows from the steps alone and needs neither the invariant nor `NoReuse`.
* **ServiceCallsProofs.** For any number of threads, rows, questions and attempts: `TypeCorrect` (so no
  more than `Attempts` attempts), `RequestsExclude`, `HealthIsCoherent`, `HealthWritesSpareSettings`,
  `SessionsAreNoTrouble`. The last needs to know, of every thread, where its client stands: who is in
  a request has attempts left and a row (`AttemptsLeft`, `HasRow`), who asks to attach or, past a
  login, a question, has a session, good or forgotten (`HasSession`), and what can still make the call
  fail is recorded in `trouble` before it does (`TroubleTells`): the service is down, a session is
  forgotten, a second chance is spent.
* **RulesProofs.** About the rules alone, for every case whatever, `SilenceAccusesNobody`: take away
  any of the witnesses, and the verdict stays what it was, becomes EVIDENCE_UNAVAILABLE, or, where it
  was ARRIVED_NOT_REFLECTED, becomes DOWNLOAD_IN_PROGRESS or none. It takes the ten rules together:
  each rule whose guard falls silent uncovers those behind it, and `DeafRules` (which say the same),
  `CautiousRules` (which say the same or that evidence is missing) and `ModestRules` (which say the
  same or nothing) tell which may come up. `UpstreamFirst`, `Vocabulary` and `InTurn` are lemmas on
  the engine's first match. All cover the clauses on television, usenet providers and qualities too,
  which no run reaches. What the theorem does not say is that a witness has looked: it has not always
  (the run DiagnosisLooked).
* **DiagnosisProofs.** `TypeCorrect`, `UpstreamExact`, `BrokenSurfaces`. The
  invariant adds that the timeline tells only of downloads there have been, and that in a steady cycle
  past its first stage the row is what Radarr has; with it and the rules' lemmas, rules 1 and 2 are
  exact. For `BrokenSurfaces` it adds what the row's flag is worth (`FlagIsCurrent`): in a steady cycle
  with something to look for, `media_server_found` is "no" past Plex's stage if Plex has other titles
  and not the film, and past Jellyfin's if some library has other titles and none the film.
* **CauseProofs.** `ResolutionSettles`, and `CauseNamed`, the theorem the rest of the diagnosis was
  built for: every verdict of a steady cycle is in `Cause` or `Mistakes`. The invariant (`Evidence`) extends
  that of DiagnosisProofs by three parts. `LineFits` says what the timeline can hold: each event is plausible for its source
  (`Plausible`), every download has its grab and the file its import, no failed attempt stands after
  the last import, a media server's complaint of one kind is there at most once. `WorldFits` ties the
  client's job to Radarr's queue and file. `Read` says what each stage of a cycle that stays steady
  has left: the references, the queue row, the sample at the end of the timeline, and, of the media
  servers, the complaints and the flag of the last one to speak. From it the verdict is computed rule
  by rule: `InTurn` (in RulesProofs) writes the engine as the ten rules in a row; `RowRules` settles
  those that look at the row; `LoopRule` counts failed attempts, for which the attempts' keys are put in
  one-to-one correspondence with the failures recorded; `LatestReading` and `StalledOrNothing` deal
  with the samples. `Arrival` computes what the engine says of an imported film, and `ArrivalFits`
  compares that with `Cause`; `SearchFits`, `GoneFits` and `RunningFits` do the same for a film without
  a download, with one that is gone, and with one in the client.

  The code compares fractions, and a download that gains no more than `stall_min_progress_delta` in the
  whole stall window is stalled by the user's own setting although it moves. The world does not
  remember how fast a download was, so with a delta of at least one unit of progress `Cause` admits
  GRABBED_BUT_STALLED of any unfinished download past the window; with `MinDelta = 0`, as in the run,
  only of one that has stood still for the window.

**From which assumptions.** The named `ASSUME`s of the modules, `NoReuse` for two theorems of
QueueActionProofs; nothing else. TLC evaluates the former on every run.
`Evidence` and the other inductive invariants were checked by TLC before they were proved.

**Only model-checked.** All liveness (`EventuallyMirrored`, `EventuallyTitled`, `KeepsPolling`,
`Recovers`, `EventuallyOnTimeline`, `Heals`), as the prover has neither fairness nor ENABLED. Every
invariant and every action property of the passing runs, and both refinements, are theorems.

---------------------------------------------------------------------------------------------------

## 7. Where words and code part

Six have a run each (section 3): **SeerrShift** (`core/ingest/requests.py:124`, against :149),
**OmbiCutoff** (:88, against :85-87), **QueueUnlogged** (`core/actions.py:228`, against
`core/models.py:499-503`), **DiagnosisSeeding** (`core/rules/r04_downloaded_not_imported.py:35`,
against :1 and :31), **DiagnosisLooked** (`core/rules/r01_never_added.py:50`, against
`core/rules/base.py:132-133`) and **DiagnosisArrival**
(`core/rules/r10_arrived_but_not_reflected.py:60`, against its :4-5 and
`core/tests/test_arrived_not_reflected.py:85`).

The others were met while modelling. The models do what the code does.

1. "The first run of already-seen records means everything older is also stored"
   (`core/ingest/requests.py:56-57`): not after a walk that failed half way; its newest rows are
   stored and stop the next walk early (:102). Only the periodic reconciling walk fills the hole,
   which is why `EventuallyMirrored` needs `Elapse`.
2. "Ombi already includes the title" (`core/clients/requestmanager.py:500`), but `_upsert` never
   stores it (`core/ingest/requests.py:231`); an Ombi request has no title until an *arr entity gives
   it one (`core/ingest/arr.py:143-144`).
3. A failing service is "skipped for the remainder of the cycle" (`core/clients/base.py:36-37`):
   only if what is left of the cycle is shorter than the floor of 30 s (:248).
4. `record_failure` "widens the backoff window" (`core/clients/base.py:235`); it overwrites it (:251):
   a probe that times out during a refusal's 15 minutes shortens them.
5. Poll now is to "trigger a cycle immediately" (`core/scheduler.py:87`): it sets the next run to ten
   seconds from now, later than it may have been (:93), and repeated clicks postpone it.
6. An edit lifts the backoff to "make the next poll immediate" (`core/views.py:353-355`), but leaves
   `last_attempt_at`, which paces a request manager. Only request managers are paced: "Every service
   polls on its own interval" (`README.md:293`, `core/scheduler.py:23-24`), but the other stages do not ask
   `due_services` (`core/ingest/arr.py:283`), so an *arr is called up to three times in every heartbeat's
   cycle.
7. A request in flight with the old key fails after the edit and puts the backoff back
   (`core/clients/base.py:251`, `core/views.py:353`); `Heals` holds as backoffs pass.
8. A settings form with a blank secret writes back the one it loaded (`core/views.py:333-334`, :357),
   undoing another save in between.
9. "A stale queue id must never be used to delete something" (`core/actions.py:65-66`). The second
   look compares entities, and only if both are known (:186): an id on a page shown long ago may by
   now name another download of the same entity, or one of a title the *arr has not recognised, and
   a request that lost its link is compared with nothing. `DeletesOnlyItsOwn` therefore speaks of
   what that look found, and of titles that are known.
10. Stale queue events are to keep the old verdict alive no longer than "until the next full poll"
    (`core/actions.py:254-255`), but a full poll clears none (`core/ingest/arr.py:305`): those of a
    row that left by itself stay for ever.

Of the diagnosis ("steady", `Outlived`, `CountsAsFailed` and `DownloadMistakes` in `Diagnosis` leave room
for these):

11. NEVER_ADDED claims a search by ids that may not have happened: the run DiagnosisLooked. The entity
    stage failed or passed over the service, and a later stage's success makes it a witness
    (`core/rules/r01_never_added.py:47-50`, `core/rules/base.py:141-149`). Hence "steady" in
    `UpstreamIsExact`.
12. Rule 4 after import and seeding: the run DiagnosisSeeding. Nor does it ask whether the *arr
    answered: a client that calls the download complete is enough for "no import event has been
    recorded", the history read or not, which violates the second half of `AbsenceIsLookedFor`. And
    its "it is not in the queue either" (`core/rules/r04_downloaded_not_imported.py:65`) is said
    without a look at queue events, during an import that is merely pending, too.
13. Rule 10 waits until the `:found` event is older than the grace time, but the event is refreshed
    on every media poll (`core/ingest/mediaserver.py:276-288`), and with the defaults (60 minutes of
    grace, 30 of silence allowed) a media server that stopped refreshing it is no witness any more. It
    does not fire: the run DiagnosisArrival.
14. A path mismatch is remembered by its event alone: when the file vanishes from the media server
    altogether the event is not cleared (`core/ingest/mediaserver.py:318`) and rule 7 looks at it
    before anything else (`core/rules/r07_not_in_media_server.py:44-51`).
15. A download in error is sampled hourly as DOWNLOAD_FAILED, without a downloadId in the payload, so
    each sample counts as an attempt and three hours of one error are a loop
    (`core/rules/r03_blocklist_loop.py:46-49`).
16. For the same reason `is_errored` in rule 5 is never reached: it looks at DOWNLOAD_PROGRESS only.
17. Rules 5 and 9 measure progress against the newest old sample of any download
    (`core/rules/r05_grabbed_but_stalled.py:171`), so a new attempt is compared with the one before.
18. Neither asks whether there has been an import since.
19. An IMPORT_BLOCKED event whose row has gone makes rule 4 blame a later download (with item 10).
20. Readings of a download that is gone from the client go on to be judged: "in progress", then
    "stalled", as long as the client answers (against `core/rules/r09_download_in_progress.py:53-56`,
    which means to exclude statements "about our records").

Of arrival (`ArrivalMistakes` leaves room for these):

21. Every media server writes the same `media_server_found`, in turn (`core/ingest/mediaserver.py:94`),
    so the last one polled decides whether a completed request is fulfilled, while the rules ask the
    first one whether it may be called absent.
22. A section of a Plex library that cannot be read is skipped (`core/clients/mediaserver.py:200`) and
    what is left taken for the whole: the film is recorded as missing, or, when its rating key is
    known, as a path mismatch. Jellyfin's client says why it does not do that: "A silent `return`
    here would hand back a short library and no indication that it was short" (:298).
23. A library that reads as empty is no witness, and leaves the flag as an earlier reading set it: a
    completed request stays fulfilled when every library has been emptied (`BrokenLaterSurfaces` asks
    for one that has something in it).
24. The item id of whichever server found the film first is stored where the request manager knows
    none (`core/ingest/mediaserver.py:258-259`), without saying of which server it is, and the next walk
    overwrites it with the request manager's (`core/ingest/requests.py:220`).
25. A path mismatch that is recorded for one server stays while another has the file; each clears only
    its own complaints.

Of rows and sessions:

26. Deluge's probe succeeds although both calls for the version failed
    (`core/clients/download.py:615`): it shows the service as healthy, and clears its backoff.
27. qBittorrent's probe does not log in again when its session is refused (:290-292), as every other
    question does (:280-287); a probe that loses its session counts as a failure.
28. `save_media_server` and `discover_apply` look for a row and then create one
    (`core/signin.py:275`, `core/discovery.py:352`), without a constraint in the table: two at once make
    twins, each polled, locked and backed off by itself.
29. The look compares host and port alone (`core/discovery.py:99`): services behind one reverse proxy,
    told apart by their paths, are taken for one another.
30. `client_identifier` must be "stable" (`core/signin.py:46-50`), and is read, then made and set: two
    first sign-ins at once may use two identifiers, of which one is kept.

---------------------------------------------------------------------------------------------------

## 8. What is not modelled

* **retry_request, trigger_search**: one call and its log entry each; the hazards are those of
  `remove_from_queue`, less its second look. **Early returns** of actions for a disabled service
  change nothing.
* **Series and seasons** (rules 1 to 3 and 8 have clauses on them, which are in `Rules`), several *arrs
  and clients behind one stage, scoping of download ids to clients, usenet provider health, quality
  profiles, the assignment of a request to an *arr (`_match_arr_service`) and a request's lifecycle
  events: more of the same data, read by the same stages; the failures they share are in `PollCycle`.
* **Path matching** of media servers: `shelf` says what it finds; the string work is not modelled.
* **Sign-in** up to its token: the PIN's life is Plex's and kept in the user's session, the listing of
  servers is read-only. **Discovery**'s scans and `identify`: I/O and heuristics that write nothing.
* **Search report, views, templates**: read-only. **Migrations, management commands**: start-up.
* **Field parsing** of each product's payloads, URL building, wording.
* **A failing database.** A statement that fails for want of a lock, disk or request ends its thread's
  work in RequestSync (`Interrupted`); in QueueAction only the want of the request is modelled, so a
  `_log` that fails by itself is one more way to an unlogged removal, which `WritesEndLogged` does not
  count.
* **Queue rows without a download id**, whose event is keyed by the row's own id
  (`core/ingest/arr.py:347`): in QueueAction every row belongs to a download.
* **SQLite's locks.** Statements are atomic, transactions are steps; that a writer waits up to 30 s
  for another, and that `fetch_title` calls out inside a transaction, is listed as a hazard only.

---------------------------------------------------------------------------------------------------

## 9. The plan

The order was by importance: what deletes data (requests, queue rows), then what everything rests on
(health, pacing, sessions, the settings' rows), then what the program is for (the verdict, from the
library to the media server). Done: RequestMirror, RequestSync, SeerrSync, OmbiSync, QueueAction,
PollCycle, ServiceCalls, Rules, Diagnosis, DiagnosisWatched and their proofs. What section 8 leaves
out of the modelling is left out for its reasons, and no further module is planned.

Of what the passing runs check only liveness is without a theorem, and it is out of the prover's
reach. What could still be proved:

1. What survives of `SuccessesAreTrue` and `RemovalsAreOwn` without `NoReuse`: that an entry of a
   success follows a DELETE of ours under that id, whatever download stood there by then.
2. A sharper `CauseNamed` for units of progress below the delta, from a history variable for the
   speed of a download, and one for each of the mistakes, once the code is mended.
3. More lemmas about single rules in RulesProofs, above all about seasons, which no run reaches.

---------------------------------------------------------------------------------------------------

## 10. Running it

    tlc -workers 2 -config SeerrSync.cfg MCSeerrSync
    tlapm SeerrSyncProofs.tla

`PROJECT.json` lists, for each run, its module and configuration; for each property, a mutated
operator that makes TLC find it violated; and for each definition, the source lines it stands for.
