------------------------------ MODULE Diagnosis ------------------------------
(***************************************************************************)
(* From the request to a verdict: one request for a film, the Radarr it is *)
(* routed to with its one download client, the media servers, and the      *)
(* stages of Sleutharr's poll cycle that read them into a timeline         *)
(* (core/ingest/arr.py, download.py, mediaserver.py) and diagnose the      *)
(* request (core/rules).                                                   *)
(*                                                                         *)
(* There are two beginnings: a request just made, where no media server is *)
(* configured, and one whose film Radarr imported before Sleutharr first   *)
(* looked, where a Plex and a Jellyfin are.                                *)
(*                                                                         *)
(* The clock counts hours, the grain at which download readings are kept.  *)
(* The timeline is in order of occurred_at.  What Radarr's history holds   *)
(* is in it from when it happens and known from when Sleutharr stores it.  *)
(***************************************************************************)
EXTENDS Rules, TLC, SequencesExt

CONSTANTS
  WaitTime,      \* no_release_days
  MaxHours,      \* hours, downloads and upsets (edits in Radarr, mishaps of a download
  MaxDownloads,  \* and calls that fail): each bounds the model
  MaxUpsets      \* (and changes for the worse in a library or a path mapping)

ASSUME DiagnosisAssumption == {WaitTime, MaxHours, MaxDownloads, MaxUpsets} \subseteq Nat

\* The media servers, in the order of ServiceInstance: they are polled in it, and the
\* first of them is the one the rules look at.
Players == {"plex", "jellyfin"}
Servers == {"radarr", "client"} \cup Players
Stages  == <<"entities", "history", "queues", "downloads", "plex", "jellyfin", "diagnosis">>

VARIABLES
  (* The world *)
  hour,
  library,     \* the film's entry in Radarr: "absent", "off" (not monitored) or "on"
  hunt,        \* how far Radarr got: "unreleased", "unsearched", "searched"
  file,        \* Radarr has imported a file
  job,         \* the latest download
  shelf,       \* the film in each media server: "empty" (nothing is there, not even other
               \* titles), "lacks" it, has it "elsewhere" (no path mapping leads there), "holds"
  hosted,      \* media servers are configured
  asked,       \* what the request manager says: "approved" or "completed"
  keyed,       \* and whether it knows Plex's key of the film (media_server_item_id)
  upsets,
  (* What Sleutharr keeps *)
  row,         \* the request's arr_* fields and media_server_found
  health,      \* the services' rows
  timeline,    \* what a rule may look at: a queue row only while it is blocked
  refs,        \* the download ids in stored history and queue payloads
  barren,      \* the media servers whose client_state says empty_library
  verdict,     \* the diagnosis' code
  (* The poll thread *)
  stage,       \* index in Stages, 0 between cycles
  steady       \* since the cycle began every call succeeded and nothing else happened

worldVars == <<hour, library, hunt, file, job, shelf>>
givenVars == <<hosted, asked, keyed>>
keptVars  == <<row, health, timeline, refs, barren, verdict>>
pollVars  == <<stage, steady>>
vars      == <<worldVars, givenVars, keptVars, pollVars, upsets>>

NoJob == [id |-> 0, at |-> "gone", progress |-> 0, since |-> 0, queue |-> "out"]

\* Where a download is: not in the client, or in it and moving, waiting for its peers,
\* paused or in error.
Places == {"gone", "moving", "still", "paused", "errored"}

\* What Radarr's history records, and what a reading of a download says.
Recorded == {"grabbed", "download_failed", "imported"}
Readings == {"recorded", "complete", "errored", "paused", "trying", "rate"}

\* What is noted of a library: MEDIA_SERVER_AVAILABLE under the dedupe key ":found" or
\* ":path_mismatch", MEDIA_SERVER_MISSING under ":missing".
Sighted == {"found", "path_mismatch"}

Event ==
  [type : Recorded \cup {"import_blocked", "download_progress", "missing"} \cup Sighted,
   id : 0 .. MaxDownloads, source : {"history", "queue", "client"} \cup Players,
   hour : 0 .. MaxHours, known : BOOLEAN, facts : SUBSET Readings, progress : 0 .. Full]

Download ==
  [id : 0 .. MaxDownloads, at : Places, progress : 0 .. Full, since : 0 .. MaxHours,
   queue : {"out", "queued", "blocked"}]

Row ==
  [inArr : BOOLEAN, monitored : {"yes", "no", "unset"}, hasFile : BOOLEAN,
   hunt : {"unreleased", "unsearched", "searched"}, found : {"yes", "no", "unset"}]

Shelves == {"empty", "lacks", "elsewhere", "holds"}

TypeOK ==
  /\ hour \in 0 .. MaxHours
  /\ library \in {"absent", "off", "on"}
  /\ hunt \in {"unreleased", "unsearched", "searched"}
  /\ file \in BOOLEAN
  /\ job \in Download
  /\ shelf \in [Players -> Shelves]
  /\ hosted \in BOOLEAN /\ asked \in {"approved", "completed"} /\ keyed \in BOOLEAN
  /\ upsets \in 0 .. MaxUpsets
  /\ row \in Row
  /\ health \in [Servers -> {"silent", "fine", "failing", "backedOff"}]
  /\ timeline \in Seq(Event)
  /\ refs \subseteq 1 .. job.id /\ barren \subseteq Players /\ verdict \in Codes
  /\ stage \in 0 .. Len(Stages) /\ steady \in BOOLEAN

Record(type, id) ==
  [type |-> type, id |-> id, source |-> "history", hour |-> 0, known |-> FALSE,
   facts |-> {}, progress |-> 0]

\* A request just made.
JustMade ==
  /\ library \in {"absent", "off", "on"}
  /\ hunt \in {"unreleased", "unsearched", "searched"}
  /\ file = FALSE /\ job = NoJob /\ timeline = <<>>
  /\ hosted = FALSE /\ asked = "approved" /\ keyed = FALSE
  /\ shelf = [m \in Players |-> "lacks"]

\* A request whose film has come before Sleutharr looks for the first time.
JustImported ==
  /\ library = "on" /\ hunt = "searched" /\ file = TRUE
  /\ MaxDownloads > 0
  /\ job = [NoJob EXCEPT !.id = 1, !.progress = Full]
  /\ timeline = <<Record("grabbed", 1), Record("imported", 1)>>
  /\ hosted = TRUE /\ asked \in {"approved", "completed"} /\ keyed \in BOOLEAN
  /\ shelf \in [Players -> Shelves]

Init ==
  /\ hour = 0 /\ upsets = 0
  /\ JustMade \/ JustImported
  /\ row = [inArr |-> FALSE, monitored |-> "unset", hasFile |-> FALSE, hunt |-> "unsearched",
            found |-> "unset"]
  /\ health = [s \in Servers |-> "silent"]
  /\ refs = {} /\ barren = {} /\ verdict = Nothing
  /\ stage = 0 /\ steady = FALSE

-----------------------------------------------------------------------------
(* The world                                                               *)

\* Radarr's history has a record more.  Sleutharr does not know it yet.
Happens(type) == timeline' = Append(timeline, Record(type, job'.id))

\* Sleutharr's own variables; a cycle that is under way is no longer steady.
Elsewhere == steady' = FALSE /\ UNCHANGED <<givenVars, row, health, refs, barren, verdict, stage>>

Upset == upsets < MaxUpsets /\ upsets' = upsets + 1

\* Someone adds the film, turns monitoring on or off, or removes the film again.
EditLibrary ==
  /\ Upset
  /\ library' \in {"absent", "off", "on"} \ {library}
  /\ library' = "absent" => job = NoJob
  /\ Elsewhere /\ UNCHANGED <<hour, hunt, file, job, shelf, timeline>>

\* The film comes out; Radarr searches for it.
MoveOn ==
  /\ library # "absent"
  /\ \/ hunt = "unreleased" /\ hunt' = "unsearched"
     \/ hunt = "unsearched" /\ library = "on" /\ hunt' = "searched"
  /\ Elsewhere /\ UNCHANGED <<hour, library, file, job, shelf, timeline, upsets>>

Grab ==
  /\ library = "on" /\ hunt = "searched" /\ ~file
  /\ job.at = "gone" /\ job.id < MaxDownloads
  /\ job' = [id |-> job.id + 1, at |-> "still", progress |-> 0, since |-> hour,
            queue |-> "queued"]
  /\ Happens("grabbed")
  /\ Elsewhere /\ UNCHANGED <<hour, library, hunt, file, shelf, upsets>>

\* Data arrives.
Advance ==
  /\ job.at \in {"still", "moving"} /\ job.progress < Full
  /\ job' = [job EXCEPT !.at = "moving", !.progress = @ + 1, !.since = hour]
  /\ Elsewhere /\ UNCHANGED <<hour, library, hunt, file, shelf, timeline, upsets>>

\* The download stalls, is paused or resumed, or runs into an error.
Mishap ==
  /\ job.at # "gone" /\ Upset
  /\ \E place \in {"still", "paused", "errored"} \ {job.at} : job' = [job EXCEPT !.at = place]
  /\ Elsewhere /\ UNCHANGED <<hour, library, hunt, file, shelf, timeline>>

\* Radarr gives the download up, and has the client remove it.
Fail ==
  /\ job.queue # "out" /\ job.progress < Full
  /\ job' = [job EXCEPT !.at = "gone", !.queue = "out"]
  /\ Happens("download_failed")
  /\ Elsewhere /\ UNCHANGED <<hour, library, hunt, file, shelf, upsets>>

\* Radarr cannot import the finished download and says so in its queue.
Block ==
  /\ job.queue = "queued" /\ job.progress = Full
  /\ job' = [job EXCEPT !.queue = "blocked"]
  /\ Elsewhere /\ UNCHANGED <<hour, library, hunt, file, shelf, timeline, upsets>>

\* Radarr imports it, and removes it from the client or leaves it there to seed.
Import ==
  /\ job.queue # "out" /\ job.progress = Full
  /\ \E place \in {"gone", "moving"} : job' = [job EXCEPT !.at = place, !.queue = "out"]
  /\ file' = TRUE /\ Happens("imported")
  /\ Elsewhere /\ UNCHANGED <<hour, library, hunt, shelf, upsets>>

\* Somebody removes it from the client, and Radarr forgets it.
Drop ==
  /\ job.at # "gone" /\ Upset
  /\ job' = [job EXCEPT !.at = "gone", !.queue = "out"]
  /\ Elsewhere /\ UNCHANGED <<hour, library, hunt, file, shelf, timeline>>

\* A media server's scan finds the film, or other titles.
Scan(m) ==
  /\ hosted /\ file /\ shelf[m] \in {"empty", "lacks"}
  /\ \E s \in {"lacks", "elsewhere", "holds"} \ {shelf[m]} : shelf' = [shelf EXCEPT ![m] = s]
  /\ Elsewhere /\ UNCHANGED <<hour, library, hunt, file, job, timeline, upsets>>

\* The film, or the whole library, goes away; a path mapping is added or deleted.
Reshelve(m) ==
  /\ hosted /\ shelf[m] \in {"elsewhere", "holds"} /\ Upset
  /\ \E s \in Shelves \ {shelf[m]} : shelf' = [shelf EXCEPT ![m] = s]
  /\ Elsewhere /\ UNCHANGED <<hour, library, hunt, file, job, timeline>>

\* An hour passes between two cycles.  Half of it is enough for a service that has not
\* answered since to be no witness any more.
HourPasses ==
  /\ stage = 0 /\ hour < MaxHours
  /\ hour' = hour + 1
  /\ health' = [s \in Servers |-> IF health[s] = "fine" THEN "silent" ELSE health[s]]
  /\ UNCHANGED <<library, hunt, file, job, shelf, givenVars, upsets, row, timeline, refs, barren,
                 verdict, pollVars>>

World ==
  \/ EditLibrary \/ MoveOn \/ Grab \/ Advance \/ Mishap \/ Fail \/ Block \/ Import \/ Drop
  \/ \E m \in Players : Scan(m) \/ Reshelve(m)

-----------------------------------------------------------------------------
(* The timeline                                                            *)

\* record_event with update_existing: the row with this event's dedupe key, if there
\* is one, is rewritten, which moves it to now.
SameKey(e, f) ==
  /\ e.source = f.source /\ e.id = f.id
  /\ e.source = "client" => e.hour = f.hour
  /\ e.source \in Players => e.type = f.type

Without(events, e) ==
  LET old == {i \in DOMAIN events : SameKey(e, events[i])}
  IN  IF old = {} THEN events ELSE RemoveAt(events, CHOOSE i \in old : TRUE)
Refreshed(events, e) == Append(Without(events, e), e)

BlockedRow ==
  [type |-> "import_blocked", id |-> job.id, source |-> "queue", hour |-> 0,
   known |-> TRUE, facts |-> {}, progress |-> 0]

\* What the client's parser makes of the download.
Facts ==
  {"recorded"}
    \cup {f \in {"complete"} : job.progress = Full}
    \cup {f \in {"errored", "paused"} : job.at = f}
    \cup {f \in {"trying"} : job.at \in {"still", "moving"} /\ job.progress < Full}
    \cup {f \in {"rate"} : job.at = "moving" /\ job.progress < Full}

Sample ==
  [type |-> IF job.at = "errored" THEN "download_failed" ELSE "download_progress",
   id |-> job.id, source |-> "client", hour |-> hour, known |-> TRUE,
   facts |-> Facts, progress |-> job.progress]

Sighting(m, type) ==
  [type |-> type, id |-> 0, source |-> m, hour |-> hour, known |-> TRUE, facts |-> {},
   progress |-> 0]

-----------------------------------------------------------------------------
(* The poll cycle                                                          *)

Skips(s) ==
  /\ health[s] = "backedOff" /\ steady' = FALSE
  /\ UNCHANGED <<row, health, timeline, refs, barren, upsets>>

Fails(s) ==
  /\ health[s] # "backedOff" /\ Upset
  /\ health' = [health EXCEPT ![s] = "backedOff"] /\ steady' = FALSE
  /\ UNCHANGED <<row, timeline, refs, barren>>

Succeeds(s) ==
  /\ health[s] # "backedOff"
  /\ health' = [health EXCEPT ![s] = "fine"] /\ UNCHANGED <<steady, upsets>>

NothingToAsk == UNCHANGED <<row, health, timeline, refs, barren, steady, upsets>>

NextStage(n) == stage = n /\ stage' = n + 1 /\ UNCHANGED <<worldVars, givenVars, verdict>>

StartCycle ==
  /\ stage = 0 /\ stage' = 1 /\ steady' = TRUE
  /\ UNCHANGED <<worldVars, givenVars, keptVars, upsets>>

\* As it would be if the link to an entry that is gone were kept.
ReadFoundEntity ==
  row' = IF library = "absent" THEN row
         ELSE [inArr |-> TRUE, monitored |-> IF library = "on" THEN "yes" ELSE "no",
               hasFile |-> file, hunt |-> hunt, found |-> row.found]

ReadEntity ==
  row' = IF library = "absent" THEN [row EXCEPT !.inArr = FALSE]
         ELSE [inArr |-> TRUE, monitored |-> IF library = "on" THEN "yes" ELSE "no",
               hasFile |-> file, hunt |-> hunt, found |-> row.found]

SyncEntities ==
  /\ NextStage(1)
  /\ \/ Skips("radarr") \/ Fails("radarr")
     \/ Succeeds("radarr") /\ ReadEntity /\ UNCHANGED <<timeline, refs, barren>>

ReadHistory ==
  /\ timeline' = [i \in DOMAIN timeline |-> [timeline[i] EXCEPT !.known = TRUE]]
  /\ refs' = refs \cup ({e.id : e \in ToSet(timeline)} \ {0})

SyncHistory ==
  /\ NextStage(2)
  /\ \/ ~row.inArr /\ NothingToAsk
     \/ row.inArr /\ (Skips("radarr") \/ Fails("radarr"))
     \/ row.inArr /\ Succeeds("radarr") /\ ReadHistory /\ UNCHANGED <<row, barren>>

IngestQueueRows ==
  IF ~row.inArr \/ job.queue = "out" THEN UNCHANGED <<timeline, refs>>
  ELSE /\ timeline' = IF job.queue = "blocked" THEN Refreshed(timeline, BlockedRow)
                      ELSE Without(timeline, BlockedRow)
       /\ refs' = refs \cup {job.id}

SyncQueues ==
  /\ NextStage(3)
  /\ \/ Skips("radarr") \/ Fails("radarr")
     \/ Succeeds("radarr") /\ IngestQueueRows /\ UNCHANGED <<row, barren>>

RecordItem ==
  IF job.at # "gone" /\ job.id \in refs THEN timeline' = Refreshed(timeline, Sample)
  ELSE UNCHANGED timeline

SyncDownloads ==
  /\ NextStage(4)
  /\ \/ refs = {} /\ NothingToAsk
     \/ refs # {} /\ (Skips("client") \/ Fails("client"))
     \/ refs # {} /\ Succeeds("client") /\ RecordItem /\ UNCHANGED <<row, refs, barren>>

\* The *arr's word on where the file is, from stored history and from the entity's snapshot.
ImportedPaths ==
  row.hasFile \/ \E i \in DOMAIN timeline : timeline[i].type = "imported" /\ timeline[i].known

\* Whether there is something to look for at all.
Candidate == hosted /\ (keyed \/ ImportedPaths)

\* The film by its id, whatever its path: Plex is asked for the key the request manager
\* knows, Jellyfin's items carry the ids of TMDB.
FoundById(m) == shelf[m] \in {"elsewhere", "holds"} /\ (m = "plex" => keyed)

\* As it would be if a path that resolves left the earlier complaints standing.
CheckRequestOnly(m, index) ==
  LET match == ImportedPaths /\ index = "holds"
  IN  /\ row' = [row EXCEPT !.found = IF match \/ FoundById(m) THEN "yes" ELSE "no"]
      /\ timeline' =
           IF match THEN Refreshed(timeline, Sighting(m, "found"))
           ELSE IF FoundById(m) THEN Refreshed(timeline, Sighting(m, "path_mismatch"))
           ELSE IF ImportedPaths THEN Refreshed(timeline, Sighting(m, "missing"))
           ELSE timeline

\* _check_request, where index is what there is of the film in the paths that were read.  The
\* id under which Jellyfin has it, which is kept where Plex's key is not known, is left out:
\* the next walk over the requests writes it over (core/ingest/requests.py:220).
CheckRequest(m, index) ==
  LET match   == ImportedPaths /\ index = "holds"
      settled == Without(Without(timeline, Sighting(m, "path_mismatch")), Sighting(m, "missing"))
  IN  /\ row' = [row EXCEPT !.found = IF match \/ FoundById(m) THEN "yes" ELSE "no"]
      /\ timeline' =
           IF match THEN Refreshed(settled, Sighting(m, "found"))
           ELSE IF FoundById(m) THEN Refreshed(timeline, Sighting(m, "path_mismatch"))
           ELSE IF ImportedPaths THEN Refreshed(timeline, Sighting(m, "missing"))
           ELSE timeline

RecordLibraryState(m, index) ==
  barren' = IF index = "empty" THEN barren \cup {m} ELSE barren \ {m}

ReadLibrary(m, index) ==
  /\ RecordLibraryState(m, index)
  /\ IF index = "empty" THEN UNCHANGED <<row, timeline>> ELSE CheckRequest(m, index)

\* The library was read, and the film could not be looked up by its key.
BreaksOff(m) ==
  /\ health[m] # "backedOff" /\ shelf[m] # "empty" /\ keyed /\ Upset
  /\ health' = [health EXCEPT ![m] = "backedOff"] /\ steady' = FALSE
  /\ RecordLibraryState(m, shelf[m])
  /\ UNCHANGED <<row, timeline, refs>>

\* Plex does not answer for the section the film is in; what is left may be nothing.
ReadsInPart(m) ==
  /\ m = "plex" /\ health[m] # "backedOff" /\ Upset
  /\ health' = [health EXCEPT ![m] = "fine"] /\ steady' = FALSE
  /\ \E index \in {"empty", "lacks"} :
       /\ shelf[m] = "empty" => index = "empty"
       /\ ReadLibrary(m, index)
  /\ UNCHANGED refs

SyncMediaServer(m) ==
  /\ NextStage(IF m = "plex" THEN 5 ELSE 6)
  /\ \/ ~Candidate /\ NothingToAsk
     \/ Candidate /\ (Skips(m) \/ Fails(m) \/ BreaksOff(m) \/ ReadsInPart(m))
     \/ Candidate /\ Succeeds(m) /\ ReadLibrary(m, shelf[m]) /\ UNCHANGED refs

\* What separates one attempt from another: the downloadId; the time, where the payload
\* carries none, as the client's own does.
AttemptKey(e) == IF e.source = "client" THEN <<e.id, e.hour>> ELSE <<e.id>>

\* What a rule may know of a library's event: its type, and what its dedupe key ends in.
ToldOfLibrary(e) ==
  [type |-> IF e.type \in Sighted THEN "media_server_available" ELSE "media_server_missing",
   key |-> e.type, by |-> e.source, age |-> hour - e.hour, facts |-> {}, progress |-> 0,
   cutoffNotMet |-> FALSE, resolution |-> Unknown]

\* Of any other: of one that is not stored yet, nothing.
ToldOfAttempt(e) ==
  [type |-> IF e.known THEN e.type ELSE Nothing, key |-> AttemptKey(e), by |-> "client",
   age |-> hour - e.hour, facts |-> e.facts, progress |-> e.progress,
   cutoffNotMet |-> FALSE, resolution |-> Unknown]

Told(e) == IF e.source \in Players THEN ToldOfLibrary(e) ELSE ToldOfAttempt(e)

\* The request as the rules see it.
Case ==
  [state |-> asked, available |-> FALSE, found |-> row.found,
   movie |-> TRUE, wanted |-> {}, on |-> {}, off |-> {},
   arr |-> "radarr", media |-> IF hosted THEN "plex" ELSE NoService,
   inArr |-> row.inArr, monitored |-> row.monitored, hasFile |-> row.hasFile, cutoff |-> Unknown,
   unreleased |-> row.hunt = "unreleased", searched |-> row.hunt = "searched",
   waited |-> hour >= WaitTime,
   witnesses |-> {s \in Servers : health[s] = "fine"} \ barren, providerDown |-> {}, paused |-> {},
   events |-> [i \in DOMAIN timeline |-> Told(timeline[i])]]

\* As it would be if the cycle did not end.
DiagnoseOn ==
  /\ stage = 7 /\ stage' = stage + 1
  /\ verdict' = Diagnose(Case)
  /\ UNCHANGED <<worldVars, givenVars, row, health, timeline, refs, barren, steady, upsets>>

DiagnoseAll ==
  /\ stage = 7 /\ stage' = 0
  /\ verdict' = Diagnose(Case)
  /\ UNCHANGED <<worldVars, givenVars, row, health, timeline, refs, barren, steady, upsets>>

\* The stage of the media servers has its list drawn up when the first of them is polled.
BackoffPasses(s) ==
  /\ health[s] = "backedOff" /\ (stage = 6 => s # "jellyfin")
  /\ health' = [health EXCEPT ![s] = "failing"]
  /\ UNCHANGED <<worldVars, givenVars, row, timeline, refs, barren, verdict, pollVars, upsets>>

Cycle ==
  \/ StartCycle \/ SyncEntities \/ SyncHistory \/ SyncQueues \/ SyncDownloads
  \/ (\E m \in Players : SyncMediaServer(m)) \/ DiagnoseAll

Next ==
  \/ World \/ HourPasses
  \/ \E s \in Servers : BackoffPasses(s)
  \/ Cycle

Spec == Init /\ [][Next]_vars

-----------------------------------------------------------------------------
(* Properties                                                              *)

\* What Radarr's history holds, whether Sleutharr knows it or not.
Happened(type) == {timeline[i].id : i \in {j \in DOMAIN timeline :
                     timeline[j].type = type /\ timeline[j].source = "history"}}
Imported == Happened("imported") # {}

\* The libraries that have something in them; one of them has the film, or has not.
Speakers == {m \in Players : shelf[m] # "empty"}
Has(m)   == shelf[m] = "holds" \/ FoundById(m)

(* The cause: what the rules' own words call for as things are in Radarr, its client and  *)
(* the libraries, whatever Sleutharr keeps.                                               *)

UpstreamCause ==
  {v \in {"NEVER_ADDED"} : library = "absent"}
    \cup {v \in {"UNMONITORED"} : library = "off" /\ ~file}
    \cup {v \in {"BLOCKLIST_LOOP"} :
            library = "on" /\ ~file /\ Cardinality(Happened("download_failed")) >= LoopThreshold}

\* Of a film that is not in any library: within the grace time nothing, then that it is missing.
AbsenceCause ==
  {v \in {Nothing} : hour < GraceTime}
    \cup {v \in {"NOT_IN_MEDIA_SERVER"} : hour >= GraceTime /\ Speakers # {}}
    \cup {v \in {"EVIDENCE_UNAVAILABLE"} : Speakers # Players}

\* Of one that is: that no path mapping leads to it, and where one does nothing, or, when it
\* may have been there for long, that the request manager has not noticed.
PresenceCause ==
  LET held == \E m \in Players : shelf[m] = "holds"
  IN  {v \in {"PATH_MISMATCH"} : \E m \in Players : shelf[m] = "elsewhere" /\ FoundById(m)}
        \cup {v \in {Nothing} : held}
        \cup {v \in {"ARRIVED_NOT_REFLECTED"} : held /\ hour >= GraceTime}

ArrivalCause ==
  LET had == \E m \in Players : Has(m)
  IN  IF asked = "completed" /\ (had \/ Speakers = {})
        THEN {"FULFILLED"} \cup {v \in {"EVIDENCE_UNAVAILABLE"} : Speakers = {}}
      ELSE IF had THEN PresenceCause ELSE AbsenceCause

\* Of the search and of the download.  Steps of the size of MinDelta do not count as progress.
DownloadCause ==
  IF file                          THEN {Nothing}
  ELSE IF job.id = 0 /\ hour >= WaitTime
                                   THEN {CASE hunt = "unreleased" -> "NOT_RELEASED_YET"
                                           [] hunt = "unsearched" -> "NEVER_SEARCHED"
                                           [] hunt = "searched"   -> "NO_RELEASE_FOUND"}
  ELSE IF job.at = "gone"          THEN {Nothing}
  ELSE IF job.progress = Full      THEN {"DOWNLOADED_NOT_IMPORTED"}
  ELSE IF job.at = "errored"       THEN {"DOWNLOAD_CLIENT_ERROR"}
  ELSE IF job.at = "paused"        THEN {"GRABBED_BUT_STALLED"}
  ELSE {Nothing}
         \cup {v \in {"GRABBED_BUT_STALLED"} :
                 hour >= StallTime /\ (hour - job.since >= StallTime \/ MinDelta > 0)}
         \cup {v \in {"DOWNLOAD_IN_PROGRESS"} : job.progress > 0}

Cause ==
  IF UpstreamCause # {} THEN UpstreamCause
  ELSE IF hosted THEN ArrivalCause ELSE DownloadCause

(* What the code is known to say instead (README, section 7): wrong verdicts, each where its *)
(* reason is there to be seen.                                                              *)

\* A reading of an error counts as a failed attempt.
CountsAsFailed(e) == e.type = "download_failed" /\ e.source = "client"

\* A complaint that has been settled is taken for a standing one, and a reading of a download
\* that is over for the state of the present one.
Outlived(e) ==
  \/ e.type = "import_blocked" /\ (e.id # job.id \/ job.queue # "blocked")
  \/ e.type = "download_progress" /\ (e.id # job.id \/ job.at = "gone" \/ Imported)

OfADownload == {"DOWNLOADED_NOT_IMPORTED", "GRABBED_BUT_STALLED", "DOWNLOAD_IN_PROGRESS"}

\* And an error is never told: what is said instead goes by the readings before it.
DownloadMistakes ==
  {v \in {"BLOCKLIST_LOOP"} : \E i \in DOMAIN timeline : CountsAsFailed(timeline[i])}
    \cup {v \in OfADownload : \E i \in DOMAIN timeline : Outlived(timeline[i])}
    \cup {v \in OfADownload \cup {Nothing} : job.at = "errored"}

\* A mismatch is remembered after the film has left the server, or all servers were emptied;
\* the flag is what the last server polled, or the last time there was one, made of it.
ArrivalMistakes ==
  {v \in {"PATH_MISMATCH"} : \E i \in DOMAIN timeline :
       timeline[i].type = "path_mismatch" /\ ~Has(timeline[i].source)}
    \cup {v \in {Nothing} : Speakers = {} /\ row.found = "yes"}
    \cup {v \in {"NOT_IN_MEDIA_SERVER", "PATH_MISMATCH", Nothing} :
            /\ Has("plex") /\ "jellyfin" \in Speakers /\ ~Has("jellyfin")
            /\ v = "NOT_IN_MEDIA_SERVER" => hour >= GraceTime
            /\ v = "PATH_MISMATCH" => shelf["plex"] = "elsewhere"
            /\ v = Nothing => hour < GraceTime}

Mistakes ==
  IF UpstreamCause # {} THEN {}
  ELSE IF hosted THEN ArrivalMistakes ELSE DownloadMistakes

\* The diagnosis of a cycle in which every call was answered and nothing moved.
Diagnosed == stage = Len(Stages) /\ stage' = 0
SteadilyDiagnosed == Diagnosed /\ steady

\* A cycle that saw everything names the cause, or makes one of the mistakes it is known for,
\* whatever earlier cycles missed, failed to read or read in another order (the engine's order
\* of rules, the refreshed queue rows, the hourly samples and the libraries' marks have to work
\* together for it).  A cycle of the code without these mistakes has the property too.
NamesTheCause == [][SteadilyDiagnosed => verdict' \in Cause \cup Mistakes]_vars

\* Rules 1 and 2 are exact after such a cycle: the film is said to be missing from Radarr,
\* or not to be monitored, if and only if that is so, unless the request is taken to be
\* fulfilled (TrackedRequest.is_fulfilled).
UpstreamIsExact ==
  [][SteadilyDiagnosed /\ verdict' # "FULFILLED" =>
       /\ verdict' = "NEVER_ADDED" <=> library = "absent"
       /\ verdict' = "UNMONITORED" <=> library = "off" /\ ~file]_vars

\* "A request that completed and later broke still surfaces" (models.py:321): when no
\* library has the film any more, and one of them is there to say so, a completed request
\* is not passed over as fulfilled, whatever the cycles before had found.
BrokenLaterSurfaces ==
  [][SteadilyDiagnosed /\ Candidate /\ Speakers # {} /\ (\A m \in Players : ~Has(m))
       => verdict' # "FULFILLED"]_vars

\* Once a path resolves, no complaint of that media server about the film is left: neither
\* one from before the scan, nor one of a mapping that has been mended since, nor one that
\* goes back to a library read in part (_check_request).
ResolvedIsSettled ==
  [][SteadilyDiagnosed /\ ImportedPaths =>
       \A i \in DOMAIN timeline, m \in Players :
         hosted /\ shelf[m] = "holds" /\ timeline[i].source = m => timeline[i].type = "found"]_vars

\* Rule 4 as it describes itself, "the client says complete, but the *arr never imported
\* it" (r04_downloaded_not_imported.py:1): it is not said of what Radarr did import.
ImportedIsNotDenied ==
  [][SteadilyDiagnosed /\ Imported => verdict' # "DOWNLOADED_NOT_IMPORTED"]_vars
=============================================================================
