-------------------------------- MODULE Rules --------------------------------
(***************************************************************************)
(* The diagnosis rules (core/rules): what Sleutharr says of one request.   *)
(* A rule does no I/O.  All it may look at is a case c, the request's row, *)
(* its timeline, the settings and the services' rows:                      *)
(*   state, available, found   request_state, availability = AVAILABLE and *)
(*                             media_server_found ("unset" for null)       *)
(*   movie, wanted             media type and requested_seasons            *)
(*   arr, media                the Sonarr/Radarr it is routed to and the   *)
(*                             first enabled media server, or NoService    *)
(*   inArr, monitored, hasFile, cutoff       the arr_* fields              *)
(*   on, off, unreleased, searched           what arr_snapshot says        *)
(*   waited                    the request is older than no_release_days   *)
(*   witnesses                 the services whose silence means anything   *)
(*   providerDown, paused      the download clients that reported so       *)
(*   events                    the timeline, by occurred_at                *)
(* An event has a type, a key (the download attempt it is about, or the    *)
(* suffix of its dedupe key), the service it is by, its age, the facts of  *)
(* a reading ({} when none were recorded) with its progress, and how an    *)
(* imported file measures up.  Two events never happen at the same time.   *)
(***************************************************************************)
EXTENDS Integers, Sequences, FiniteSets, FiniteSetsExt

CONSTANTS
  LoopThreshold,   \* blocklist_loop_threshold; 3 by default
  StallTime,       \* stall_hours; 6
  MinDelta,        \* stall_min_progress_delta; 0.01
  GraceTime,       \* plex_grace_minutes; 60
  Full             \* the progress of a finished download

ASSUME RulesAssumption ==
  /\ {LoopThreshold, StallTime, GraceTime, Full} \subseteq Nat \ {0}
  /\ MinDelta \in 0 .. Full - 1

Nothing   == ""       \* a rule that declines, and no diagnosis
NoService == "none"
Unknown   == -1       \* a resolution nobody reported

\* What a diagnosis may say.
Codes ==
  {Nothing, "DECLINED", "NO_ARR_INSTANCE", "EVIDENCE_UNAVAILABLE", "NEVER_ADDED", "UNMONITORED",
   "SEASON_UNMONITORED", "BLOCKLIST_LOOP", "DOWNLOADED_NOT_IMPORTED", "DOWNLOAD_CLIENT_ERROR",
   "DOWNLOADER_PROVIDER_DOWN", "DOWNLOADER_PAUSED", "GRABBED_BUT_STALLED",
   "DOWNLOADER_NOT_PROGRESSING", "PATH_MISMATCH", "NOT_IN_MEDIA_SERVER", "WRONG_QUALITY",
   "NOT_RELEASED_YET", "NEVER_SEARCHED", "NO_RELEASE_FOUND", "ARRIVED_NOT_REFLECTED",
   "DOWNLOAD_IN_PROGRESS", "FULFILLED"}

Samples   == {"download_progress"}
Failures  == {"download_failed", "download_ignored"}

-----------------------------------------------------------------------------
(* RuleContext                                                             *)

CanSpeakFor(c, service) == service \in c.witnesses

OfType(c, types) == {i \in DOMAIN c.events : c.events[i].type \in types}
Latest(c, types) == c.events[Max(OfType(c, types))]

Imports(c) == OfType(c, {"imported"})
Grabs(c)   == OfType(c, {"grabbed"})

-----------------------------------------------------------------------------
(* The rules.  Each is the list of its clauses: the first that applies     *)
(* decides, and Nothing is the rule's None.                                *)

NeverAdded(c) ==
  IF c.state = "pending"           THEN Nothing
  ELSE IF c.state = "declined"     THEN "DECLINED"
  ELSE IF c.inArr                  THEN Nothing
  ELSE IF c.arr = NoService        THEN "NO_ARR_INSTANCE"
  ELSE IF ~CanSpeakFor(c, c.arr)   THEN "EVIDENCE_UNAVAILABLE"
  ELSE "NEVER_ADDED"

\* Some requested season is known to be off, and every one that is known is off.
SeasonsOff(c) ==
  LET told == c.wanted \cap (c.on \cup c.off)
  IN  told # {} /\ told \cap c.on = {}

Unmonitored(c) ==
  IF ~c.inArr \/ c.hasFile         THEN Nothing
  ELSE IF c.monitored = "no"       THEN "UNMONITORED"
  ELSE IF SeasonsOff(c)            THEN "SEASON_UNMONITORED"
  ELSE Nothing

\* Download attempts, not history rows: a season pack fails once.
DistinctAttempts(c, events) == Cardinality({c.events[i].key : i \in events})

BlocklistLoop(c) ==
  LET failures == OfType(c, Failures)
  IN  IF DistinctAttempts(c, failures) < LoopThreshold   THEN Nothing
      ELSE IF \E i \in Imports(c) : i > Max(failures)    THEN Nothing
      ELSE "BLOCKLIST_LOOP"

DownloadedNotImported(c) ==
  LET blocked  == OfType(c, {"import_blocked"})
      samples  == OfType(c, Samples)
      complete == samples # {} /\ "complete" \in Latest(c, Samples).facts
  IN  IF blocked = {} /\ ~complete                                THEN Nothing
      ELSE IF \E i \in Imports(c) : i > Max(blocked \cup samples) THEN Nothing
      ELSE "DOWNLOADED_NOT_IMPORTED"

\* Paused, its articles gone, or trying to download from an empty swarm.
CannotFinish(reading) ==
  \/ "paused" \in reading.facts \/ "unhealthy" \in reading.facts
  \/ "usenet" \notin reading.facts /\ {"trying", "noSeeds"} \subseteq reading.facts

\* As it would be if any reading were old enough to be the baseline.
FreshBaselines(c) == {i \in OfType(c, Samples) : c.events[i].facts # {}}

\* The readings a whole stall window old: the last of them is the baseline.
Baselines(c) ==
  {i \in OfType(c, Samples) : c.events[i].age >= StallTime /\ c.events[i].facts # {}}

GrabbedButStalled(c) ==
  IF OfType(c, Samples) = {} THEN Nothing
  ELSE LET latest == Latest(c, Samples)
           client == latest.by
       IN  IF latest.facts = {}                   THEN Nothing
           ELSE IF ~CanSpeakFor(c, client)        THEN "EVIDENCE_UNAVAILABLE"
           ELSE IF "complete" \in latest.facts \/ latest.progress >= Full THEN Nothing
           ELSE IF "errored" \in latest.facts     THEN "DOWNLOAD_CLIENT_ERROR"
           ELSE IF client \in c.providerDown      THEN "DOWNLOADER_PROVIDER_DOWN"
           ELSE IF client \in c.paused /\ "paused" \notin latest.facts THEN "DOWNLOADER_PAUSED"
           ELSE IF CannotFinish(latest)           THEN "GRABBED_BUT_STALLED"
           ELSE IF Baselines(c) = {}              THEN Nothing
           ELSE IF latest.progress - c.events[Max(Baselines(c))].progress > MinDelta THEN Nothing
           ELSE IF "usenet" \in latest.facts      THEN "DOWNLOADER_NOT_PROGRESSING"
           ELSE "GRABBED_BUT_STALLED"

\* MEDIA_SERVER_AVAILABLE events whose dedupe key ends in the suffix.
InLibrary(c, suffix) ==
  {i \in OfType(c, {"media_server_available"}) : c.events[i].key = suffix}

NotInMediaServer(c) ==
  IF Imports(c) = {} /\ ~c.hasFile              THEN Nothing
  ELSE IF c.media = NoService                   THEN Nothing
  ELSE IF InLibrary(c, "path_mismatch") # {}    THEN "PATH_MISMATCH"
  ELSE IF c.found = "yes"                       THEN Nothing
  ELSE IF ~CanSpeakFor(c, c.media)              THEN "EVIDENCE_UNAVAILABLE"
  ELSE IF Imports(c) # {} /\ Latest(c, {"imported"}).age < GraceTime THEN Nothing
  ELSE "NOT_IN_MEDIA_SERVER"

\* Below the cutoff by more than the source: the resolution dropped, or is not known.
Poor(c, import) ==
  /\ import.cutoffNotMet
  /\ ~(Unknown # c.cutoff /\ c.cutoff <= import.resolution)

WrongQuality(c) ==
  IF Imports(c) # {} /\ Poor(c, Latest(c, {"imported"})) THEN "WRONG_QUALITY" ELSE Nothing

NoReleaseFound(c) ==
  IF ~c.inArr \/ Grabs(c) # {} \/ Imports(c) # {} \/ c.hasFile THEN Nothing
  ELSE IF ~c.waited                  THEN Nothing
  ELSE IF ~CanSpeakFor(c, c.arr)     THEN "EVIDENCE_UNAVAILABLE"
  ELSE IF c.movie /\ c.unreleased    THEN "NOT_RELEASED_YET"
  ELSE IF c.movie /\ ~c.searched     THEN "NEVER_SEARCHED"
  ELSE "NO_RELEASE_FOUND"

ArrivedButNotReflected(c) ==
  LET matched == InLibrary(c, "found")
  IN  IF /\ c.found = "yes" /\ matched # {}
         /\ CanSpeakFor(c, c.media)
         /\ c.events[Max(matched)].age >= GraceTime
      THEN "ARRIVED_NOT_REFLECTED" ELSE Nothing

\* The reading shows a rate, or more than the first reading there is did.
Moving(c, latest) ==
  LET earlier == {i \in OfType(c, Samples) \ {Max(OfType(c, Samples))} : c.events[i].facts # {}}
  IN  \/ "rate" \in latest.facts
      \/ earlier # {} /\ latest.progress > c.events[Min(earlier)].progress

DownloadInProgress(c) ==
  IF OfType(c, Samples) = {} THEN Nothing
  ELSE LET latest == Latest(c, Samples)
       IN  IF /\ latest.facts # {} /\ CanSpeakFor(c, latest.by)
              /\ latest.facts \cap {"complete", "errored", "paused", "unhealthy"} = {}
              /\ 0 < latest.progress /\ latest.progress < Full
              /\ Moving(c, latest)
           THEN "DOWNLOAD_IN_PROGRESS" ELSE Nothing

-----------------------------------------------------------------------------
(* The engine: the first rule that says something.                         *)

Opinions(c) ==
  << NeverAdded(c), Unmonitored(c), BlocklistLoop(c), DownloadedNotImported(c),
     GrabbedButStalled(c), NotInMediaServer(c), WrongQuality(c), NoReleaseFound(c),
     ArrivedButNotReflected(c), DownloadInProgress(c) >>

\* As it would be if a completed request were never looked after.
FulfilledOnceCompleted(c) == c.available \/ c.state = "completed"

Fulfilled(c) == c.available \/ (c.state = "completed" /\ c.found # "no")

Evaluate(c) ==
  LET said == {i \in DOMAIN Opinions(c) : Opinions(c)[i] # Nothing}
  IN  IF said = {} THEN Nothing ELSE Opinions(c)[Min(said)]

Diagnose(c) == IF Fulfilled(c) THEN "FULFILLED" ELSE Evaluate(c)
=============================================================================
