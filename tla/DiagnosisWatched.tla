--------------------------- MODULE DiagnosisWatched ---------------------------
(***************************************************************************)
(* Diagnosis as somebody sees it who keeps a note of two things that       *)
(* Sleutharr does not: which questions Radarr has ever answered, and since *)
(* when Plex has been found to hold the film.  The notes follow from what  *)
(* the steps do and take no part in them.                                  *)
(***************************************************************************)
EXTENDS Diagnosis

VARIABLES
  answered,    \* of "entities" and "history", what Radarr has answered
  servedSince  \* the hour in which Plex was first found to hold the film, if it still does

watchedVars == <<vars, answered, servedSince>>

NotServed == MaxHours + 1

WatchInit == Init /\ answered = {} /\ servedSince = NotServed

\* Radarr was asked in one of its stages, and answered.
Answers(n) ==
  /\ stage = n /\ stage' = n + 1 /\ health["radarr"] # "backedOff" /\ health'["radarr"] = "fine"
  /\ n = 2 => row.inArr

NoteAnswers == answered' = answered \cup {Stages[n] : n \in {k \in {1, 2} : Answers(k)}}

\* The stage of Plex has just matched the imported file to what Plex returned.
IsMatched ==
  stage = 5 /\ stage' = 6 /\ timeline' # <<>> /\ Last(timeline') = Sighting("plex", "found")

NoteService ==
  servedSince' = IF shelf'["plex"] # "holds" THEN NotServed
                 ELSE IF servedSince = NotServed /\ IsMatched THEN hour
                 ELSE servedSince

WatchNext == Next /\ NoteAnswers /\ NoteService

WatchSpec == WatchInit /\ [][WatchNext]_watchedVars

-----------------------------------------------------------------------------
(* Properties                                                              *)

\* "An absence is only a finding if something actually looked" (rules/base.py:133): after any
\* cycle, nobody says that Radarr has no entry for the film unless Radarr was ever asked for
\* one, or that it did not import a finished download unless its history was ever read or its
\* queue shows the blocked row (rules 1 and 4).
AbsenceIsLookedFor ==
  [][Diagnosed =>
       /\ verdict' = "NEVER_ADDED" => "entities" \in answered
       /\ /\ verdict' = "DOWNLOADED_NOT_IMPORTED"
          /\ \A i \in DOMAIN timeline : timeline[i].type # "import_blocked"
          => "history" \in answered]_watchedVars

\* A film that every library holds, and that Plex was first found to hold a whole grace time
\* ago, while the request manager goes on calling the request outstanding, is said to have
\* arrived (rule 10: r10_arrived_but_not_reflected.py:15-17, and the test of the live case:
\* "an arrived file produced no verdict at all", test_arrived_not_reflected.py:85).
ArrivalIsReported ==
  [][/\ SteadilyDiagnosed /\ hosted /\ asked = "approved"
     /\ \A m \in Players : shelf[m] = "holds"
     /\ servedSince + GraceTime <= hour
     => verdict' = "ARRIVED_NOT_REFLECTED"]_watchedVars
=============================================================================
