---------------------------- MODULE MCPollCycle ----------------------------
(* TLC instances of PollCycle.                                             *)
EXTENDS PollCycle

MCKind == [s \in Services |->
             CASE s = "seerr"  -> "manager"
               [] s = "radarr" -> "arr"
               [] s = "sonarr" -> "arr"
               [] s = "qbit"   -> "downloads"
               [] s = "plex"   -> "media"]
=============================================================================
