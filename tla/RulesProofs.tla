----------------------------- MODULE RulesProofs -----------------------------
(***************************************************************************)
(* What holds of the rules' verdict on every case, whatever its timeline.  *)
(* The rules speak in turn; and a service that falls silent makes none of  *)
(* them say anything new: the verdict stays, or says that evidence is      *)
(* missing.                                                                *)
(***************************************************************************)
EXTENDS Rules, TLAPS

\* The rule that spoke, and that those upstream of it did not.
SpeaksFor(c, i) ==
  /\ i \in 1 .. 10
  /\ Evaluate(c) = Opinions(c)[i] /\ Evaluate(c) # Nothing
  /\ \A j \in 1 .. i - 1 : Opinions(c)[j] = Nothing

\* Min is the least element of a set of rules.
LEMMA LeastRule ==
  ASSUME NEW S, S \subseteq 1 .. 10, S # {}
  PROVE  Min(S) \in S /\ \A j \in S : Min(S) <= j
<1>1. \E m \in S : \A j \in S : m <= j
    <2> SUFFICES ASSUME \A m \in S : \E j \in S : j < m
                 PROVE  FALSE
        OBVIOUS
    <2>1. 1 \notin S
        OBVIOUS
    <2>2. 2 \notin S
        BY <2>1
    <2>3. 3 \notin S
        BY <2>1, <2>2
    <2>4. 4 \notin S
        BY <2>1, <2>2, <2>3
    <2>5. 5 \notin S
        BY <2>1, <2>2, <2>3, <2>4
    <2>6. 6 \notin S
        BY <2>1, <2>2, <2>3, <2>4, <2>5
    <2>7. 7 \notin S
        BY <2>1, <2>2, <2>3, <2>4, <2>5, <2>6
    <2>8. 8 \notin S
        BY <2>1, <2>2, <2>3, <2>4, <2>5, <2>6, <2>7
    <2>9. 9 \notin S
        BY <2>1, <2>2, <2>3, <2>4, <2>5, <2>6, <2>7, <2>8
    <2>10. 10 \notin S
        BY <2>1, <2>2, <2>3, <2>4, <2>5, <2>6, <2>7, <2>8, <2>9
    <2>11. PICK i \in S : i \in 1 .. 10
        OBVIOUS
    <2>12. i \in {1, 2, 3, 4, 5, 6, 7, 8, 9, 10}
        BY <2>11
    <2> QED
        BY <2>1, <2>2, <2>3, <2>4, <2>5, <2>6, <2>7, <2>8, <2>9, <2>10, <2>12
<1> QED
    BY <1>1 DEF Min

\* There are ten rules, in the order of RULES.
LEMMA OpinionList ==
  ASSUME NEW c
  PROVE  /\ DOMAIN Opinions(c) = 1 .. 10
         /\ Opinions(c)[1] = NeverAdded(c)
         /\ Opinions(c)[2] = Unmonitored(c)
         /\ Opinions(c)[3] = BlocklistLoop(c)
         /\ Opinions(c)[4] = DownloadedNotImported(c)
         /\ Opinions(c)[5] = GrabbedButStalled(c)
         /\ Opinions(c)[6] = NotInMediaServer(c)
         /\ Opinions(c)[7] = WrongQuality(c)
         /\ Opinions(c)[8] = NoReleaseFound(c)
         /\ Opinions(c)[9] = ArrivedButNotReflected(c)
         /\ Opinions(c)[10] = DownloadInProgress(c)
    BY DEF Opinions

\* The engine says nothing only if no rule does, and what it says is the opinion of one
\* rule, with every rule upstream of it silent (engine.py:37-62, the order of RULES).
LEMMA UpstreamFirst ==
  ASSUME NEW c
  PROVE  \/ Evaluate(c) = Nothing /\ \A i \in 1 .. 10 : Opinions(c)[i] = Nothing
         \/ \E i \in 1 .. 10 : SpeaksFor(c, i)
<1> DEFINE said == {i \in DOMAIN Opinions(c) : Opinions(c)[i] # Nothing}
<1>1. said \subseteq 1 .. 10
    BY OpinionList
<1>2. CASE said = {}
    BY <1>2, OpinionList DEF Evaluate
<1>3. CASE said # {}
    <2>1. Min(said) \in said /\ \A j \in said : Min(said) <= j
        BY <1>1, <1>3, LeastRule
    <2>2. Evaluate(c) = Opinions(c)[Min(said)]
        BY <1>3 DEF Evaluate
    <2>3. \A j \in 1 .. Min(said) - 1 : Opinions(c)[j] = Nothing
        BY <1>1, <2>1, OpinionList
    <2>4. SpeaksFor(c, Min(said))
        BY <1>1, <2>1, <2>2, <2>3 DEF SpeaksFor
    <2> QED
        BY <1>1, <2>1, <2>4
<1> QED
    BY <1>2, <1>3

\* What each rule can say at all.
LEMMA Vocabulary ==
  ASSUME NEW c
  PROVE  /\ NeverAdded(c) \in {Nothing, "DECLINED", "NO_ARR_INSTANCE", "EVIDENCE_UNAVAILABLE",
                               "NEVER_ADDED"}
         /\ Unmonitored(c) \in {Nothing, "UNMONITORED", "SEASON_UNMONITORED"}
         /\ BlocklistLoop(c) \in {Nothing, "BLOCKLIST_LOOP"}
         /\ DownloadedNotImported(c) \in {Nothing, "DOWNLOADED_NOT_IMPORTED"}
         /\ GrabbedButStalled(c) \in {Nothing, "EVIDENCE_UNAVAILABLE", "DOWNLOAD_CLIENT_ERROR",
              "DOWNLOADER_PROVIDER_DOWN", "DOWNLOADER_PAUSED", "GRABBED_BUT_STALLED",
              "DOWNLOADER_NOT_PROGRESSING"}
         /\ NotInMediaServer(c) \in {Nothing, "PATH_MISMATCH", "EVIDENCE_UNAVAILABLE",
                                     "NOT_IN_MEDIA_SERVER"}
         /\ WrongQuality(c) \in {Nothing, "WRONG_QUALITY"}
         /\ NoReleaseFound(c) \in {Nothing, "EVIDENCE_UNAVAILABLE", "NOT_RELEASED_YET",
                                   "NEVER_SEARCHED", "NO_RELEASE_FOUND"}
         /\ ArrivedButNotReflected(c) \in {Nothing, "ARRIVED_NOT_REFLECTED"}
         /\ DownloadInProgress(c) \in {Nothing, "DOWNLOAD_IN_PROGRESS"}
<1>1. NeverAdded(c) \in {Nothing, "DECLINED", "NO_ARR_INSTANCE", "EVIDENCE_UNAVAILABLE",
                         "NEVER_ADDED"}
    BY DEF NeverAdded
<1>2. /\ Unmonitored(c) \in {Nothing, "UNMONITORED", "SEASON_UNMONITORED"}
      /\ BlocklistLoop(c) \in {Nothing, "BLOCKLIST_LOOP"}
      /\ DownloadedNotImported(c) \in {Nothing, "DOWNLOADED_NOT_IMPORTED"}
    BY Zenon DEF Unmonitored, BlocklistLoop, DownloadedNotImported
<1>3. GrabbedButStalled(c) \in {Nothing, "EVIDENCE_UNAVAILABLE", "DOWNLOAD_CLIENT_ERROR",
        "DOWNLOADER_PROVIDER_DOWN", "DOWNLOADER_PAUSED", "GRABBED_BUT_STALLED",
        "DOWNLOADER_NOT_PROGRESSING"}
    BY DEF GrabbedButStalled
<1>4. /\ NotInMediaServer(c) \in {Nothing, "PATH_MISMATCH", "EVIDENCE_UNAVAILABLE",
                                  "NOT_IN_MEDIA_SERVER"}
      /\ WrongQuality(c) \in {Nothing, "WRONG_QUALITY"}
    BY DEF NotInMediaServer, WrongQuality
<1>5. NoReleaseFound(c) \in {Nothing, "EVIDENCE_UNAVAILABLE", "NOT_RELEASED_YET",
                             "NEVER_SEARCHED", "NO_RELEASE_FOUND"}
    BY DEF NoReleaseFound
<1>6. /\ ArrivedButNotReflected(c) \in {Nothing, "ARRIVED_NOT_REFLECTED"}
      /\ DownloadInProgress(c) \in {Nothing, "DOWNLOAD_IN_PROGRESS"}
    BY DEF ArrivedButNotReflected, DownloadInProgress
<1> QED
    BY <1>1, <1>2, <1>3, <1>4, <1>5, <1>6

-----------------------------------------------------------------------------

\* The first two rules speak for the row alone: the first decides whenever it speaks, the
\* second whenever the first does not.
LEMMA VerdictsOfRow ==
  ASSUME NEW c, ~Fulfilled(c)
  PROVE  /\ Diagnose(c) = "NEVER_ADDED" <=> NeverAdded(c) = "NEVER_ADDED"
         /\ Diagnose(c) = "UNMONITORED"
              <=> NeverAdded(c) = Nothing /\ Unmonitored(c) = "UNMONITORED"
<1>1. Diagnose(c) = Evaluate(c)
    BY DEF Diagnose
<1>2. NeverAdded(c) # Nothing => Evaluate(c) = NeverAdded(c)
    BY UpstreamFirst, OpinionList DEF SpeaksFor
<1>3. NeverAdded(c) = Nothing /\ Unmonitored(c) # Nothing => Evaluate(c) = Unmonitored(c)
    BY UpstreamFirst, OpinionList DEF SpeaksFor
<1>4. NeverAdded(c) = Nothing /\ Unmonitored(c) = Nothing
        => Evaluate(c) \notin {"NEVER_ADDED", "UNMONITORED"}
    <2> SUFFICES ASSUME NeverAdded(c) = Nothing, Unmonitored(c) = Nothing
                 PROVE  Evaluate(c) \notin {"NEVER_ADDED", "UNMONITORED"}
        OBVIOUS
    <2>1. CASE Evaluate(c) = Nothing
        BY <2>1 DEF Nothing
    <2>2. ASSUME NEW i \in 1 .. 10, SpeaksFor(c, i)
          PROVE  Evaluate(c) \notin {"NEVER_ADDED", "UNMONITORED"}
        <3>1. i \in 3 .. 10 /\ Evaluate(c) = Opinions(c)[i]
            BY <2>2, OpinionList DEF SpeaksFor
        <3>2. CASE i = 3
            <4>1. Evaluate(c) = BlocklistLoop(c)
                BY <3>1, <3>2, OpinionList
            <4> QED
                BY <4>1, Vocabulary DEF Nothing
        <3>3. CASE i = 4
            <4>1. Evaluate(c) = DownloadedNotImported(c)
                BY <3>1, <3>3, OpinionList
            <4> QED
                BY <4>1, Vocabulary DEF Nothing
        <3>4. CASE i = 5
            <4>1. Evaluate(c) = GrabbedButStalled(c)
                BY <3>1, <3>4, OpinionList
            <4> QED
                BY <4>1, Vocabulary DEF Nothing
        <3>5. CASE i = 6
            <4>1. Evaluate(c) = NotInMediaServer(c)
                BY <3>1, <3>5, OpinionList
            <4> QED
                BY <4>1, Vocabulary DEF Nothing
        <3>6. CASE i = 7
            <4>1. Evaluate(c) = WrongQuality(c)
                BY <3>1, <3>6, OpinionList
            <4> QED
                BY <4>1, Vocabulary DEF Nothing
        <3>7. CASE i = 8
            <4>1. Evaluate(c) = NoReleaseFound(c)
                BY <3>1, <3>7, OpinionList
            <4> QED
                BY <4>1, Vocabulary DEF Nothing
        <3>8. CASE i = 9
            <4>1. Evaluate(c) = ArrivedButNotReflected(c)
                BY <3>1, <3>8, OpinionList
            <4> QED
                BY <4>1, Vocabulary DEF Nothing
        <3>9. CASE i = 10
            <4>1. Evaluate(c) = DownloadInProgress(c)
                BY <3>1, <3>9, OpinionList
            <4> QED
                BY <4>1, Vocabulary DEF Nothing
        <3> QED
            BY <3>1, <3>2, <3>3, <3>4, <3>5, <3>6, <3>7, <3>8, <3>9
    <2> QED
        BY <2>1, <2>2, UpstreamFirst
<1> QED
    BY <1>1, <1>2, <1>3, <1>4, Vocabulary DEF Nothing

\* The rules speak in turn.
LEMMA InTurn ==
  ASSUME NEW c
  PROVE  Evaluate(c) =
           IF NeverAdded(c) # Nothing                 THEN NeverAdded(c)
           ELSE IF Unmonitored(c) # Nothing           THEN Unmonitored(c)
           ELSE IF BlocklistLoop(c) # Nothing         THEN BlocklistLoop(c)
           ELSE IF DownloadedNotImported(c) # Nothing THEN DownloadedNotImported(c)
           ELSE IF GrabbedButStalled(c) # Nothing     THEN GrabbedButStalled(c)
           ELSE IF NotInMediaServer(c) # Nothing      THEN NotInMediaServer(c)
           ELSE IF WrongQuality(c) # Nothing          THEN WrongQuality(c)
           ELSE IF NoReleaseFound(c) # Nothing        THEN NoReleaseFound(c)
           ELSE IF ArrivedButNotReflected(c) # Nothing THEN ArrivedButNotReflected(c)
           ELSE DownloadInProgress(c)
<1> DEFINE said(i) == Opinions(c)[i]
<1>1. \/ Evaluate(c) = Nothing /\ \A i \in 1 .. 10 : said(i) = Nothing
      \/ \E i \in 1 .. 10 : said(i) # Nothing /\ Evaluate(c) = said(i)
                              /\ \A j \in 1 .. i - 1 : said(j) = Nothing
    BY UpstreamFirst DEF SpeaksFor
<1> HIDE DEF said
<1> DEFINE word ==
        IF said(1) # Nothing      THEN said(1)
        ELSE IF said(2) # Nothing THEN said(2)
        ELSE IF said(3) # Nothing THEN said(3)
        ELSE IF said(4) # Nothing THEN said(4)
        ELSE IF said(5) # Nothing THEN said(5)
        ELSE IF said(6) # Nothing THEN said(6)
        ELSE IF said(7) # Nothing THEN said(7)
        ELSE IF said(8) # Nothing THEN said(8)
        ELSE IF said(9) # Nothing THEN said(9)
        ELSE said(10)
<1>2. Evaluate(c) = word
    <2>1. CASE Evaluate(c) = Nothing /\ \A i \in 1 .. 10 : said(i) = Nothing
        BY <2>1
    <2>2. ASSUME NEW i \in 1 .. 10, said(i) # Nothing, Evaluate(c) = said(i),
                 \A j \in 1 .. i - 1 : said(j) = Nothing
          PROVE  Evaluate(c) = word
        <3>1. i = 1 \/ i = 2 \/ i = 3 \/ i = 4 \/ i = 5 \/ i = 6 \/ i = 7 \/ i = 8 \/ i = 9 \/ i = 10
            OBVIOUS
        <3>2. /\ i > 1 => said(1) = Nothing
              /\ i > 2 => said(2) = Nothing
              /\ i > 3 => said(3) = Nothing
              /\ i > 4 => said(4) = Nothing
              /\ i > 5 => said(5) = Nothing
              /\ i > 6 => said(6) = Nothing
              /\ i > 7 => said(7) = Nothing
              /\ i > 8 => said(8) = Nothing
              /\ i > 9 => said(9) = Nothing
            BY <2>2
        <3> QED
            BY <2>2, <3>1, <3>2
    <2> QED
        BY <1>1, <2>1, <2>2
<1> QED
    BY <1>2, OpinionList DEF said

-----------------------------------------------------------------------------
(* A service falls silent                                                  *)

\* The case d is c after some services have stopped answering.
FallenSilent(c, d) ==
  /\ d.witnesses \subseteq c.witnesses
  /\ d.state = c.state /\ d.available = c.available /\ d.found = c.found
  /\ d.movie = c.movie /\ d.wanted = c.wanted /\ d.arr = c.arr /\ d.media = c.media
  /\ d.inArr = c.inArr /\ d.monitored = c.monitored /\ d.hasFile = c.hasFile
  /\ d.cutoff = c.cutoff /\ d.on = c.on /\ d.off = c.off
  /\ d.unreleased = c.unreleased /\ d.searched = c.searched /\ d.waited = c.waited
  /\ d.providerDown = c.providerDown /\ d.paused = c.paused /\ d.events = c.events

\* What the rules read of the timeline is the same.
LEMMA SameTimeline ==
  ASSUME NEW c, NEW d, FallenSilent(c, d)
  PROVE  /\ \A types : OfType(d, types) = OfType(c, types)
         /\ \A types : Latest(d, types) = Latest(c, types)
         /\ Imports(d) = Imports(c) /\ Grabs(d) = Grabs(c)
         /\ \A suffix : InLibrary(d, suffix) = InLibrary(c, suffix)
         /\ Baselines(d) = Baselines(c)
<1>1. c.events = d.events
    BY DEF FallenSilent
<1>2. \A types : OfType(d, types) = OfType(c, types)
    BY <1>1 DEF OfType
<1>3. \A types : Latest(d, types) = Latest(c, types)
    BY <1>1, <1>2 DEF Latest
<1>4. Imports(d) = Imports(c) /\ Grabs(d) = Grabs(c)
    BY <1>2 DEF Imports, Grabs
<1>5. \A suffix : InLibrary(d, suffix) = InLibrary(c, suffix)
    BY <1>1, <1>2 DEF InLibrary
<1>6. Baselines(d) = Baselines(c)
    BY <1>1, <1>2 DEF Baselines
<1> QED
    BY <1>2, <1>3, <1>4, <1>5, <1>6

\* Rules 2, 3, 4 and 7 ask no witness.
LEMMA DeafRules ==
  ASSUME NEW c, NEW d, FallenSilent(c, d)
  PROVE  /\ Unmonitored(d) = Unmonitored(c) /\ BlocklistLoop(d) = BlocklistLoop(c)
         /\ DownloadedNotImported(d) = DownloadedNotImported(c)
         /\ WrongQuality(d) = WrongQuality(c)
<1>1. Unmonitored(d) = Unmonitored(c)
    BY DEF FallenSilent, Unmonitored, SeasonsOff
<1>2. BlocklistLoop(d) = BlocklistLoop(c)
    <2>1. \A events : DistinctAttempts(d, events) = DistinctAttempts(c, events)
        BY DEF FallenSilent, DistinctAttempts
    <2> QED
        BY <2>1, SameTimeline DEF BlocklistLoop
<1>3. DownloadedNotImported(d) = DownloadedNotImported(c)
    BY SameTimeline DEF DownloadedNotImported
<1>4. WrongQuality(d) = WrongQuality(c)
    BY SameTimeline DEF FallenSilent, WrongQuality, Poor
<1> QED
    BY <1>1, <1>2, <1>3, <1>4

\* Rules 1, 5, 6 and 8 put in a word for the missing evidence, or say what they said.
LEMMA CautiousRules ==
  ASSUME NEW c, NEW d, FallenSilent(c, d)
  PROVE  /\ NeverAdded(d) \in {NeverAdded(c), "EVIDENCE_UNAVAILABLE"}
         /\ GrabbedButStalled(d) \in {GrabbedButStalled(c), "EVIDENCE_UNAVAILABLE"}
         /\ NotInMediaServer(d) \in {NotInMediaServer(c), "EVIDENCE_UNAVAILABLE"}
         /\ NoReleaseFound(d) \in {NoReleaseFound(c), "EVIDENCE_UNAVAILABLE"}
<1>1. \A s : CanSpeakFor(d, s) => CanSpeakFor(c, s)
    BY DEF FallenSilent, CanSpeakFor
<1>2. NeverAdded(d) \in {NeverAdded(c), "EVIDENCE_UNAVAILABLE"}
    BY <1>1 DEF FallenSilent, NeverAdded
<1>3. GrabbedButStalled(d) \in {GrabbedButStalled(c), "EVIDENCE_UNAVAILABLE"}
    <2>1. /\ d.events = c.events /\ d.providerDown = c.providerDown /\ d.paused = c.paused
          /\ OfType(d, Samples) = OfType(c, Samples) /\ Latest(d, Samples) = Latest(c, Samples)
          /\ Baselines(d) = Baselines(c)
        BY SameTimeline DEF FallenSilent
    <2> QED
        BY <1>1, <2>1 DEF GrabbedButStalled
<1>4. NotInMediaServer(d) \in {NotInMediaServer(c), "EVIDENCE_UNAVAILABLE"}
    <2>1. /\ d.hasFile = c.hasFile /\ d.media = c.media /\ d.found = c.found
          /\ Imports(d) = Imports(c) /\ Latest(d, {"imported"}) = Latest(c, {"imported"})
          /\ InLibrary(d, "path_mismatch") = InLibrary(c, "path_mismatch")
        BY SameTimeline DEF FallenSilent
    <2> QED
        BY <1>1, <2>1 DEF NotInMediaServer
<1>5. NoReleaseFound(d) \in {NoReleaseFound(c), "EVIDENCE_UNAVAILABLE"}
    <2>1. /\ d.hasFile = c.hasFile /\ d.inArr = c.inArr /\ d.arr = c.arr /\ d.movie = c.movie
          /\ d.waited = c.waited /\ d.unreleased = c.unreleased /\ d.searched = c.searched
          /\ Imports(d) = Imports(c) /\ Grabs(d) = Grabs(c)
        BY SameTimeline DEF FallenSilent
    <2> QED
        BY <1>1, <2>1 DEF NoReleaseFound
<1> QED
    BY <1>2, <1>3, <1>4, <1>5

\* Rules 9 and 10 fall silent, the latter with rule 5 speaking up in its stead.
LEMMA ModestRules ==
  ASSUME NEW c, NEW d, FallenSilent(c, d)
  PROVE  /\ ArrivedButNotReflected(d) \in {ArrivedButNotReflected(c), Nothing}
         /\ \/ DownloadInProgress(d) = DownloadInProgress(c)
            \/ DownloadInProgress(d) = Nothing /\ GrabbedButStalled(d) = "EVIDENCE_UNAVAILABLE"
<1>1. \A s : CanSpeakFor(d, s) => CanSpeakFor(c, s)
    BY DEF FallenSilent, CanSpeakFor
<1>2. ArrivedButNotReflected(d) \in {ArrivedButNotReflected(c), Nothing}
    <2>1. /\ d.events = c.events /\ d.media = c.media /\ d.found = c.found
          /\ InLibrary(d, "found") = InLibrary(c, "found")
        BY SameTimeline DEF FallenSilent
    <2> QED
        BY <1>1, <2>1 DEF ArrivedButNotReflected
<1>3. \/ DownloadInProgress(d) = DownloadInProgress(c)
      \/ DownloadInProgress(d) = Nothing /\ GrabbedButStalled(d) = "EVIDENCE_UNAVAILABLE"
    <2>0. OfType(d, Samples) = OfType(c, Samples) /\ Latest(d, Samples) = Latest(c, Samples)
        BY SameTimeline
    <2>1. /\ OfType(d, Samples) = OfType(c, Samples) /\ Latest(d, Samples) = Latest(c, Samples)
          /\ \A reading : Moving(d, reading) = Moving(c, reading)
        <3>1. d.events = c.events
            BY DEF FallenSilent
        <3> QED
            BY <2>0, <3>1, Zenon DEF Moving
    <2>2. CASE OfType(c, Samples) = {}
        BY <2>1, <2>2 DEF DownloadInProgress
    <2>3. CASE OfType(c, Samples) # {} /\ Latest(c, Samples).facts = {}
        BY <2>1, <2>3 DEF DownloadInProgress
    <2>4. CASE /\ OfType(c, Samples) # {} /\ Latest(c, Samples).facts # {}
               /\ ~CanSpeakFor(d, Latest(c, Samples).by)
        BY <2>1, <2>4 DEF DownloadInProgress, GrabbedButStalled
    <2>5. CASE /\ OfType(c, Samples) # {} /\ Latest(c, Samples).facts # {}
               /\ CanSpeakFor(d, Latest(c, Samples).by)
        <3>1. CanSpeakFor(c, Latest(c, Samples).by)
            BY <1>1, <2>5
        <3>2. PICK r : r = Latest(c, Samples)
            OBVIOUS
        <3>3. Latest(d, Samples) = r /\ Moving(d, r) = Moving(c, r)
            BY <2>1, <3>2
        <3> QED
            BY <2>1, <2>5, <3>1, <3>2, <3>3 DEF DownloadInProgress
    <2> QED
        BY <2>2, <2>3, <2>4, <2>5
<1> QED
    BY <1>2, <1>3

\* What a service that is failing does not report is "not evidence -- it is ignorance"
\* (rules/base.py:135), for every case and whichever services fall silent: the verdict stays
\* what it was, or says that evidence is missing, or no longer says ARRIVED_NOT_REFLECTED.
\* No rule further down speaks up because one before it lost its witness, which is what the
\* rules' guards and their order have to see to together.
THEOREM SilenceAccusesNobody ==
  ASSUME NEW c, NEW d, FallenSilent(c, d)
  PROVE  \/ Diagnose(d) \in {Diagnose(c), "EVIDENCE_UNAVAILABLE"}
         \/ Diagnose(c) = "ARRIVED_NOT_REFLECTED" /\ Diagnose(d) \in {Nothing, "DOWNLOAD_IN_PROGRESS"}
<1>1. Fulfilled(d) <=> Fulfilled(c)
    BY DEF FallenSilent, Fulfilled
<1>2. CASE Fulfilled(c)
    BY <1>1, <1>2 DEF Diagnose
<1>3. CASE ~Fulfilled(c)
    <2>1. Diagnose(c) = Evaluate(c) /\ Diagnose(d) = Evaluate(d)
        BY <1>1, <1>3 DEF Diagnose
    <2>2. PICK c1, c5, c6, c8, c9, c10, same2, same3, same4, same7 :
               /\ c1 = NeverAdded(c) /\ c5 = GrabbedButStalled(c) /\ c6 = NotInMediaServer(c)
               /\ c8 = NoReleaseFound(c) /\ c9 = ArrivedButNotReflected(c)
               /\ c10 = DownloadInProgress(c)
               /\ same2 = Unmonitored(c) /\ same3 = BlocklistLoop(c)
               /\ same4 = DownloadedNotImported(c) /\ same7 = WrongQuality(c)
        OBVIOUS
    <2>3. PICK d1, d5, d6, d8, d9, d10 :
               /\ d1 = NeverAdded(d) /\ d5 = GrabbedButStalled(d) /\ d6 = NotInMediaServer(d)
               /\ d8 = NoReleaseFound(d) /\ d9 = ArrivedButNotReflected(d)
               /\ d10 = DownloadInProgress(d)
        OBVIOUS
    <2> DEFINE word(r1, r2, r3, r4, r5, r6, r7, r8, r9, r10) ==
                 IF r1 # Nothing      THEN r1
                 ELSE IF r2 # Nothing THEN r2
                 ELSE IF r3 # Nothing THEN r3
                 ELSE IF r4 # Nothing THEN r4
                 ELSE IF r5 # Nothing THEN r5
                 ELSE IF r6 # Nothing THEN r6
                 ELSE IF r7 # Nothing THEN r7
                 ELSE IF r8 # Nothing THEN r8
                 ELSE IF r9 # Nothing THEN r9
                 ELSE r10
    <2>4. Evaluate(c) = word(c1, same2, same3, same4, c5, c6, same7, c8, c9, c10)
        BY <2>2, InTurn
    <2>5. Evaluate(d) = word(d1, same2, same3, same4, d5, d6, same7, d8, d9, d10)
        BY <2>2, <2>3, InTurn, DeafRules
    <2>6. /\ d1 \in {c1, "EVIDENCE_UNAVAILABLE"} /\ d5 \in {c5, "EVIDENCE_UNAVAILABLE"}
          /\ d6 \in {c6, "EVIDENCE_UNAVAILABLE"} /\ d8 \in {c8, "EVIDENCE_UNAVAILABLE"}
        BY <2>2, <2>3, CautiousRules
    <2>7. /\ d9 \in {c9, Nothing} /\ c9 \in {Nothing, "ARRIVED_NOT_REFLECTED"}
          /\ c10 \in {Nothing, "DOWNLOAD_IN_PROGRESS"}
          /\ d10 = c10 \/ (d10 = Nothing /\ d5 = "EVIDENCE_UNAVAILABLE")
        <3>1. d9 \in {c9, Nothing} /\ (d10 = c10 \/ (d10 = Nothing /\ d5 = "EVIDENCE_UNAVAILABLE"))
            BY <2>2, <2>3, ModestRules
        <3>2. c9 \in {Nothing, "ARRIVED_NOT_REFLECTED"} /\ c10 \in {Nothing, "DOWNLOAD_IN_PROGRESS"}
            BY <2>2, Vocabulary
        <3> QED
            BY <3>1, <3>2
    <2>8. \/ Evaluate(d) \in {Evaluate(c), "EVIDENCE_UNAVAILABLE"}
          \/ /\ Evaluate(c) = "ARRIVED_NOT_REFLECTED"
             /\ Evaluate(d) \in {Nothing, "DOWNLOAD_IN_PROGRESS"}
        BY <2>4, <2>5, <2>6, <2>7 DEF Nothing
    <2> QED
        BY <2>1, <2>8
<1> QED
    BY <1>2, <1>3
=============================================================================
