--------------------------- MODULE DiagnosisProofs ---------------------------
(***************************************************************************)
(* What a cycle's diagnosis is worth, for every number of hours, downloads *)
(* and upsets and every threshold of the rules.  The argument for rules 1  *)
(* and 2: as long as a cycle is steady, nothing moves after the entity     *)
(* stage has copied Radarr's entry into the request's row (RowIsCurrent),  *)
(* and a steady cycle's service is never backed off.  For what a completed *)
(* request is worth: the last library that has something in it has the     *)
(* last word on media_server_found (FlagIsCurrent).                        *)
(***************************************************************************)
EXTENDS Diagnosis, RulesProofs, SequenceTheorems, WellFoundedInduction

\* Only a download there has been is queued, in the client or in the timeline.
OnlyPast ==
  /\ job.at # "gone" \/ job.queue # "out" => job.id # 0
  /\ \A i \in DOMAIN timeline : timeline[i].id <= job.id

\* In a steady cycle, the request's row says of Radarr's entry what is so.
RowIsCurrent ==
  steady /\ stage >= 2 =>
    /\ health["radarr"] = "fine"
    /\ row.inArr = (library # "absent")
    /\ library # "absent" =>
         row.monitored = (IF library = "on" THEN "yes" ELSE "no") /\ row.hasFile = file

\* In a steady cycle, a film that no library has is not taken to be found.
FlagIsCurrent ==
  steady /\ Candidate =>
    /\ stage = 6 /\ shelf["plex"] # "empty" /\ ~Has("plex") => row.found = "no"
    /\ stage = 7 /\ Speakers # {} /\ (\A m \in Players : ~Has(m)) => row.found = "no"

IInv == TypeOK /\ OnlyPast /\ RowIsCurrent /\ FlagIsCurrent

-----------------------------------------------------------------------------
(* Lemmas about data                                                       *)

\* A non-empty set of positions in a sequence has a greatest one, and Max is that.
LEMMA GreatestPosition ==
  ASSUME NEW n \in Nat, NEW S, S \subseteq 1 .. n, S # {}
  PROVE  Max(S) \in S /\ \A j \in S : j <= Max(S)
<1> DEFINE T == {n - x : x \in S}
<1>1. T \subseteq Nat /\ T # {}
    <2>1. ASSUME NEW x \in S PROVE n - x \in Nat
        BY x \in 1 .. n
    <2> QED
        BY <2>1
<1>2. PICK t \in T : \A y \in T : ~(<<y, t>> \in OpToRel(<, Nat))
    <2> HIDE DEF T
    <2> QED
        BY <1>1, NatLessThanWellFounded, WFMin
<1>3. \A y \in T : t <= y
    <2> SUFFICES ASSUME NEW y \in T PROVE t <= y
        OBVIOUS
    <2>1. y \in Nat /\ t \in Nat
        BY <1>1
    <2>2. ~(<<y, t>> \in {ss \in Nat \X Nat : ss[1] < ss[2]})
        BY <1>2 DEF OpToRel
    <2>3. ~(y < t)
        BY <2>1, <2>2
    <2> QED
        BY <2>1, <2>3
<1>4. PICK m \in S : t = n - m
    BY <1>2
<1>5. \A j \in S : m >= j
    <2> SUFFICES ASSUME NEW j \in S PROVE m >= j
        OBVIOUS
    <2>1. t <= n - j
        BY <1>3
    <2> QED
        BY <1>4, <2>1
<1>6. \E x \in S : \A y \in S : x >= y
    BY <1>5
<1>7. Max(S) \in S /\ \A y \in S : Max(S) >= y
    BY <1>6 DEF Max
<1> QED
    BY <1>7

\* Rewriting an event leaves a sequence of the events there were.
LEMMA WithoutProperties ==
  ASSUME NEW s \in Seq(Event), NEW e
  PROVE  /\ Without(s, e) \in Seq(Event)
         /\ \A j \in DOMAIN Without(s, e) : \E i \in DOMAIN s : Without(s, e)[j] = s[i]
<1> DEFINE old == {i \in DOMAIN s : SameKey(e, s[i])}
<1>1. CASE old = {}
    BY <1>1 DEF Without
<1>2. CASE old # {}
    <2>1. PICK k \in old : k = CHOOSE i \in old : TRUE
        BY <1>2
    <2>2. k \in 1 .. Len(s)
        OBVIOUS
    <2>3. Without(s, e) = SubSeq(s, 1, k - 1) \o SubSeq(s, k + 1, Len(s))
        BY <1>2, <2>1 DEF Without, RemoveAt
    <2> DEFINE a == SubSeq(s, 1, k - 1)
               b == SubSeq(s, k + 1, Len(s))
    <2>4. /\ a \in Seq(Event) /\ Len(a) = k - 1
          /\ \A i \in 1 .. Len(a) : a[i] = s[i]
        BY <2>2
    <2>5. /\ b \in Seq(Event) /\ Len(b) = Len(s) - k
          /\ \A i \in 1 .. Len(b) : b[i] = s[k + i]
        BY <2>2
    <2> HIDE DEF a, b
    <2>6. /\ a \o b \in Seq(Event) /\ DOMAIN (a \o b) = 1 .. Len(a) + Len(b)
          /\ \A i \in 1 .. Len(a) : (a \o b)[i] = a[i]
          /\ \A i \in Len(a) + 1 .. Len(a) + Len(b) : (a \o b)[i] = b[i - Len(a)]
        <3>1. /\ a \o b \in Seq(Event) /\ Len(a \o b) = Len(a) + Len(b)
              /\ \A i \in 1 .. Len(a) + Len(b) :
                   (a \o b)[i] = IF i <= Len(a) THEN a[i] ELSE b[i - Len(a)]
            BY <2>4, <2>5, ConcatProperties
        <3>2. Len(a) \in Nat /\ Len(b) \in Nat /\ DOMAIN (a \o b) = 1 .. Len(a \o b)
            BY <2>4, <2>5, <3>1
        <3> QED
            BY <3>1, <3>2
    <2>7. \A j \in DOMAIN (a \o b) : \E i \in DOMAIN s : (a \o b)[j] = s[i]
        <3> SUFFICES ASSUME NEW j \in 1 .. Len(a) + Len(b)
                     PROVE  \E i \in DOMAIN s : (a \o b)[j] = s[i]
            BY <2>6
        <3>1. CASE j \in 1 .. Len(a)
            BY <2>2, <2>4, <2>6, <3>1
        <3>2. CASE j \in Len(a) + 1 .. Len(a) + Len(b)
            <4>1. (a \o b)[j] = s[k + (j - Len(a))] /\ j - Len(a) \in 1 .. Len(b)
                <5>1. Len(a) \in Nat /\ Len(b) \in Nat /\ k \in Nat
                    BY <2>2, <2>4, <2>5, LenProperties
                <5>2. j - Len(a) \in 1 .. Len(b)
                    BY <3>2, <5>1
                <5>3. (a \o b)[j] = b[j - Len(a)]
                    BY <2>6, <3>2
                <5>4. b[j - Len(a)] = s[k + (j - Len(a))]
                    BY <2>5, <5>2
                <5> QED
                    BY <5>2, <5>3, <5>4
            <4>2. PICK q \in 1 .. Len(b) : q = j - Len(a)
                BY <4>1
            <4>3. Len(s) \in Nat
                OBVIOUS
            <4>4. k + q \in 1 .. Len(s)
                BY <2>2, <2>5, <4>3
            <4> QED
                BY <4>1, <4>2, <4>4
        <3> QED
            BY <2>4, <2>5, <3>1, <3>2
    <2> QED
        BY <2>3, <2>6, <2>7 DEF a, b
<1> QED
    BY <1>1, <1>2

\* So does adding one.
LEMMA AppendedProperties ==
  ASSUME NEW s \in Seq(Event), NEW e \in Event, NEW n \in Nat, e.id <= n,
         \A i \in DOMAIN s : s[i].id <= n
  PROVE  /\ Append(s, e) \in Seq(Event)
         /\ \A i \in DOMAIN Append(s, e) : Append(s, e)[i].id <= n
<1>1. /\ Append(s, e) \in Seq(Event)
      /\ Len(Append(s, e)) = Len(s) + 1
      /\ \A i \in 1 .. Len(s) : Append(s, e)[i] = s[i]
      /\ Append(s, e)[Len(s) + 1] = e
    BY AppendProperties
<1> QED
    BY <1>1

-----------------------------------------------------------------------------
(* The inductive invariant                                                 *)

\* The constants are natural numbers; there are seven stages.
LEMMA Bounds ==
  /\ MaxHours \in Nat /\ MaxDownloads \in Nat /\ MaxUpsets \in Nat
  /\ Full \in Nat /\ Full > 0
  /\ Len(Stages) = 7
BY DiagnosisAssumption, RulesAssumption DEF Stages

\* The invariant holds at the start.
LEMMA InitEstablishes == Init => IInv
<1> SUFFICES ASSUME Init PROVE IInv
    OBVIOUS
<1>1. hour \in 0 .. MaxHours /\ upsets \in 0 .. MaxUpsets /\ stage \in 0 .. Len(Stages)
    BY hour = 0, upsets = 0, stage = 0, Bounds DEF Init
<1>2. /\ row \in Row
      /\ health \in [Servers -> {"silent", "fine", "failing", "backedOff"}]
      /\ verdict = "" /\ steady = FALSE /\ refs = {} /\ barren = {} /\ stage = 0
    BY DEF Init, Row, Nothing
<1>3. verdict \in Codes
    BY <1>2 DEF Codes, Nothing
<1> DEFINE World0 == /\ hunt \in {"unreleased", "unsearched", "searched"}
                     /\ library \in {"absent", "off", "on"} /\ file \in BOOLEAN
                     /\ job \in Download /\ shelf \in [Players -> Shelves]
                     /\ hosted \in BOOLEAN /\ asked \in {"approved", "completed"}
                     /\ keyed \in BOOLEAN
                     /\ job.at = "gone" /\ job.queue = "out"
                     /\ timeline \in Seq(Event)
                     /\ \A i \in DOMAIN timeline : timeline[i].id <= job.id
<1>4. ASSUME JustMade PROVE World0
    <2>1. timeline \in Seq(Event) /\ DOMAIN timeline = {}
        BY <1>4 DEF JustMade
    <2>2. job \in Download /\ job.at = "gone" /\ job.queue = "out"
        BY <1>4, job = NoJob, Bounds DEF JustMade, Download, NoJob, Places
    <2>3. /\ hunt \in {"unreleased", "unsearched", "searched"}
          /\ library \in {"absent", "off", "on"} /\ file \in BOOLEAN
          /\ hosted \in BOOLEAN /\ asked \in {"approved", "completed"} /\ keyed \in BOOLEAN
        BY <1>4, Zenon DEF JustMade
    <2>4. shelf \in [Players -> Shelves]
        BY <1>4 DEF JustMade, Shelves
    <2>5. \A i \in DOMAIN timeline : timeline[i].id <= job.id
        BY <2>1
    <2> QED
        BY <2>1, <2>2, <2>3, <2>4, <2>5, Zenon
<1>5. ASSUME JustImported PROVE World0
    <2>1. MaxDownloads \in Nat /\ MaxDownloads > 0
        BY <1>5, Bounds DEF JustImported
    <2>2. job \in Download /\ job.at = "gone" /\ job.queue = "out" /\ job.id = 1
        <3>1. job = [id |-> 1, at |-> "gone", progress |-> Full, since |-> 0, queue |-> "out"]
            BY <1>5 DEF JustImported, NoJob
        <3> QED
            BY <2>1, <3>1, Bounds DEF Download, Places
    <2>3. \A type \in Recorded : Record(type, 1) \in Event /\ Record(type, 1).id = 1
        BY <2>1, Bounds DEF Record, Event, Recorded
    <2>4. timeline = <<Record("grabbed", 1), Record("imported", 1)>>
        BY <1>5 DEF JustImported
    <2>5. timeline \in Seq(Event) /\ \A i \in DOMAIN timeline : timeline[i].id = 1
        <3>1. "grabbed" \in Recorded /\ "imported" \in Recorded
            BY DEF Recorded
        <3> QED
            BY <2>3, <2>4, <3>1
    <2>6. /\ hunt \in {"unreleased", "unsearched", "searched"}
          /\ library \in {"absent", "off", "on"} /\ file \in BOOLEAN
          /\ hosted \in BOOLEAN /\ asked \in {"approved", "completed"} /\ keyed \in BOOLEAN
          /\ shelf \in [Players -> Shelves]
        BY <1>5, Zenon DEF JustImported
    <2>7. \A i \in DOMAIN timeline : timeline[i].id <= job.id
        BY <2>2, <2>5
    <2> QED
        BY <2>2, <2>5, <2>6, <2>7, Zenon
<1>6. World0
    BY <1>4, <1>5, Zenon DEF Init
<1>7. refs \subseteq 1 .. job.id /\ barren \subseteq Players /\ steady \in BOOLEAN
    BY <1>2
<1>8. TypeOK
    BY <1>1, <1>2, <1>3, <1>6, <1>7, Zenon DEF TypeOK
<1>9. OnlyPast
    BY <1>6 DEF OnlyPast
<1>10. RowIsCurrent /\ FlagIsCurrent
    BY <1>2, Zenon DEF RowIsCurrent, FlagIsCurrent
<1> QED
    BY <1>8, <1>9, <1>10 DEF IInv

\* What one stage does to the rows of the services and to the budget.
LEMMA CallTypes ==
  ASSUME TypeOK, NEW s \in Servers, Skips(s) \/ Fails(s) \/ Succeeds(s)
  PROVE  /\ health' \in [Servers -> {"silent", "fine", "failing", "backedOff"}]
         /\ upsets' \in 0 .. MaxUpsets
         /\ steady' \in BOOLEAN
<1> USE DEF TypeOK
<1>1. CASE Skips(s)
    BY <1>1 DEF Skips
<1>2. CASE Fails(s)
    <2>1. /\ health' \in [Servers -> {"silent", "fine", "failing", "backedOff"}]
          /\ steady' \in BOOLEAN
        BY <1>2, Zenon DEF Fails
    <2>2. upsets' \in 0 .. MaxUpsets
        BY <1>2, Bounds DEF Fails, Upset
    <2> QED
        BY <2>1, <2>2
<1>3. CASE Succeeds(s)
    BY <1>3 DEF Succeeds
<1> QED
    BY <1>1, <1>2, <1>3

\* A record of Radarr's history is an event of the download it is about.
LEMMA HappensProperties ==
  ASSUME TypeOK, OnlyPast, NEW type \in Recorded, Happens(type),
         job'.id \in 1 .. MaxDownloads, job.id <= job'.id
  PROVE  /\ timeline' \in Seq(Event)
         /\ \A i \in DOMAIN timeline' : timeline'[i].id <= job'.id
<1>1. Record(type, job'.id) \in Event /\ Record(type, job'.id).id = job'.id
    BY Bounds DEF Record, Event, Recorded
<1>2. timeline \in Seq(Event) /\ job.id \in Nat /\ job'.id \in Nat
    BY Bounds DEF TypeOK, Download
<1>3. \A i \in DOMAIN timeline : timeline[i] \in Event /\ timeline[i].id <= job'.id
    <2> SUFFICES ASSUME NEW i \in DOMAIN timeline
                 PROVE  timeline[i] \in Event /\ timeline[i].id <= job'.id
        OBVIOUS
    <2>1. timeline[i] \in Event
        BY <1>2
    <2>2. timeline[i].id \in Nat
        BY <2>1 DEF Event
    <2> QED
        BY <1>2, <2>1, <2>2 DEF OnlyPast
<1> QED
    BY <1>1, <1>2, <1>3, AppendedProperties DEF Happens

\* Rewriting an event keeps the timeline to the downloads there have been.
LEMMA RewriteProperties ==
  ASSUME NEW s \in Seq(Event), NEW n \in Nat, \A i \in DOMAIN s : s[i].id <= n,
         NEW e \in Event, e.id <= n
  PROVE  /\ Without(s, e) \in Seq(Event)
         /\ \A i \in DOMAIN Without(s, e) : Without(s, e)[i].id <= n
         /\ Refreshed(s, e) \in Seq(Event)
         /\ \A i \in DOMAIN Refreshed(s, e) : Refreshed(s, e)[i].id <= n
<1>1. /\ Without(s, e) \in Seq(Event)
      /\ \A j \in DOMAIN Without(s, e) : \E i \in DOMAIN s : Without(s, e)[j] = s[i]
    BY WithoutProperties
<1>2. \A j \in DOMAIN Without(s, e) : Without(s, e)[j].id <= n
    BY <1>1
<1> QED
    BY <1>1, <1>2, AppendedProperties DEF Refreshed

\* What a media server's library adds to the timeline and to the row.
LEMMA LibraryProperties ==
  ASSUME TypeOK, OnlyPast, NEW m \in Players, NEW index, ReadLibrary(m, index)
  PROVE  /\ row' \in Row /\ barren' \subseteq Players
         /\ timeline' \in Seq(Event)
         /\ \A i \in DOMAIN timeline' : timeline'[i].id <= job.id
         /\ UNCHANGED <<row.inArr, row.monitored, row.hasFile>>
<1>0. /\ timeline \in Seq(Event) /\ job.id \in Nat /\ row \in Row /\ barren \subseteq Players
      /\ \A i \in DOMAIN timeline : timeline[i].id <= job.id
    BY Bounds DEF TypeOK, OnlyPast, Download
<1>1. barren' \subseteq Players
    BY <1>0 DEF ReadLibrary, RecordLibraryState
<1>2. CASE UNCHANGED <<row, timeline>>
    BY <1>0, <1>1, <1>2
<1>3. CASE CheckRequest(m, index)
    <2> DEFINE found    == Sighting(m, "found")
               mismatch == Sighting(m, "path_mismatch")
               missing  == Sighting(m, "missing")
    <2>1. /\ {found, mismatch, missing} \subseteq Event
          /\ found.id <= job.id /\ mismatch.id <= job.id /\ missing.id <= job.id
        BY <1>0, Bounds DEF Sighting, Event, TypeOK, Sighted, Players
    <2> HIDE DEF found, mismatch, missing
    <2> DEFINE once    == Without(timeline, mismatch)
               settled == Without(once, missing)
    <2>2. once \in Seq(Event) /\ \A i \in DOMAIN once : once[i].id <= job.id
        BY <1>0, <2>1, RewriteProperties
    <2> HIDE DEF once
    <2>3. settled \in Seq(Event) /\ \A i \in DOMAIN settled : settled[i].id <= job.id
        <3>1. missing \in Event /\ missing.id <= job.id
            BY <2>1
        <3> QED
            BY <1>0, <2>2, <3>1, RewriteProperties
    <2> HIDE DEF settled
    <2>4. \/ timeline' = Refreshed(settled, found)
          \/ timeline' \in {Refreshed(timeline, mismatch), Refreshed(timeline, missing)}
          \/ timeline' = timeline
        BY <1>3, Zenon DEF CheckRequest, found, mismatch, missing, settled, once
    <2>5. row' = [row EXCEPT !.found = "yes"] \/ row' = [row EXCEPT !.found = "no"]
        BY <1>3 DEF CheckRequest
    <2>6. row' \in Row /\ UNCHANGED <<row.inArr, row.monitored, row.hasFile>>
        BY <1>0, <2>5 DEF Row
    <2>7. ASSUME NEW t \in Seq(Event), \A i \in DOMAIN t : t[i].id <= job.id,
                 NEW e \in {found, mismatch, missing}, timeline' = Refreshed(t, e)
          PROVE  timeline' \in Seq(Event) /\ \A i \in DOMAIN timeline' : timeline'[i].id <= job.id
        <3>1. e \in Event /\ e.id <= job.id
            BY <2>1, <2>7
        <3> QED
            BY <1>0, <2>7, <3>1, RewriteProperties
    <2>8. timeline' \in Seq(Event) /\ \A i \in DOMAIN timeline' : timeline'[i].id <= job.id
        <3>1. CASE timeline' = Refreshed(settled, found)
            BY <2>3, <2>7, <3>1
        <3>2. CASE timeline' \in {Refreshed(timeline, mismatch), Refreshed(timeline, missing)}
            BY <1>0, <2>7, <3>2
        <3>3. CASE timeline' = timeline
            BY <1>0, <3>3
        <3> QED
            BY <2>4, <3>1, <3>2, <3>3
    <2> QED
        BY <1>1, <2>6, <2>8
<1> QED
    BY <1>2, <1>3 DEF ReadLibrary

-----------------------------------------------------------------------------
(* Every step keeps the types                                              *)

\* Another place and another state in Radarr's queue make another download of the same id.
LEMMA JobMoves ==
  ASSUME TypeOK
  PROVE  /\ job.id \in 0 .. MaxDownloads
         /\ \A p \in Places, q \in {"out", "queued", "blocked"} :
              LET moved == [job EXCEPT !.at = p, !.queue = q]
              IN  moved \in Download /\ moved.id = job.id
         /\ \A p \in Places :
              LET moved == [job EXCEPT !.at = p]
              IN  moved \in Download /\ moved.id = job.id
BY DEF TypeOK, Download

\* What happens in the world.
LEMMA WorldTypes ==
  ASSUME TypeOK, OnlyPast, World
  PROVE  TypeOK' /\ OnlyPast'
<1> USE Bounds
<1> DEFINE Goal == /\ library' \in {"absent", "off", "on"}
                   /\ hunt' \in {"unreleased", "unsearched", "searched"}
                   /\ file' \in BOOLEAN
                   /\ hour' = hour /\ shelf' \in [Players -> Shelves]
                   /\ job' \in Download /\ job.id <= job'.id
                   /\ job'.at # "gone" \/ job'.queue # "out" => job'.id # 0
                   /\ upsets' \in 0 .. MaxUpsets
                   /\ timeline' \in Seq(Event)
                   /\ \A i \in DOMAIN timeline' : timeline'[i].id <= job'.id
<1>0. TypeOK /\ OnlyPast /\ timeline \in Seq(Event)
    BY DEF TypeOK
<1>1. Goal /\ Elsewhere
    <2>1. CASE EditLibrary
        BY <1>0, <2>1 DEF EditLibrary, Upset, TypeOK, OnlyPast, Download
    <2>2. CASE MoveOn
        BY <1>0, <2>2 DEF MoveOn, TypeOK, OnlyPast, Download
    <2>3. CASE Grab
        <3>1. /\ job' \in Download /\ job.id <= job'.id /\ job'.id \in 1 .. MaxDownloads
            BY <1>0, <2>3 DEF Grab, TypeOK, Download, Places
        <3>2. /\ timeline' \in Seq(Event)
              /\ \A i \in DOMAIN timeline' : timeline'[i].id <= job'.id
            BY <2>3, <3>1, HappensProperties DEF Grab, Recorded
        <3> QED
            BY <1>0, <2>3, <3>1, <3>2 DEF Grab, TypeOK
    <2>4. CASE Advance
        <3>1. job.progress + 1 \in 0 .. Full /\ hour \in 0 .. MaxHours /\ "moving" \in Places
            BY <2>4 DEF Advance, TypeOK, Download, Places
        <3>2. job' \in Download /\ job'.id = job.id /\ job.id # 0
            BY <1>0, <2>4, <3>1 DEF Advance, TypeOK, Download, OnlyPast
        <3> QED
            BY <1>0, <2>4, <3>2 DEF Advance, TypeOK, OnlyPast, Download
    <2>5. CASE Mishap
        <3>1. job' \in Download /\ job'.id = job.id /\ job.id # 0
            BY <1>0, <2>5, JobMoves DEF Mishap, OnlyPast, Places
        <3> QED
            BY <1>0, <2>5, <3>1 DEF Mishap, Upset, TypeOK, OnlyPast, Download
    <2>6. CASE Fail
        <3>1. /\ job' \in Download /\ job.id = job'.id /\ job'.id \in 1 .. MaxDownloads
            BY <1>0, <2>6, JobMoves DEF Fail, OnlyPast, Places
        <3>2. /\ timeline' \in Seq(Event)
              /\ \A i \in DOMAIN timeline' : timeline'[i].id <= job'.id
            BY <2>6, <3>1, HappensProperties DEF Fail, Recorded
        <3> QED
            BY <1>0, <2>6, <3>1, <3>2 DEF Fail, TypeOK
    <2>7. CASE Block
        <3>1. job' \in Download /\ job'.id = job.id /\ job.id # 0
            BY <1>0, <2>7 DEF Block, TypeOK, OnlyPast, Download
        <3>2. job.id <= job'.id /\ (job'.at # "gone" \/ job'.queue # "out" => job'.id # 0)
            <4>1. job.id \in Nat
                BY <1>0 DEF TypeOK, Download
            <4> QED
                BY <3>1, <4>1
        <3>3. /\ timeline' \in Seq(Event)
              /\ \A i \in DOMAIN timeline' : timeline'[i].id <= job'.id
            <4>1. timeline' = timeline
                BY <2>7 DEF Block
            <4> QED
                BY <1>0, <3>1, <4>1 DEF OnlyPast
        <3>4. UNCHANGED <<hour, library, hunt, file, shelf, upsets>> /\ Elsewhere
            BY <2>7 DEF Block
        <3> QED
            BY <1>0, <3>1, <3>2, <3>3, <3>4 DEF TypeOK
    <2>8. CASE Import
        <3>1. /\ job' \in Download /\ job.id = job'.id /\ job'.id \in 1 .. MaxDownloads
            <4>1. PICK p \in {"gone", "moving"} : job' = [job EXCEPT !.at = p, !.queue = "out"]
                BY <2>8, Zenon DEF Import
            <4>2. job.id # 0
                BY <2>8 DEF Import, OnlyPast
            <4>3. p \in Places
                BY DEF Places
            <4>4. job' \in Download /\ job'.id = job.id /\ job.id \in 0 .. MaxDownloads
                BY <4>1, <4>3, JobMoves
            <4> QED
                BY <4>2, <4>4
        <3>2. /\ timeline' \in Seq(Event)
              /\ \A i \in DOMAIN timeline' : timeline'[i].id <= job'.id
            BY <2>8, <3>1, HappensProperties DEF Import, Recorded
        <3> QED
            BY <1>0, <2>8, <3>1, <3>2 DEF Import, TypeOK
    <2>9. CASE Drop
        <3>1. job' \in Download /\ job'.id = job.id /\ job.id # 0
            BY <1>0, <2>9, JobMoves DEF Drop, OnlyPast, Places
        <3> QED
            BY <1>0, <2>9, <3>1 DEF Drop, Upset, TypeOK, OnlyPast, Download
    <2>10. ASSUME NEW m \in Players, Scan(m) \/ Reshelve(m)
           PROVE  Goal /\ Elsewhere
        <3>1. shelf' \in [Players -> Shelves]
            BY <1>0, <2>10 DEF Scan, Reshelve, TypeOK, Shelves
        <3>2. upsets' \in 0 .. MaxUpsets
            BY <1>0, <2>10 DEF Scan, Reshelve, Upset, TypeOK
        <3> QED
            BY <1>0, <2>10, <3>1, <3>2 DEF Scan, Reshelve, TypeOK, OnlyPast, Download
    <2> QED
        BY <2>1, <2>2, <2>3, <2>4, <2>5, <2>6, <2>7, <2>8, <2>9, <2>10 DEF World
<1>2. refs' \subseteq 1 .. job'.id
    BY <1>0, <1>1 DEF Elsewhere, TypeOK, Download
<1>3. /\ row' \in Row /\ verdict' \in Codes /\ stage' \in 0 .. Len(Stages) /\ steady' \in BOOLEAN
      /\ health' \in [Servers -> {"silent", "fine", "failing", "backedOff"}]
      /\ barren' \subseteq Players
      /\ hosted' \in BOOLEAN /\ asked' \in {"approved", "completed"} /\ keyed' \in BOOLEAN
    BY <1>0, <1>1, Zenon DEF Elsewhere, TypeOK, givenVars
<1>4. hour' \in 0 .. MaxHours
    BY <1>0, <1>1 DEF TypeOK
<1>5. TypeOK'
    BY <1>1, <1>2, <1>3, <1>4, Zenon DEF TypeOK, Event, Download, Row, Shelves
<1>6. OnlyPast'
    BY <1>1 DEF OnlyPast
<1> QED
    BY <1>5, <1>6

\* An hour passes, or a backoff.
LEMMA ClockTypes ==
  ASSUME TypeOK, OnlyPast, HourPasses \/ \E s \in Servers : BackoffPasses(s)
  PROVE  TypeOK' /\ OnlyPast'
<1>1. CASE HourPasses
    <2>1. hour' \in 0 .. MaxHours
        BY <1>1, Bounds DEF HourPasses, TypeOK
    <2>2. health' \in [Servers -> {"silent", "fine", "failing", "backedOff"}]
        BY <1>1 DEF HourPasses, TypeOK
    <2>3. TypeOK'
        <3>1. UNCHANGED <<library, hunt, file, job, shelf, hosted, asked, keyed, upsets, row, timeline,
                          refs, barren, verdict, stage, steady>>
            BY <1>1 DEF HourPasses, pollVars, givenVars
        <3> QED
            BY <2>1, <2>2, <3>1, Zenon DEF TypeOK
    <2> QED
        BY <1>1, <2>3 DEF HourPasses, OnlyPast
<1>2. ASSUME NEW s \in Servers, BackoffPasses(s)
      PROVE  TypeOK' /\ OnlyPast'
    <2>1. health' \in [Servers -> {"silent", "fine", "failing", "backedOff"}]
        BY <1>2 DEF BackoffPasses, TypeOK
    <2>2. TypeOK'
        <3>1. UNCHANGED <<hour, library, hunt, file, job, shelf, hosted, asked, keyed, upsets, row,
                          timeline, refs, barren, verdict, stage, steady>>
            BY <1>2 DEF BackoffPasses, worldVars, givenVars, pollVars
        <3> QED
            BY <2>1, <3>1, Zenon DEF TypeOK
    <2> QED
        BY <1>2, <2>2 DEF BackoffPasses, OnlyPast, worldVars
<1> QED
    BY <1>1, <1>2

\* The diagnosis is one of the codes.
LEMMA DiagnoseType == ASSUME NEW c PROVE Diagnose(c) \in Codes
<1>1. \/ Diagnose(c) \in {Nothing, "FULFILLED"}
      \/ \E i \in 1 .. 10 : Diagnose(c) = Opinions(c)[i]
    BY UpstreamFirst DEF Diagnose, SpeaksFor
<1>2. CASE Diagnose(c) \in {Nothing, "FULFILLED"}
    BY <1>2 DEF Codes
<1>3. ASSUME NEW i \in 1 .. 10, Diagnose(c) = Opinions(c)[i]
      PROVE  Diagnose(c) \in Codes
    <2>1. /\ NeverAdded(c) \in Codes /\ Unmonitored(c) \in Codes /\ BlocklistLoop(c) \in Codes
          /\ DownloadedNotImported(c) \in Codes /\ GrabbedButStalled(c) \in Codes
        BY Vocabulary, Zenon DEF Codes
    <2>2. /\ NotInMediaServer(c) \in Codes /\ WrongQuality(c) \in Codes
          /\ NoReleaseFound(c) \in Codes /\ ArrivedButNotReflected(c) \in Codes
          /\ DownloadInProgress(c) \in Codes
        BY Vocabulary, Zenon DEF Codes
    <2>3. i \in {1, 2, 3, 4, 5, 6, 7, 8, 9, 10}
        OBVIOUS
    <2> QED
        BY <1>3, <2>1, <2>2, <2>3, OpinionList
<1> QED
    BY <1>1, <1>2, <1>3

\* The stages of a cycle.
LEMMA CycleTypes ==
  ASSUME TypeOK, OnlyPast, Cycle
  PROVE  TypeOK' /\ OnlyPast'
<1> DEFINE Kept == /\ row' \in Row
                   /\ timeline' \in Seq(Event)
                   /\ \A i \in DOMAIN timeline' : timeline'[i].id <= job.id
                   /\ refs' \subseteq 1 .. job.id /\ barren' \subseteq Players
                   /\ health' \in [Servers -> {"silent", "fine", "failing", "backedOff"}]
                   /\ upsets' \in 0 .. MaxUpsets /\ steady' \in BOOLEAN
<1>0. /\ row \in Row /\ timeline \in Seq(Event) /\ refs \subseteq 1 .. job.id
      /\ barren \subseteq Players
      /\ \A i \in DOMAIN timeline : timeline[i].id <= job.id
      /\ job.id \in 0 .. MaxDownloads
    BY DEF TypeOK, OnlyPast, Download
<1>1. ASSUME UNCHANGED <<worldVars, givenVars>>, Kept, verdict' \in Codes, stage' \in 0 .. Len(Stages)
      PROVE  TypeOK' /\ OnlyPast'
    <2>1. TypeOK'
        BY <1>1, Zenon DEF TypeOK, worldVars, givenVars, Event, Download, Row, Shelves
    <2> QED
        BY <1>1, <2>1 DEF OnlyPast, worldVars
<1>2. ASSUME NEW n \in 1 .. 6, NextStage(n)
      PROVE  /\ UNCHANGED <<worldVars, givenVars>>
             /\ verdict' \in Codes /\ stage' \in 0 .. Len(Stages)
    BY <1>2, Bounds DEF NextStage, TypeOK
<1>3. CASE StartCycle
    <2>1. Kept /\ stage' = 1
        BY <1>0, <1>3, Zenon DEF StartCycle, keptVars, TypeOK
    <2> QED
        BY <1>1, <1>3, <2>1, Bounds DEF StartCycle, keptVars, TypeOK
<1>4. CASE SyncEntities
    <2>1. CASE Skips("radarr") \/ Fails("radarr")
        <3>1. Kept
            BY <1>0, <2>1, CallTypes, "radarr" \in Servers, Zenon DEF Skips, Fails, Servers
        <3> QED
            BY <1>1, <1>2, <1>4, <3>1 DEF SyncEntities
    <2>2. CASE Succeeds("radarr") /\ ReadEntity /\ UNCHANGED <<timeline, refs, barren>>
        <3>1. row' \in Row
            BY <1>0, <2>2 DEF ReadEntity, TypeOK, Row
        <3>2. Kept
            BY <1>0, <2>2, <3>1, CallTypes, "radarr" \in Servers, Zenon DEF Servers
        <3> QED
            BY <1>1, <1>2, <1>4, <3>2 DEF SyncEntities
    <2> QED
        BY <1>4, <2>1, <2>2 DEF SyncEntities
<1>5. CASE SyncHistory
    <2>1. CASE NothingToAsk
        <3>1. Kept
            BY <1>0, <2>1, Zenon DEF NothingToAsk, TypeOK
        <3> QED
            BY <1>1, <1>2, <1>5, <3>1 DEF SyncHistory
    <2>2. CASE Skips("radarr") \/ Fails("radarr")
        <3>1. Kept
            BY <1>0, <2>2, CallTypes, "radarr" \in Servers, Zenon DEF Skips, Fails, Servers
        <3> QED
            BY <1>1, <1>2, <1>5, <3>1 DEF SyncHistory
    <2>3. CASE Succeeds("radarr") /\ ReadHistory /\ UNCHANGED <<row, barren>>
        <3>1. /\ timeline' \in Seq(Event) /\ DOMAIN timeline' = DOMAIN timeline
              /\ \A i \in DOMAIN timeline' : timeline'[i].id = timeline[i].id
            <4>1. ASSUME NEW i \in DOMAIN timeline
                  PROVE  /\ [timeline[i] EXCEPT !.known = TRUE] \in Event
                         /\ [timeline[i] EXCEPT !.known = TRUE].id = timeline[i].id
                <5>1. timeline[i] \in Event
                    BY <1>0
                <5> QED
                    BY <5>1 DEF Event
            <4>2. timeline' = [i \in 1 .. Len(timeline) |-> [timeline[i] EXCEPT !.known = TRUE]]
                BY <1>0, <2>3 DEF ReadHistory
            <4>3. timeline' \in Seq(Event)
                BY <1>0, <4>1, <4>2
            <4>4. DOMAIN timeline' = DOMAIN timeline
                BY <1>0, <4>2
            <4>5. \A i \in DOMAIN timeline : timeline'[i] = [timeline[i] EXCEPT !.known = TRUE]
                BY <4>2, <4>4
            <4> QED
                BY <4>1, <4>3, <4>4, <4>5
        <3>2. refs' \subseteq 1 .. job.id
            <4>1. \A i \in DOMAIN timeline : timeline[i].id \in 0 .. job.id
                <5> SUFFICES ASSUME NEW i \in DOMAIN timeline
                             PROVE  timeline[i].id \in 0 .. job.id
                    OBVIOUS
                <5>0. timeline[i] \in Event
                    BY <1>0
                <5>1. timeline[i].id \in 0 .. MaxDownloads
                    BY <5>0 DEF Event
                <5> QED
                    BY <1>0, <5>1, Bounds
            <4>2. \A k \in {timeline[i].id : i \in DOMAIN timeline} : k # 0 => k \in 1 .. job.id
                BY <1>0, <4>1, Bounds
            <4>3. {e.id : e \in ToSet(timeline)} \subseteq {timeline[i].id : i \in DOMAIN timeline}
                BY DEF ToSet
            <4> QED
                BY <1>0, <2>3, <4>2, <4>3 DEF ReadHistory
        <3>3. Kept
            <4>1. \A i \in DOMAIN timeline' : timeline'[i].id <= job.id
                BY <1>0, <3>1
            <4> QED
                BY <1>0, <2>3, <3>1, <3>2, <4>1, CallTypes, "radarr" \in Servers, Zenon DEF Servers
        <3> QED
            BY <1>1, <1>2, <1>5, <3>3 DEF SyncHistory
    <2> QED
        BY <1>5, <2>1, <2>2, <2>3 DEF SyncHistory
<1>6. CASE SyncQueues
    <2>1. CASE Skips("radarr") \/ Fails("radarr")
        <3>1. Kept
            BY <1>0, <2>1, CallTypes, "radarr" \in Servers, Zenon DEF Skips, Fails, Servers
        <3> QED
            BY <1>1, <1>2, <1>6, <3>1 DEF SyncQueues
    <2>2. CASE Succeeds("radarr") /\ IngestQueueRows /\ UNCHANGED <<row, barren>>
        <3>1. CASE UNCHANGED <<timeline, refs>>
            <4>1. Kept
                BY <1>0, <2>2, <3>1, CallTypes, "radarr" \in Servers, Zenon DEF Servers
            <4> QED
                BY <1>1, <1>2, <1>6, <4>1 DEF SyncQueues
        <3>2. CASE /\ job.queue # "out"
                   /\ timeline' \in {Without(timeline, BlockedRow), Refreshed(timeline, BlockedRow)}
                   /\ refs' = refs \cup {job.id}
            <4>1. job.id \in 1 .. MaxDownloads
                BY <1>0, <3>2, Bounds DEF OnlyPast
            <4>2. BlockedRow \in Event /\ BlockedRow.id <= job.id
                BY <4>1, Bounds DEF BlockedRow, Event
            <4>3. /\ timeline' \in Seq(Event)
                  /\ \A i \in DOMAIN timeline' : timeline'[i].id <= job.id
                BY <1>0, <3>2, <4>2, RewriteProperties, Bounds
            <4>4. refs' \subseteq 1 .. job.id
                BY <1>0, <3>2, <4>1, Bounds, job.id \in 1 .. job.id
            <4>5. Kept
                BY <1>0, <2>2, <4>3, <4>4, CallTypes, "radarr" \in Servers, Zenon DEF Servers
            <4> QED
                BY <1>1, <1>2, <1>6, <4>5 DEF SyncQueues
        <3> QED
            BY <2>2, <3>1, <3>2, Zenon DEF IngestQueueRows
    <2> QED
        BY <1>6, <2>1, <2>2 DEF SyncQueues
<1>7. CASE SyncDownloads
    <2>1. CASE NothingToAsk
        <3>1. Kept
            BY <1>0, <2>1, Zenon DEF NothingToAsk, TypeOK
        <3> QED
            BY <1>1, <1>2, <1>7, <3>1 DEF SyncDownloads
    <2>2. CASE Skips("client") \/ Fails("client")
        <3>1. Kept
            BY <1>0, <2>2, CallTypes, "client" \in Servers, Zenon DEF Skips, Fails, Servers
        <3> QED
            BY <1>1, <1>2, <1>7, <3>1 DEF SyncDownloads
    <2>3. CASE Succeeds("client") /\ RecordItem /\ UNCHANGED <<row, refs, barren>>
        <3>1. /\ timeline' \in Seq(Event)
              /\ \A i \in DOMAIN timeline' : timeline'[i].id <= job.id
            <4>1. CASE UNCHANGED timeline
                BY <1>0, <4>1
            <4>2. CASE job.at # "gone" /\ timeline' = Refreshed(timeline, Sample)
                <5>1. job.id \in 1 .. MaxDownloads
                    BY <1>0, <4>2, Bounds DEF OnlyPast
                <5>2. Facts \subseteq Readings
                    BY DEF Facts, Readings
                <5>3. hour \in 0 .. MaxHours /\ job.progress \in 0 .. Full
                    BY DEF TypeOK, Download
                <5>4. Sample \in Event /\ Sample.id = job.id
                    BY <5>1, <5>2, <5>3 DEF Sample, Event, Recorded
                <5> QED
                    BY <1>0, <4>2, <5>1, <5>4, Bounds, RewriteProperties
            <4> QED
                BY <2>3, <4>1, <4>2 DEF RecordItem
        <3>2. Kept
            BY <1>0, <2>3, <3>1, CallTypes, "client" \in Servers, Zenon DEF Servers
        <3> QED
            BY <1>1, <1>2, <1>7, <3>2 DEF SyncDownloads
    <2> QED
        BY <1>7, <2>1, <2>2, <2>3 DEF SyncDownloads
<1>8. ASSUME NEW m \in Players, SyncMediaServer(m)
      PROVE  TypeOK' /\ OnlyPast'
    <2>0. m \in Servers /\ \E n \in 1 .. 6 : NextStage(n)
        BY <1>8 DEF SyncMediaServer, Servers
    <2>1. CASE NothingToAsk
        <3>1. Kept
            BY <1>0, <2>1, Zenon DEF NothingToAsk, TypeOK
        <3> QED
            BY <1>1, <1>2, <2>0, <3>1
    <2>2. CASE Skips(m) \/ Fails(m)
        <3>1. Kept
            BY <1>0, <2>0, <2>2, CallTypes, Zenon DEF Skips, Fails
        <3> QED
            BY <1>1, <1>2, <2>0, <3>1
    <2>3. ASSUME BreaksOff(m) \/ ReadsInPart(m)
          PROVE  /\ health' \in [Servers -> {"silent", "fine", "failing", "backedOff"}]
                 /\ upsets' \in 0 .. MaxUpsets /\ steady' \in BOOLEAN
        <3>1. Upset /\ steady' = FALSE
            BY <2>3, Zenon DEF BreaksOff, ReadsInPart
        <3>2. upsets \in 0 .. MaxUpsets
            BY DEF TypeOK
        <3>3. upsets' \in 0 .. MaxUpsets
            BY <3>1, <3>2, Bounds DEF Upset
        <3>4. \E h \in {"fine", "backedOff"} : health' = [health EXCEPT ![m] = h]
            BY <2>3, Zenon DEF BreaksOff, ReadsInPart
        <3> QED
            BY <3>1, <3>3, <3>4 DEF TypeOK
    <2>4. CASE BreaksOff(m)
        <3>1. barren' \subseteq Players
            BY <1>0, <2>4 DEF BreaksOff, RecordLibraryState
        <3>2. Kept
            BY <1>0, <2>3, <2>4, <3>1, Zenon DEF BreaksOff
        <3> QED
            BY <1>1, <1>2, <2>0, <3>2
    <2>5. CASE ReadsInPart(m)
        <3>1. PICK index : ReadLibrary(m, index)
            BY <2>5 DEF ReadsInPart
        <3>2. Kept
            BY <1>0, <2>3, <2>5, <3>1, LibraryProperties, Zenon DEF ReadsInPart
        <3> QED
            BY <1>1, <1>2, <2>0, <3>2
    <2>6. CASE Succeeds(m) /\ ReadLibrary(m, shelf[m]) /\ UNCHANGED refs
        <3>1. Kept
            BY <1>0, <2>0, <2>6, LibraryProperties, CallTypes, Zenon
        <3> QED
            BY <1>1, <1>2, <2>0, <3>1
    <2> QED
        BY <1>8, <2>1, <2>2, <2>4, <2>5, <2>6 DEF SyncMediaServer
<1>9. CASE DiagnoseAll
    <2>1. Kept /\ UNCHANGED <<worldVars, givenVars>>
        BY <1>0, <1>9, Zenon DEF DiagnoseAll, TypeOK
    <2>2. verdict' \in Codes
        BY <1>9, DiagnoseType DEF DiagnoseAll
    <2>3. stage' \in 0 .. Len(Stages)
        BY <1>9, Bounds DEF DiagnoseAll
    <2> QED
        BY <1>1, <2>1, <2>2, <2>3
<1> QED
    BY <1>3, <1>4, <1>5, <1>6, <1>7, <1>8, <1>9 DEF Cycle

-----------------------------------------------------------------------------
(* Every step keeps the row current                                        *)

\* In a cycle that stays steady only the entity stage writes the row, with what is so;
\* whatever else moves anything ends the steadiness.
LEMMA RowStep ==
  ASSUME TypeOK, OnlyPast, RowIsCurrent, [Next]_vars
  PROVE  RowIsCurrent'
<1>1. CASE World
    <2>1. Elsewhere
        BY <1>1, Zenon
        DEF World, EditLibrary, MoveOn, Grab, Advance, Mishap, Fail, Block, Import, Drop, Scan, Reshelve
    <2>2. steady' = FALSE
        BY <2>1 DEF Elsewhere
    <2> QED
        BY <2>2, Zenon DEF RowIsCurrent
<1>2. CASE HourPasses
    <2>1. stage' = 0
        BY <1>2 DEF HourPasses, pollVars
    <2> QED
        BY <2>1 DEF RowIsCurrent
<1>3. ASSUME NEW s \in Servers, BackoffPasses(s)
      PROVE  RowIsCurrent'
    <2>1. UNCHANGED <<library, file, row, stage, steady>>
        BY <1>3 DEF BackoffPasses, worldVars, pollVars
    <2>2. health["radarr"] = "fine" => health'["radarr"] = "fine"
        BY <1>3 DEF BackoffPasses, TypeOK, Servers
    <2> QED
        BY <2>1, <2>2, Zenon DEF RowIsCurrent
<1>4. CASE StartCycle
    <2>1. stage' = 1
        BY <1>4 DEF StartCycle
    <2> QED
        BY <2>1 DEF RowIsCurrent
<1>5. CASE SyncEntities
    <2>1. CASE Skips("radarr") \/ Fails("radarr")
        BY <2>1, Zenon DEF Skips, Fails, RowIsCurrent
    <2>2. CASE Succeeds("radarr") /\ ReadEntity
        <3>1. health'["radarr"] = "fine" /\ UNCHANGED <<library, file>>
            BY <1>5, <2>2 DEF SyncEntities, NextStage, worldVars, Succeeds, TypeOK, Servers
        <3>2. CASE library = "absent"
            <4>1. row'.inArr = FALSE
                BY <2>2, <3>2 DEF ReadEntity, TypeOK, Row
            <4> QED
                BY <3>1, <3>2, <4>1, Zenon DEF RowIsCurrent
        <3>3. CASE library # "absent"
            <4>1. row' = [inArr |-> TRUE, monitored |-> IF library = "on" THEN "yes" ELSE "no",
                          hasFile |-> file, hunt |-> hunt, found |-> row.found]
                BY <2>2, <3>3, Zenon DEF ReadEntity
            <4>2. /\ row'.inArr = TRUE /\ row'.hasFile = file
                  /\ row'.monitored = IF library = "on" THEN "yes" ELSE "no"
                BY <4>1
            <4> QED
                BY <3>1, <3>3, <4>2, Zenon DEF RowIsCurrent
        <3> QED
            BY <3>2, <3>3
    <2> QED
        BY <1>5, <2>1, <2>2 DEF SyncEntities
<1>6. CASE SyncHistory \/ SyncQueues \/ SyncDownloads
    <2>1. UNCHANGED <<library, file>> /\ stage >= 2
        BY <1>6 DEF SyncHistory, SyncQueues, SyncDownloads, NextStage, worldVars
    <2>2. row' = row
        BY <1>6, Zenon DEF SyncHistory, SyncQueues, SyncDownloads, Skips, Fails, NothingToAsk
    <2>3. \/ steady' = FALSE
          \/ NothingToAsk \/ \E s \in Servers : Succeeds(s)
        BY <1>6, Zenon DEF SyncHistory, SyncQueues, SyncDownloads, Skips, Fails, Servers
    <2>4. CASE steady' = FALSE
        BY <2>4, Zenon DEF RowIsCurrent
    <2>5. CASE NothingToAsk \/ \E s \in Servers : Succeeds(s)
        <3>1. steady' = steady
            BY <2>5, Zenon DEF NothingToAsk, Succeeds
        <3>2. health["radarr"] = "fine" => health'["radarr"] = "fine"
            BY <2>5 DEF NothingToAsk, Succeeds, TypeOK, Servers
        <3> QED
            BY <2>1, <2>2, <3>1, <3>2, Zenon DEF RowIsCurrent
    <2> QED
        BY <2>3, <2>4, <2>5
<1>7. ASSUME NEW m \in Players, SyncMediaServer(m)
      PROVE  RowIsCurrent'
    <2>1. UNCHANGED <<library, file>> /\ stage >= 2
        BY <1>7 DEF SyncMediaServer, NextStage, worldVars
    <2>2. CASE steady' = FALSE
        BY <2>2, Zenon DEF RowIsCurrent
    <2>3. CASE steady' # FALSE
        <3>1. NothingToAsk \/ (Succeeds(m) /\ ReadLibrary(m, shelf[m]))
            BY <1>7, <2>3, Zenon DEF SyncMediaServer, Skips, Fails, BreaksOff, ReadsInPart
        <3>2. steady' = steady /\ (health["radarr"] = "fine" => health'["radarr"] = "fine")
            BY <3>1 DEF NothingToAsk, Succeeds, TypeOK, Servers
        <3>3. UNCHANGED <<row.inArr, row.monitored, row.hasFile>>
            BY <3>1, LibraryProperties DEF NothingToAsk
        <3> QED
            BY <2>1, <3>2, <3>3, Zenon DEF RowIsCurrent
    <2> QED
        BY <2>2, <2>3
<1>8. CASE DiagnoseAll
    <2>1. stage' = 0
        BY <1>8 DEF DiagnoseAll
    <2> QED
        BY <2>1 DEF RowIsCurrent
<1>9. CASE UNCHANGED vars
    <2>1. UNCHANGED <<library, file, row, health, stage, steady>>
        BY <1>9 DEF vars, worldVars, keptVars, pollVars
    <2> QED
        BY <2>1, Zenon DEF RowIsCurrent
<1> QED
    BY <1>1, <1>2, <1>3, <1>4, <1>5, <1>6, <1>7, <1>8, <1>9 DEF Next, Cycle

\* The last library that has something in it has the last word.
LEMMA FlagStep ==
  ASSUME TypeOK, OnlyPast, FlagIsCurrent, [Next]_vars
  PROVE  FlagIsCurrent'
<1>1. CASE World
    <2>1. Elsewhere
        BY <1>1, Zenon
        DEF World, EditLibrary, MoveOn, Grab, Advance, Mishap, Fail, Block, Import, Drop, Scan, Reshelve
    <2> QED
        BY <2>1, Zenon DEF Elsewhere, FlagIsCurrent
<1>2. CASE HourPasses
    BY <1>2 DEF HourPasses, pollVars, FlagIsCurrent
<1>3. ASSUME NEW s \in Servers, BackoffPasses(s)
      PROVE  FlagIsCurrent'
    <2>1. UNCHANGED <<shelf, hosted, keyed, row, timeline, stage, steady>>
        BY <1>3 DEF BackoffPasses, worldVars, givenVars, pollVars
    <2> QED
        BY <2>1, Zenon DEF FlagIsCurrent, Candidate, ImportedPaths, Has, FoundById, Speakers
<1>4. CASE StartCycle \/ SyncEntities \/ SyncHistory \/ SyncQueues \/ SyncDownloads \/ DiagnoseAll
    <2>1. stage' \notin {6, 7}
        BY <1>4 DEF StartCycle, SyncEntities, SyncHistory, SyncQueues, SyncDownloads, DiagnoseAll,
                    NextStage
    <2> QED
        BY <2>1 DEF FlagIsCurrent
<1>5. ASSUME NEW m \in Players, SyncMediaServer(m)
      PROVE  FlagIsCurrent'
    <2> SUFFICES ASSUME steady', Candidate'
                 PROVE  /\ stage' = 6 /\ shelf'["plex"] # "empty" /\ ~Has("plex")' => row'.found = "no"
                        /\ stage' = 7 /\ Speakers' # {} /\ (\A p \in Players : ~Has(p)')
                             => row'.found = "no"
        BY Zenon DEF FlagIsCurrent
    <2>1. /\ UNCHANGED <<shelf, keyed, hosted>> /\ UNCHANGED givenVars
          /\ stage = (IF m = "plex" THEN 5 ELSE 6) /\ stage' = stage + 1
        BY <1>5 DEF SyncMediaServer, NextStage, worldVars, givenVars
    <2>2. \A p : Has(p)' = Has(p)
        BY <2>1, Zenon DEF Has, FoundById
    <2>3. \/ NothingToAsk /\ ~Candidate
          \/ Succeeds(m) /\ ReadLibrary(m, shelf[m]) /\ Candidate
        BY <1>5, Zenon DEF SyncMediaServer, Skips, Fails, BreaksOff, ReadsInPart
    <2>4. ~NothingToAsk \/ Candidate
        BY <2>1, Zenon DEF NothingToAsk, Candidate, ImportedPaths
    <2>5. Succeeds(m) /\ ReadLibrary(m, shelf[m]) /\ Candidate /\ steady
        BY <2>3, <2>4 DEF Succeeds
    <2>6. shelf[m] # "empty" /\ ~Has(m) => row'.found = "no"
        <3> SUFFICES ASSUME shelf[m] # "empty", ~Has(m)
                     PROVE  row'.found = "no"
            OBVIOUS
        <3>1. ~FoundById(m) /\ shelf[m] # "holds"
            BY DEF Has
        <3>2. CheckRequest(m, shelf[m])
            BY <2>5 DEF ReadLibrary
        <3>3. row' = [row EXCEPT !.found = "no"]
            BY <3>1, <3>2 DEF CheckRequest
        <3> QED
            BY <3>3 DEF TypeOK, Row
    <2>7. CASE m = "plex"
        BY <2>1, <2>2, <2>6, <2>7
    <2>8. CASE m = "jellyfin"
        <3> SUFFICES ASSUME Speakers' # {}, \A p \in Players : ~Has(p)'
                     PROVE  row'.found = "no"
            BY <2>1, <2>8
        <3>1. Speakers # {} /\ \A p \in Players : ~Has(p)
            BY <2>1, <2>2, Zenon DEF Speakers
        <3>2. CASE shelf["jellyfin"] # "empty"
            BY <2>6, <2>8, <3>1, <3>2
        <3>3. CASE shelf["jellyfin"] = "empty"
            <4>1. shelf["plex"] # "empty"
                BY <3>1, <3>3 DEF Speakers, Players
            <4>2. row.found = "no"
                BY <2>1, <2>5, <2>8, <3>1, <4>1 DEF FlagIsCurrent, Players
            <4>3. row' = row
                BY <2>5, <2>8, <3>3 DEF ReadLibrary
            <4> QED
                BY <4>2, <4>3
        <3> QED
            BY <3>2, <3>3
    <2> QED
        BY <2>7, <2>8 DEF Players
<1>6. CASE UNCHANGED vars
    <2>1. UNCHANGED <<shelf, hosted, keyed, row, timeline, stage, steady>>
        BY <1>6 DEF vars, worldVars, givenVars, keptVars, pollVars
    <2> QED
        BY <2>1, Zenon DEF FlagIsCurrent, Candidate, ImportedPaths, Has, FoundById, Speakers
<1> QED
    BY <1>1, <1>2, <1>3, <1>4, <1>5, <1>6 DEF Next, Cycle

-----------------------------------------------------------------------------

\* The invariant is inductive.
LEMMA StepKeeps ==
  ASSUME IInv, [Next]_vars
  PROVE  IInv'
<1>1. TypeOK' /\ OnlyPast'
    <2>1. CASE World
        BY <2>1, WorldTypes DEF IInv
    <2>2. CASE HourPasses \/ \E s \in Servers : BackoffPasses(s)
        BY <2>2, ClockTypes DEF IInv
    <2>3. CASE Cycle
        BY <2>3, CycleTypes DEF IInv
    <2>4. CASE UNCHANGED vars
        <3>1. UNCHANGED <<hour, library, hunt, file, job, shelf, hosted, asked, keyed, upsets, row,
                          health, timeline, refs, barren, verdict, stage, steady>>
            BY <2>4 DEF vars, worldVars, givenVars, keptVars, pollVars
        <3> QED
            BY <3>1, Zenon DEF IInv, TypeOK, OnlyPast
    <2> QED
        BY <2>1, <2>2, <2>3, <2>4 DEF Next
<1>2. RowIsCurrent' /\ FlagIsCurrent'
    BY RowStep, FlagStep DEF IInv
<1> QED
    BY <1>1, <1>2 DEF IInv

\* The invariant holds throughout.
LEMMA Invariance == Spec => []IInv
<1>1. Init => IInv
    BY InitEstablishes
<1>2. IInv /\ [Next]_vars => IInv'
    BY StepKeeps
<1> QED
    BY <1>1, <1>2, PTL DEF Spec

\* Type correctness: the timeline tells of downloads there have been, and every verdict is
\* one of the codes.
THEOREM TypeCorrect == Spec => []TypeOK
<1>1. IInv => TypeOK
    BY DEF IInv
<1> QED
    BY <1>1, Invariance, PTL

\* Only DiagnoseAll ends a cycle, and it moves nothing but the verdict.
LEMMA DiagnosisStep ==
  ASSUME TypeOK, [Next]_vars, Diagnosed
  PROVE  verdict' = Diagnose(Case) /\ UNCHANGED health
<1>1. stage = 7 /\ stage' = 0
    BY Bounds DEF Diagnosed
<1>2. ~UNCHANGED vars
    BY <1>1 DEF vars, pollVars
<1>3. ~World
    BY <1>1
    DEF World, Elsewhere, EditLibrary, MoveOn, Grab, Advance, Mishap, Fail, Block, Import, Drop, Scan,
        Reshelve
<1>4. ~HourPasses /\ \A s \in Servers : ~BackoffPasses(s)
    BY <1>1 DEF HourPasses, BackoffPasses, pollVars
<1>5. /\ ~(StartCycle \/ SyncEntities \/ SyncHistory \/ SyncQueues \/ SyncDownloads)
      /\ \A m \in Players : ~SyncMediaServer(m)
    BY <1>1
    DEF StartCycle, SyncEntities, SyncHistory, SyncQueues, SyncDownloads, SyncMediaServer, NextStage
<1>6. DiagnoseAll
    BY <1>2, <1>3, <1>4, <1>5 DEF Next, Cycle
<1> QED
    BY <1>6 DEF DiagnoseAll

\* What the rules are told of the services and of Radarr's entry.
LEMMA CaseFields ==
  /\ Case.state = asked /\ Case.available = FALSE /\ Case.arr = "radarr"
  /\ Case.media = (IF hosted THEN "plex" ELSE NoService) /\ Case.found = row.found
  /\ Case.witnesses = {s \in Servers : health[s] = "fine"} \ barren
  /\ Case.inArr = row.inArr /\ Case.monitored = row.monitored /\ Case.hasFile = row.hasFile
  /\ DOMAIN Case.events = DOMAIN timeline
  /\ \A i \in DOMAIN timeline : Case.events[i] = Told(timeline[i])
BY DEF Case

\* After a cycle in which every call was answered and nothing moved, rules 1 and 2 are
\* exact (r01_never_added.py:19-92, r02_unmonitored.py).
THEOREM UpstreamExact == Spec => UpstreamIsExact
<1>1. ASSUME IInv, [Next]_vars, SteadilyDiagnosed, verdict' # "FULFILLED"
      PROVE  /\ verdict' = "NEVER_ADDED" <=> library = "absent"
             /\ verdict' = "UNMONITORED" <=> library = "off" /\ ~file
    <2>1. verdict' = Diagnose(Case)
        BY <1>1, DiagnosisStep DEF SteadilyDiagnosed, IInv
    <2>2. /\ health["radarr"] = "fine"
          /\ row.inArr = (library # "absent")
          /\ library # "absent" =>
               row.monitored = (IF library = "on" THEN "yes" ELSE "no") /\ row.hasFile = file
        <3>1. stage = 7
            BY <1>1, Bounds DEF SteadilyDiagnosed, Diagnosed
        <3> QED
            BY <1>1, <3>1 DEF SteadilyDiagnosed, IInv, RowIsCurrent
    <2>3. /\ Diagnose(Case) = "NEVER_ADDED" <=> NeverAdded(Case) = "NEVER_ADDED"
          /\ Diagnose(Case) = "UNMONITORED"
               <=> NeverAdded(Case) = Nothing /\ Unmonitored(Case) = "UNMONITORED"
        BY <1>1, <2>1, VerdictsOfRow DEF Diagnose
    <2>4. NeverAdded(Case) = IF row.inArr THEN Nothing ELSE "NEVER_ADDED"
        <3>1. Case.state \notin {"pending", "declined"}
            BY <1>1, CaseFields DEF IInv, TypeOK
        <3>2. CanSpeakFor(Case, "radarr")
            BY <1>1, <2>2, CaseFields DEF IInv, TypeOK, CanSpeakFor, Servers, Players
        <3> QED
            BY <2>2, <3>1, <3>2, CaseFields DEF NeverAdded, NoService
    <2>5. Unmonitored(Case) = "UNMONITORED" <=> row.inArr /\ ~row.hasFile /\ row.monitored = "no"
        BY CaseFields DEF Unmonitored, Nothing
    <2> QED
        BY <1>1, <2>1, <2>2, <2>3, <2>4, <2>5 DEF IInv, TypeOK, Nothing
<1>2. IInv /\ [Next]_vars => [SteadilyDiagnosed /\ verdict' # "FULFILLED" =>
        /\ verdict' = "NEVER_ADDED" <=> library = "absent"
        /\ verdict' = "UNMONITORED" <=> library = "off" /\ ~file]_vars
    BY <1>1
<1> QED
    BY <1>2, Invariance, PTL DEF Spec, UpstreamIsExact

\* The rules never say FULFILLED.
LEMMA FulfilledIsNoRules == ASSUME NEW c, ~Fulfilled(c) PROVE Diagnose(c) # "FULFILLED"
<1>1. CASE Evaluate(c) = Nothing
    BY <1>1 DEF Diagnose, Nothing
<1>2. ASSUME NEW i \in 1 .. 10, Evaluate(c) = Opinions(c)[i]
      PROVE  Diagnose(c) # "FULFILLED"
    <2>1. /\ NeverAdded(c) # "FULFILLED" /\ Unmonitored(c) # "FULFILLED"
          /\ BlocklistLoop(c) # "FULFILLED" /\ DownloadedNotImported(c) # "FULFILLED"
          /\ GrabbedButStalled(c) # "FULFILLED" /\ NotInMediaServer(c) # "FULFILLED"
          /\ WrongQuality(c) # "FULFILLED" /\ NoReleaseFound(c) # "FULFILLED"
          /\ ArrivedButNotReflected(c) # "FULFILLED" /\ DownloadInProgress(c) # "FULFILLED"
        BY Vocabulary DEF Nothing
    <2>2. i \in {1, 2, 3, 4, 5, 6, 7, 8, 9, 10}
        OBVIOUS
    <2> QED
        BY <1>2, <2>1, <2>2, OpinionList DEF Diagnose
<1> QED
    BY <1>1, <1>2, UpstreamFirst DEF SpeaksFor

\* A request that completed and later broke still surfaces (core/models.py:321-328): if no
\* library that has something in it has the film, a steady cycle does not end in FULFILLED,
\* whatever had been found before.
THEOREM BrokenSurfaces == Spec => BrokenLaterSurfaces
<1>1. ASSUME IInv, [Next]_vars, SteadilyDiagnosed, Candidate, Speakers # {},
             \A m \in Players : ~Has(m)
      PROVE  verdict' # "FULFILLED"
    <2>1. verdict' = Diagnose(Case)
        BY <1>1, DiagnosisStep DEF SteadilyDiagnosed, IInv
    <2>2. stage = 7
        BY <1>1, Bounds DEF SteadilyDiagnosed, Diagnosed
    <2>3. row.found = "no"
        BY <1>1, <2>2 DEF SteadilyDiagnosed, IInv, FlagIsCurrent
    <2>4. ~Fulfilled(Case)
        BY <2>3, CaseFields DEF Fulfilled
    <2> QED
        BY <2>1, <2>4, FulfilledIsNoRules
<1>2. IInv /\ [Next]_vars =>
        [SteadilyDiagnosed /\ Candidate /\ Speakers # {} /\ (\A m \in Players : ~Has(m))
           => verdict' # "FULFILLED"]_vars
    BY <1>1
<1> QED
    BY <1>2, Invariance, PTL DEF Spec, BrokenLaterSurfaces
=============================================================================
