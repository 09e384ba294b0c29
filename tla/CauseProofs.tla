----------------------------- MODULE CauseProofs -----------------------------
(***************************************************************************)
(* That a steady cycle names the cause, for every number of hours,         *)
(* downloads and upsets and every threshold of the rules.  The invariant   *)
(* has three parts: what the timeline can hold at all (LineFits), what     *)
(* Radarr and the client can be doing (WorldFits), and what each stage of  *)
(* a cycle that stays steady has left behind for the rules (Read).         *)
(***************************************************************************)
EXTENDS DiagnosisProofs, FiniteSetTheorems

(* The timeline.                                                           *)

Records(e, type) == e.source = "history" /\ e.type = type

\* What an event can be, by where it comes from.
Plausible(e) ==
  /\ e.hour <= hour
  /\ e.source = "history" => e.type \in Recorded /\ e.id \in 1 .. job.id /\ e.hour = 0
  /\ e.source # "history" => e.known
  /\ e.source = "queue" => e.type = "import_blocked" /\ e.id \in 1 .. job.id /\ ~hosted
  /\ e.source = "client" =>
       /\ e.type \in {"download_progress", "download_failed"}
       /\ e.id \in 1 .. job.id /\ ~hosted
       /\ e.facts # {} /\ (e.type = "download_progress" => "errored" \notin e.facts)
       /\ e.id = job.id =>
            e.progress <= job.progress /\ (e.progress = job.progress => job.since <= e.hour)
  /\ e.source \in Players =>
       /\ e.type \in Sighted \cup {"missing"} /\ e.id = 0 /\ hosted
       /\ e.source = "plex" /\ e.type = "path_mismatch" => keyed

\* Every download was grabbed, the file was imported, no attempt failed after that, and no
\* media server's event is there twice.
LineFits(t) ==
  /\ \A i \in DOMAIN t : Plausible(t[i])
  /\ \A n \in 1 .. job.id : \E i \in DOMAIN t : Records(t[i], "grabbed") /\ t[i].id = n
  /\ file <=> \E i \in DOMAIN t : Records(t[i], "imported")
  /\ file => \A i \in DOMAIN t : Records(t[i], "download_failed") =>
                \E j \in DOMAIN t : i < j /\ Records(t[j], "imported")
  /\ \A i, j \in DOMAIN t :
       t[i].source \in Players /\ t[i].source = t[j].source /\ t[i].type = t[j].type => i = j

(* The world.                                                              *)

WorldFits ==
  /\ job.queue # "out" => job.at # "gone" /\ ~file
  /\ job.at # "gone" /\ job.queue = "out" => file
  /\ job.queue = "blocked" => job.progress = Full
  /\ job.since <= hour
  /\ hosted => file /\ job.at = "gone" /\ library # "absent" /\ job.id # 0
  /\ ~hosted => asked = "approved"

(* The stages of a steady cycle.                                           *)

EntityRead == stage >= 2 /\ library # "absent" => row.hunt = hunt

HistoryRead ==
  stage >= 3 /\ row.inArr => 1 .. job.id \subseteq refs /\ \A i \in DOMAIN timeline : timeline[i].known

QueueRead ==
  stage >= 4 /\ row.inArr /\ job.queue = "blocked" =>
    \E i \in DOMAIN timeline : timeline[i].source = "queue" /\ timeline[i].id = job.id

ClientRead ==
  stage >= 5 /\ row.inArr /\ job.id # 0 =>
    /\ health["client"] = "fine"
    /\ job.at # "gone" => timeline # <<>> /\ timeline[Len(timeline)] = Sample

LibraryRead(m) ==
  hosted /\ stage >= (IF m = "plex" THEN 6 ELSE 7) =>
    /\ health[m] = "fine"
    /\ m \in barren <=> shelf[m] = "empty"
    /\ shelf[m] = "holds" =>
         \A i \in DOMAIN timeline : timeline[i].source = m => timeline[i].type = "found"
    /\ shelf[m] = "elsewhere" /\ FoundById(m) =>
         \E i \in DOMAIN timeline : timeline[i].source = m /\ timeline[i].type = "path_mismatch"

\* What media server m has said of the film stands.
Word(m) ==
  /\ row.found = (IF Has(m) THEN "yes" ELSE "no")
  /\ shelf[m] = "holds" => timeline # <<>> /\ timeline[Len(timeline)] = Sighting(m, "found")

LastWord ==
  hosted =>
    /\ stage = 6 /\ "plex" \in Speakers => Word("plex")
    /\ stage = 7 /\ "jellyfin" \in Speakers => Word("jellyfin")
    /\ stage = 7 /\ "jellyfin" \notin Speakers /\ "plex" \in Speakers => Word("plex")

Read ==
  steady => /\ EntityRead /\ HistoryRead /\ QueueRead /\ ClientRead /\ LastWord
            /\ \A m \in Players : LibraryRead(m)

Evidence == IInv /\ LineFits(timeline) /\ WorldFits /\ Read

-----------------------------------------------------------------------------
(* Lemmas about the timeline                                               *)

\* Without takes out one event with the key of e, if there is one, and closes the gap.
LEMMA WithoutGap ==
  ASSUME NEW s \in Seq(Event), NEW e
  PROVE  \/ Without(s, e) = s /\ \A i \in DOMAIN s : ~SameKey(e, s[i])
         \/ \E k \in 1 .. Len(s) :
              /\ SameKey(e, s[k])
              /\ Without(s, e) \in Seq(Event) /\ Len(Without(s, e)) = Len(s) - 1
              /\ \A j \in 1 .. Len(s) - 1 :
                   Without(s, e)[j] = IF j < k THEN s[j] ELSE s[j + 1]
<1> DEFINE old == {i \in DOMAIN s : SameKey(e, s[i])}
<1>1. CASE old = {}
    BY <1>1 DEF Without
<1>2. CASE old # {}
    <2>1. PICK k \in old : k = CHOOSE i \in old : TRUE
        BY <1>2
    <2>2. k \in 1 .. Len(s) /\ SameKey(e, s[k])
        OBVIOUS
    <2> DEFINE a == SubSeq(s, 1, k - 1)
               b == SubSeq(s, k + 1, Len(s))
    <2>3. Without(s, e) = a \o b
        BY <1>2, <2>1 DEF Without, RemoveAt
    <2>4. /\ a \in Seq(Event) /\ Len(a) = k - 1
          /\ \A j \in 1 .. k - 1 : a[j] = s[j]
        BY <2>2
    <2>5. /\ b \in Seq(Event) /\ Len(b) = Len(s) - k
          /\ \A j \in 1 .. Len(s) - k : b[j] = s[k + j]
        BY <2>2
    <2> HIDE DEF a, b, old
    <2>6. /\ a \o b \in Seq(Event) /\ Len(a \o b) = Len(a) + Len(b)
          /\ \A j \in 1 .. Len(a) + Len(b) :
               (a \o b)[j] = IF j <= Len(a) THEN a[j] ELSE b[j - Len(a)]
        BY <2>4, <2>5, ConcatProperties
    <2>7. Len(s) \in Nat /\ k \in Nat /\ Len(a \o b) = Len(s) - 1
        BY <2>2, <2>4, <2>5, <2>6
    <2>8. ASSUME NEW j \in 1 .. Len(s) - 1
          PROVE  (a \o b)[j] = IF j < k THEN s[j] ELSE s[j + 1]
        <3>1. CASE j < k
            BY <2>4, <2>5, <2>6, <2>7, <3>1
        <3>2. CASE ~(j < k)
            <4>1. /\ ~(j <= Len(a)) /\ j \in 1 .. Len(a) + Len(b)
                  /\ j - Len(a) \in 1 .. Len(s) - k /\ k + (j - Len(a)) = j + 1
                BY <2>2, <2>4, <2>5, <2>7, <3>2
            <4>2. (a \o b)[j] = b[j - Len(a)]
                BY <2>6, <4>1
            <4>3. b[j - Len(a)] = s[k + (j - Len(a))]
                BY <2>5, <4>1
            <4> QED
                BY <3>2, <4>1, <4>2, <4>3
        <3> QED
            BY <3>1, <3>2
    <2> QED
        BY <2>2, <2>3, <2>6, <2>7, <2>8
<1> QED
    BY <1>1, <1>2

\* The other events stay, and the order they are in.
LEMMA WithoutKeeps ==
  ASSUME NEW s \in Seq(Event), NEW e
  PROVE  /\ Without(s, e) \in Seq(Event)
         /\ \A j \in DOMAIN Without(s, e) : \E i \in DOMAIN s : Without(s, e)[j] = s[i]
         /\ \A i \in DOMAIN s : ~SameKey(e, s[i]) =>
              \E j \in DOMAIN Without(s, e) : Without(s, e)[j] = s[i]
<1> DEFINE w == Without(s, e)
<1>1. w \in Seq(Event) /\ \A j \in DOMAIN w : \E i \in DOMAIN s : w[j] = s[i]
    BY WithoutProperties
<1>2. ASSUME NEW i \in DOMAIN s, ~SameKey(e, s[i])
      PROVE  \E j \in DOMAIN w : w[j] = s[i]
    <2>1. CASE w = s
        BY <2>1
    <2>2. ASSUME NEW k \in 1 .. Len(s), SameKey(e, s[k]), Len(w) = Len(s) - 1,
                 \A j \in 1 .. Len(s) - 1 : w[j] = IF j < k THEN s[j] ELSE s[j + 1]
          PROVE  \E j \in DOMAIN w : w[j] = s[i]
        <3>1. i \in 1 .. Len(s) /\ i # k /\ DOMAIN w = 1 .. Len(s) - 1 /\ Len(s) \in Nat
            BY <1>1, <1>2, <2>2
        <3>2. CASE i < k
            <4>1. i \in 1 .. Len(s) - 1 /\ w[i] = s[i]
                BY <2>2, <3>1, <3>2
            <4> QED
                BY <3>1, <4>1
        <3>3. CASE i > k
            <4>1. i - 1 \in 1 .. Len(s) - 1 /\ ~(i - 1 < k) /\ i - 1 + 1 = i
                BY <3>1, <3>3
            <4>2. w[i - 1] = s[i]
                BY <2>2, <4>1
            <4> QED
                BY <3>1, <4>1, <4>2
        <3> QED
            BY <3>1, <3>2, <3>3
    <2> HIDE DEF w
    <2> QED
        BY <2>1, <2>2, WithoutGap DEF w
<1> QED
    BY <1>1, <1>2

\* Taking out an event that is not of Radarr's history leaves a timeline that fits.
LEMMA WithoutFits ==
  ASSUME NEW s \in Seq(Event), LineFits(s), NEW e, e.source # "history"
  PROVE  LineFits(Without(s, e))
<1> DEFINE w == Without(s, e)
<1>0. CASE w = s
    BY <1>0
<1>1. ASSUME NEW k \in 1 .. Len(s), SameKey(e, s[k]), w \in Seq(Event), Len(w) = Len(s) - 1,
             \A j \in 1 .. Len(s) - 1 : w[j] = IF j < k THEN s[j] ELSE s[j + 1]
      PROVE  LineFits(w)
    <2> HIDE DEF w
    <2> DEFINE was(j) == IF j < k THEN j ELSE j + 1
    <2>1. /\ DOMAIN w = 1 .. Len(s) - 1 /\ Len(s) \in Nat /\ DOMAIN s = 1 .. Len(s)
          /\ \A j \in DOMAIN w : was(j) \in DOMAIN s /\ was(j) # k /\ w[j] = s[was(j)]
        BY <1>1
    <2>2. s[k].source # "history"
        BY <1>1 DEF SameKey
    <2>3. \A i \in DOMAIN s : i # k => \E j \in DOMAIN w : was(j) = i
        <3> SUFFICES ASSUME NEW i \in 1 .. Len(s), i # k PROVE \E j \in DOMAIN w : was(j) = i
            BY <2>1
        <3>1. CASE i < k
            <4>1. i \in DOMAIN w /\ was(i) = i
                BY <2>1, <3>1
            <4> QED
                BY <4>1
        <3>2. CASE i > k
            <4>1. i - 1 \in DOMAIN w /\ was(i - 1) = i
                BY <2>1, <3>2
            <4> QED
                BY <4>1
        <3> QED
            BY <3>1, <3>2
    <2>4. \A i, j \in DOMAIN w : (was(i) < was(j) => i < j) /\ (was(i) = was(j) => i = j)
        BY <2>1
    <2> HIDE DEF was
    <2>5. \A j \in DOMAIN w : Plausible(w[j])
        BY <2>1 DEF LineFits
    <2>6. ASSUME NEW n \in 1 .. job.id
          PROVE  \E j \in DOMAIN w : Records(w[j], "grabbed") /\ w[j].id = n
        <3>1. PICK i \in DOMAIN s : Records(s[i], "grabbed") /\ s[i].id = n
            BY DEF LineFits
        <3>2. i # k
            BY <2>2, <3>1 DEF Records
        <3> QED
            BY <2>1, <2>3, <3>1, <3>2
    <2>7. file <=> \E j \in DOMAIN w : Records(w[j], "imported")
        <3>1. ASSUME file PROVE \E j \in DOMAIN w : Records(w[j], "imported")
            <4>1. PICK i \in DOMAIN s : Records(s[i], "imported")
                BY <3>1 DEF LineFits
            <4>2. i # k
                BY <2>2, <4>1 DEF Records
            <4> QED
                BY <2>1, <2>3, <4>1, <4>2
        <3>2. ASSUME NEW j \in DOMAIN w, Records(w[j], "imported") PROVE file
            BY <2>1, <3>2 DEF LineFits
        <3> QED
            BY <3>1, <3>2
    <2>8. ASSUME file, NEW j \in DOMAIN w, Records(w[j], "download_failed")
          PROVE  \E l \in DOMAIN w : j < l /\ Records(w[l], "imported")
        <3>1. PICK i \in DOMAIN s : was(j) < i /\ Records(s[i], "imported")
            BY <2>1, <2>8 DEF LineFits
        <3>2. i # k
            BY <2>2, <3>1 DEF Records
        <3>3. PICK l \in DOMAIN w : was(l) = i
            BY <2>3, <3>2
        <3> QED
            BY <2>1, <2>4, <3>1, <3>3
    <2>9. ASSUME NEW i \in DOMAIN w, NEW j \in DOMAIN w, w[i].source \in Players,
                 w[i].source = w[j].source, w[i].type = w[j].type
          PROVE  i = j
        <3>1. was(i) = was(j)
            BY <2>1, <2>9 DEF LineFits
        <3> QED
            BY <2>4, <3>1
    <2> QED
        BY <2>5, <2>6, <2>7, <2>8, <2>9 DEF LineFits
<1> HIDE DEF w
<1> QED
    BY <1>0, <1>1, WithoutGap DEF w

\* So does adding one, if it is not another of the same media server's.
LEMMA AppendFits ==
  ASSUME NEW s \in Seq(Event), LineFits(s), NEW e \in Event, Plausible(e), e.source # "history",
         e.source \in Players =>
           \A i \in DOMAIN s : ~(s[i].source = e.source /\ s[i].type = e.type)
  PROVE  LineFits(Append(s, e))
<1> DEFINE w == Append(s, e)
<1>1. /\ DOMAIN w = 1 .. Len(s) + 1 /\ Len(s) \in Nat /\ DOMAIN s = 1 .. Len(s)
      /\ \A i \in DOMAIN s : i \in DOMAIN w /\ w[i] = s[i]
      /\ w[Len(s) + 1] = e
      /\ \A i \in DOMAIN w : i \in DOMAIN s \/ i = Len(s) + 1
    OBVIOUS
<1> HIDE DEF w
<1>2. \A type : ~Records(e, type)
    BY DEF Records
<1>3. \A i \in DOMAIN w : Plausible(w[i])
    BY <1>1 DEF LineFits
<1>4. \A n \in 1 .. job.id : \E i \in DOMAIN w : Records(w[i], "grabbed") /\ w[i].id = n
    BY <1>1 DEF LineFits
<1>5. \A type : \A i \in DOMAIN w : Records(w[i], type) => i \in DOMAIN s /\ w[i] = s[i]
    BY <1>1, <1>2
<1>6. file <=> \E i \in DOMAIN w : Records(w[i], "imported")
    BY <1>1, <1>5 DEF LineFits
<1>7. ASSUME file, NEW i \in DOMAIN w, Records(w[i], "download_failed")
      PROVE  \E j \in DOMAIN w : i < j /\ Records(w[j], "imported")
    <2>1. PICK j \in DOMAIN s : i < j /\ Records(s[j], "imported")
        BY <1>5, <1>7 DEF LineFits
    <2> QED
        BY <1>1, <2>1
<1>8. ASSUME NEW i \in DOMAIN w, NEW j \in DOMAIN w, w[i].source \in Players,
             w[i].source = w[j].source, w[i].type = w[j].type
      PROVE  i = j
    <2>1. CASE i \in DOMAIN s /\ j \in DOMAIN s
        BY <1>1, <1>8, <2>1 DEF LineFits
    <2>2. CASE i = Len(s) + 1 /\ j \in DOMAIN s
        BY <1>1, <1>8, <2>2
    <2>3. CASE i \in DOMAIN s /\ j = Len(s) + 1
        BY <1>1, <1>8, <2>3
    <2> QED
        BY <1>1, <2>1, <2>2, <2>3
<1> QED
    BY <1>3, <1>4, <1>6, <1>7, <1>8 DEF LineFits, w

\* After Without, no event of the media server and the type it was asked for is left.
LEMMA WithoutLeavesNone ==
  ASSUME NEW s \in Seq(Event), LineFits(s), NEW e, e.source \in Players, e.id = 0
  PROVE  \A j \in DOMAIN Without(s, e) :
           ~(Without(s, e)[j].source = e.source /\ Without(s, e)[j].type = e.type)
<1> DEFINE w == Without(s, e)
<1>1. \A i \in DOMAIN s : s[i].source = e.source /\ s[i].type = e.type => SameKey(e, s[i])
    <2>1. e.source # "client"
        BY DEF Players
    <2> QED
        BY <2>1 DEF LineFits, Plausible, SameKey
<1>2. CASE w = s /\ \A i \in DOMAIN s : ~SameKey(e, s[i])
    BY <1>1, <1>2
<1>3. ASSUME NEW k \in 1 .. Len(s), SameKey(e, s[k]), w \in Seq(Event), Len(w) = Len(s) - 1,
             \A j \in 1 .. Len(s) - 1 : w[j] = IF j < k THEN s[j] ELSE s[j + 1],
             NEW j \in DOMAIN w, w[j].source = e.source, w[j].type = e.type
      PROVE  FALSE
    <2> HIDE DEF w
    <2>1. PICK i \in 1 .. Len(s) : i # k /\ w[j] = s[i]
        <3>1. j \in 1 .. Len(s) - 1 /\ Len(s) \in Nat
            BY <1>3
        <3>2. CASE j < k
            BY <1>3, <3>1, <3>2
        <3>3. CASE ~(j < k)
            <4>1. j + 1 \in 1 .. Len(s) /\ j + 1 # k /\ w[j] = s[j + 1]
                BY <1>3, <3>1, <3>3
            <4> QED
                BY <4>1
        <3> QED
            BY <3>2, <3>3
    <2>2. s[k].source = e.source /\ s[k].type = e.type
        BY <1>3 DEF SameKey
    <2> QED
        BY <1>3, <2>1, <2>2 DEF LineFits
<1> HIDE DEF w
<1> QED
    BY <1>2, <1>3, WithoutGap DEF w

\* Rewriting an event leaves a timeline that fits.
LEMMA RefreshedFits ==
  ASSUME NEW s \in Seq(Event), LineFits(s), NEW e \in Event, Plausible(e), e.source # "history"
  PROVE  LineFits(Refreshed(s, e))
<1>1. Without(s, e) \in Seq(Event) /\ LineFits(Without(s, e))
    BY WithoutKeeps, WithoutFits
<1>2. e.source \in Players => e.id = 0
    BY DEF Plausible
<1> QED
    BY <1>1, <1>2, AppendFits, WithoutLeavesNone DEF Refreshed

\* What a timeline that fits tells stays so while the world does not move.
LEMMA LineStays ==
  ASSUME UNCHANGED <<hour, file, job, hosted, keyed>>, LineFits(timeline')
  PROVE  LineFits(timeline)'
BY DEF LineFits, Plausible

-----------------------------------------------------------------------------
(* The world's steps                                                       *)

\* The numbers behind the types.
LEMMA Numbers ==
  ASSUME TypeOK
  PROVE  /\ hour \in Nat /\ stage \in Nat
         /\ job.id \in Nat /\ job.progress \in Nat /\ job.since \in Nat
         /\ timeline \in Seq(Event) /\ Len(timeline) \in Nat
         /\ DOMAIN timeline = 1 .. Len(timeline)
         /\ \A i \in DOMAIN timeline :
              /\ timeline[i] \in Event /\ timeline[i].id \in Nat
              /\ timeline[i].hour \in Nat /\ timeline[i].progress \in Nat
<1>1. /\ hour \in Nat /\ stage \in Nat
      /\ job.id \in Nat /\ job.progress \in Nat /\ job.since \in Nat
    BY Bounds DEF TypeOK, Download
<1>2. timeline \in Seq(Event)
    BY DEF TypeOK
<1>3. ASSUME NEW e \in Event PROVE e.id \in Nat /\ e.hour \in Nat /\ e.progress \in Nat
    BY Bounds DEF Event
<1> QED
    BY <1>1, <1>2, <1>3

\* A download that moves without being replaced or imported.
LEMMA QuietLine ==
  ASSUME TypeOK, LineFits(timeline), UNCHANGED <<timeline, hour, file, hosted, keyed>>,
         job'.id = job.id,
         \/ job'.progress = job.progress /\ job'.since = job.since
         \/ job'.progress = job.progress + 1
  PROVE  LineFits(timeline)'
<1>1. ASSUME NEW i \in DOMAIN timeline PROVE Plausible(timeline[i])'
    <2> DEFINE e == timeline[i]
    <2>1. Plausible(e) /\ e.progress \in Nat /\ job.progress \in Nat
        BY Numbers DEF LineFits
    <2> HIDE DEF e
    <2>2. e.source = "client" /\ e.id = job.id =>
            e.progress <= job'.progress /\ (e.progress = job'.progress => job'.since <= e.hour)
        BY <2>1 DEF Plausible
    <2>3. Plausible(e)'
        BY <2>1, <2>2 DEF Plausible, e
    <2> QED
        BY <2>3 DEF e
<1> QED
    BY <1>1 DEF LineFits, Records

\* A record more in Radarr's history: of a new download, or of the end of one.
LEMMA RecordedLine ==
  ASSUME TypeOK, LineFits(timeline), NEW type \in Recorded, Happens(type), ~file,
         file' = (type = "imported"), UNCHANGED <<hour, hosted, keyed>>,
         job'.id \in Nat \ {0},
         \/ type = "grabbed" /\ job'.id = job.id + 1
         \/ job'.id = job.id /\ job'.progress = job.progress /\ job'.since = job.since
  PROVE  LineFits(timeline)'
<1>0. PICK e : e = Record(type, job'.id)
    OBVIOUS
<1> DEFINE n == Len(timeline) + 1
<1>1. /\ DOMAIN timeline' = 1 .. n /\ n \in Nat /\ n \in DOMAIN timeline' /\ timeline'[n] = e
      /\ \A i \in DOMAIN timeline : i \in DOMAIN timeline' /\ timeline'[i] = timeline[i] /\ i < n
      /\ \A i \in DOMAIN timeline' : i \in DOMAIN timeline \/ i = n
    BY <1>0, Numbers DEF Happens
<1>2. /\ e.source = "history" /\ e.type = type /\ e.id = job'.id /\ e.hour = 0
    BY <1>0 DEF Record
<1> HIDE DEF n
<1>3. Plausible(e)'
    BY <1>2, Numbers DEF Plausible, Players
<1>4. ASSUME NEW f, Plausible(f), f.id \in Nat PROVE Plausible(f)'
    <2>1. job.id \in Nat
        BY Numbers
    <2>2. /\ f.id \in 1 .. job.id => f.id \in 1 .. job'.id
          /\ f.id \in 1 .. job.id /\ f.id = job'.id => job'.id = job.id
        BY <1>4, <2>1
    <2>3. f.source = "client" /\ f.id = job'.id =>
            f.progress <= job'.progress /\ (f.progress = job'.progress => job'.since <= f.hour)
        BY <1>4, <2>2 DEF Plausible
    <2> QED
        BY <1>4, <2>1, <2>2, <2>3 DEF Plausible
<1>5. ASSUME NEW i \in DOMAIN timeline' PROVE Plausible(timeline[i])'
    <2>1. CASE i \in DOMAIN timeline
        <3>1. PICK f : f = timeline[i] /\ Plausible(f) /\ f.id \in Nat
            BY <2>1, Numbers DEF LineFits
        <3>2. Plausible(f)' /\ timeline'[i] = f
            BY <1>1, <1>4, <2>1, <3>1
        <3> QED
            BY <3>2 DEF Plausible
    <2>2. CASE i = n
        BY <1>1, <1>3, <2>2 DEF Plausible
    <2> QED
        BY <1>1, <2>1, <2>2
<1>6. ASSUME NEW k \in 1 .. job'.id
      PROVE  \E i \in DOMAIN timeline' : Records(timeline'[i], "grabbed") /\ timeline'[i].id = k
    <2>1. CASE k \in 1 .. job.id
        BY <1>1, <2>1 DEF LineFits
    <2>2. CASE k = job'.id /\ type = "grabbed"
        BY <1>1, <1>2, <2>2 DEF Records
    <2>3. job.id \in Nat
        BY Numbers
    <2> QED
        BY <2>1, <2>2, <2>3
<1>7. file' <=> \E i \in DOMAIN timeline' : Records(timeline'[i], "imported")
    <2>1. \A i \in DOMAIN timeline : ~Records(timeline[i], "imported")
        BY DEF LineFits
    <2>2. Records(e, "imported") <=> type = "imported"
        BY <1>2 DEF Records
    <2> QED
        BY <1>1, <2>1, <2>2
<1>8. ASSUME file', NEW i \in DOMAIN timeline', Records(timeline'[i], "download_failed")
      PROVE  \E j \in DOMAIN timeline' : i < j /\ Records(timeline'[j], "imported")
    <2>1. Records(e, "imported") /\ ~Records(e, "download_failed")
        BY <1>2, <1>8 DEF Records
    <2>2. i \in DOMAIN timeline
        BY <1>1, <1>8, <2>1
    <2> QED
        BY <1>1, <2>1, <2>2
<1>9. ASSUME NEW i \in DOMAIN timeline', NEW j \in DOMAIN timeline',
             timeline'[i].source \in Players, timeline'[i].source = timeline'[j].source,
             timeline'[i].type = timeline'[j].type
      PROVE  i = j
    <2>1. e.source \notin Players
        BY <1>2 DEF Players
    <2>2. i \in DOMAIN timeline /\ j \in DOMAIN timeline
        BY <1>1, <1>9, <2>1
    <2> QED
        BY <1>1, <1>9, <2>2 DEF LineFits
<1> QED
    BY <1>5, <1>6, <1>7, <1>8, <1>9 DEF LineFits, Records

\* Whatever happens in the world keeps the timeline and the world fitting.
LEMMA WorldStep ==
  ASSUME TypeOK, OnlyPast, LineFits(timeline), WorldFits, World
  PROVE  LineFits(timeline)' /\ WorldFits'
<1>0. /\ job \in Download /\ hour \in Nat /\ job.id \in Nat /\ job.since \in Nat
      /\ job.progress \in Nat
    BY Numbers DEF TypeOK
<1>1. CASE EditLibrary
    <2>1. UNCHANGED <<timeline, hour, file, job, hosted, asked, keyed>>
        BY <1>1 DEF EditLibrary, Elsewhere, givenVars
    <2>2. library' = "absent" => job.id = 0
        BY <1>1 DEF EditLibrary, NoJob
    <2>3. WorldFits'
        BY <2>1, <2>2 DEF WorldFits
    <2> QED
        BY <2>1, <2>3, QuietLine
<1>2. CASE MoveOn \/ \E m \in Players : Scan(m) \/ Reshelve(m)
    <2>1. UNCHANGED <<timeline, hour, file, job, library, hosted, asked, keyed>>
        BY <1>2 DEF MoveOn, Scan, Reshelve, Elsewhere, givenVars
    <2>2. WorldFits'
        BY <2>1 DEF WorldFits
    <2> QED
        BY <2>1, <2>2, QuietLine
<1>3. CASE Grab
    <2>1. /\ UNCHANGED <<hour, file, library, hosted, asked, keyed>> /\ ~file
          /\ job'.id = job.id + 1 /\ job'.at = "still" /\ job'.since = hour
          /\ job'.queue = "queued" /\ Happens("grabbed")
        BY <1>3 DEF Grab, Elsewhere, givenVars
    <2>2. WorldFits'
        BY <1>0, <2>1 DEF WorldFits
    <2>3. LineFits(timeline)'
        <3>1. file' = ("grabbed" = "imported")
            BY <2>1 DEF TypeOK
        <3> QED
            BY <1>0, <2>1, <3>1, RecordedLine DEF Recorded
    <2> QED
        BY <2>2, <2>3
<1>4. CASE Advance
    <2>1. /\ UNCHANGED <<timeline, hour, file, library, hosted, asked, keyed>>
          /\ job.at \in {"still", "moving"} /\ job.progress < Full
          /\ job'.id = job.id /\ job'.at = "moving" /\ job'.queue = job.queue
          /\ job'.progress = job.progress + 1 /\ job'.since = hour
        BY <1>0, <1>4 DEF Advance, Elsewhere, givenVars, Download
    <2>2. WorldFits'
        BY <1>0, <2>1, Bounds DEF WorldFits
    <2> QED
        BY <2>1, <2>2, QuietLine
<1>5. CASE Mishap \/ Drop \/ Block
    <2>1. /\ UNCHANGED <<timeline, hour, file, library, hosted, asked, keyed>>
          /\ job'.id = job.id /\ job'.progress = job.progress /\ job'.since = job.since
        BY <1>0, <1>5 DEF Mishap, Drop, Block, Elsewhere, givenVars, Download
    <2>2. \/ job.at # "gone" /\ job'.at # "gone" /\ job'.queue = job.queue
          \/ job.at # "gone" /\ job'.at = "gone" /\ job'.queue = "out"
          \/ /\ job.queue = "queued" /\ job.progress = Full
             /\ job'.at = job.at /\ job'.queue = "blocked"
        BY <1>0, <1>5 DEF Mishap, Drop, Block, Download
    <2>3. WorldFits'
        BY <1>0, <2>1, <2>2 DEF WorldFits
    <2> QED
        BY <2>1, <2>3, QuietLine
<1>6. CASE Fail
    <2>1. /\ UNCHANGED <<hour, file, library, hosted, asked, keyed>>
          /\ job.queue # "out" /\ Happens("download_failed")
          /\ job'.id = job.id /\ job'.progress = job.progress /\ job'.since = job.since
          /\ job'.at = "gone" /\ job'.queue = "out"
        BY <1>0, <1>6 DEF Fail, Elsewhere, givenVars, Download
    <2>2. ~file /\ job.id # 0
        BY <2>1 DEF WorldFits, OnlyPast
    <2>3. WorldFits'
        BY <2>1, <2>2 DEF WorldFits
    <2>4. LineFits(timeline)'
        <3>1. file' = ("download_failed" = "imported")
            BY <2>1, <2>2 DEF TypeOK
        <3> QED
            BY <1>0, <2>1, <2>2, <3>1, RecordedLine DEF Recorded
    <2> QED
        BY <2>3, <2>4
<1>7. CASE Import
    <2>1. /\ UNCHANGED <<hour, library, hosted, asked, keyed>>
          /\ job.queue # "out" /\ Happens("imported") /\ file' = TRUE
          /\ job'.id = job.id /\ job'.progress = job.progress /\ job'.since = job.since
          /\ job'.queue = "out"
        BY <1>0, <1>7 DEF Import, Elsewhere, givenVars, Download
    <2>2. ~file /\ job.id # 0 /\ job.at # "gone"
        BY <2>1 DEF WorldFits, OnlyPast
    <2>3. WorldFits'
        BY <2>1, <2>2 DEF WorldFits
    <2>4. LineFits(timeline)'
        <3>1. file' = ("imported" = "imported")
            BY <2>1
        <3> QED
            BY <1>0, <2>1, <2>2, <3>1, RecordedLine DEF Recorded
    <2> QED
        BY <2>3, <2>4
<1> QED
    BY <1>1, <1>2, <1>3, <1>4, <1>5, <1>6, <1>7 DEF World

-----------------------------------------------------------------------------
(* The stages and the timeline                                             *)

\* The three kinds of events that Sleutharr makes itself are events and plausible.
LEMMA OwnEvents ==
  ASSUME TypeOK, OnlyPast, WorldFits
  PROVE  /\ job.queue # "out" =>
              /\ BlockedRow \in Event /\ Plausible(BlockedRow)
              /\ BlockedRow.source = "queue" /\ BlockedRow.id = job.id
         /\ job.at # "gone" =>
              Sample \in Event /\ Plausible(Sample) /\ Sample.source = "client"
         /\ \A m \in Players, type \in Sighted \cup {"missing"} :
              /\ Sighting(m, type) \in Event
              /\ Sighting(m, type).source = m /\ Sighting(m, type).type = type
              /\ Sighting(m, type).id = 0
              /\ hosted /\ (m = "plex" /\ type = "path_mismatch" => keyed) =>
                   Plausible(Sighting(m, type))
<1>0. /\ hour \in 0 .. MaxHours /\ job.progress \in 0 .. Full /\ job.id \in 0 .. MaxDownloads
      /\ job.since \in 0 .. MaxHours /\ 0 \in 0 .. MaxHours /\ 0 \in 0 .. Full
      /\ 0 \in 0 .. MaxDownloads
    BY Bounds DEF TypeOK, Download
<1>1. ASSUME job.queue # "out"
      PROVE  /\ BlockedRow \in Event /\ Plausible(BlockedRow)
             /\ BlockedRow.source = "queue" /\ BlockedRow.id = job.id
    <2>1. job.id \in 1 .. job.id /\ ~hosted
        BY <1>0, <1>1, Bounds DEF OnlyPast, WorldFits
    <2>2. /\ BlockedRow.source = "queue" /\ BlockedRow.id = job.id /\ BlockedRow.hour = 0
          /\ BlockedRow.type = "import_blocked" /\ BlockedRow.known = TRUE
        BY DEF BlockedRow
    <2>3. BlockedRow \in Event
        BY <1>0 DEF BlockedRow, Event
    <2>4. 0 <= hour
        BY <1>0, Bounds
    <2> QED
        BY <2>1, <2>2, <2>3, <2>4 DEF Plausible, Players
<1>2. ASSUME job.at # "gone"
      PROVE  Sample \in Event /\ Plausible(Sample) /\ Sample.source = "client"
    <2>1. job.id \in 1 .. job.id /\ ~hosted
        BY <1>0, <1>2, Bounds DEF OnlyPast, WorldFits
    <2>2. /\ Sample.source = "client" /\ Sample.id = job.id /\ Sample.hour = hour
          /\ Sample.type = (IF job.at = "errored" THEN "download_failed" ELSE "download_progress")
          /\ Sample.known = TRUE /\ Sample.facts = Facts /\ Sample.progress = job.progress
        BY DEF Sample
    <2>3. Facts \subseteq Readings /\ Facts # {} /\ ("errored" \in Facts => job.at = "errored")
        BY DEF Facts, Readings
    <2>4. Sample \in Event
        BY <1>0, <2>3 DEF Sample, Event, Recorded
    <2>5. hour <= hour /\ job.progress <= job.progress /\ job.since <= hour
        BY <1>0, Bounds DEF WorldFits
    <2> HIDE DEF Sample, Facts
    <2> QED
        BY <2>1, <2>2, <2>3, <2>4, <2>5 DEF Plausible, Players
<1>3. ASSUME NEW m \in Players, NEW type \in Sighted \cup {"missing"}
      PROVE  /\ Sighting(m, type) \in Event
             /\ Sighting(m, type).source = m /\ Sighting(m, type).type = type
             /\ Sighting(m, type).id = 0
             /\ hosted /\ (m = "plex" /\ type = "path_mismatch" => keyed) =>
                  Plausible(Sighting(m, type))
    <2>1. /\ Sighting(m, type).source = m /\ Sighting(m, type).type = type
          /\ Sighting(m, type).id = 0 /\ Sighting(m, type).hour = hour
          /\ Sighting(m, type).known = TRUE
        BY DEF Sighting
    <2>2. Sighting(m, type) \in Event
        BY <1>0 DEF Sighting, Event, Sighted, Players
    <2>3. hour <= hour /\ m \notin {"history", "queue", "client"}
        BY <1>0, Bounds DEF Players
    <2> QED
        BY <2>1, <2>2, <2>3 DEF Plausible
<1> QED
    BY <1>1, <1>2, <1>3

\* Reading the history tells Sleutharr what there is; it changes nothing else.
LEMMA HistoryFits ==
  ASSUME TypeOK, LineFits(timeline), ReadHistory
  PROVE  /\ LineFits(timeline') /\ DOMAIN timeline' = DOMAIN timeline
         /\ \A i \in DOMAIN timeline' : timeline'[i].known
         /\ \A i \in DOMAIN timeline' : /\ timeline'[i].source = timeline[i].source
                                        /\ timeline'[i].type = timeline[i].type
                                        /\ timeline'[i].id = timeline[i].id
<1>1. DOMAIN timeline' = DOMAIN timeline
    BY DEF ReadHistory
<1>2. ASSUME NEW i \in DOMAIN timeline
      PROVE  /\ timeline'[i].source = timeline[i].source /\ timeline'[i].type = timeline[i].type
             /\ timeline'[i].id = timeline[i].id /\ timeline'[i].hour = timeline[i].hour
             /\ timeline'[i].facts = timeline[i].facts
             /\ timeline'[i].progress = timeline[i].progress
             /\ timeline'[i].known = TRUE
    <2>1. timeline[i] \in Event
        BY Numbers
    <2>2. timeline'[i] = [timeline[i] EXCEPT !.known = TRUE]
        BY DEF ReadHistory
    <2> QED
        BY <2>1, <2>2 DEF Event
<1>3. \A i \in DOMAIN timeline : Plausible(timeline'[i])
    <2> SUFFICES ASSUME NEW i \in DOMAIN timeline PROVE Plausible(timeline'[i])
        OBVIOUS
    <2>1. Plausible(timeline[i])
        BY DEF LineFits
    <2> QED
        BY <1>2, <2>1 DEF Plausible
<1>4. \A type : \A i \in DOMAIN timeline : Records(timeline'[i], type) <=> Records(timeline[i], type)
    BY <1>2 DEF Records
<1>5. LineFits(timeline')
    <2>1. ASSUME NEW n \in 1 .. job.id
          PROVE  \E i \in DOMAIN timeline' : Records(timeline'[i], "grabbed") /\ timeline'[i].id = n
        <3>1. PICK i \in DOMAIN timeline : Records(timeline[i], "grabbed") /\ timeline[i].id = n
            BY DEF LineFits
        <3>2. Records(timeline'[i], "grabbed") /\ timeline'[i].id = n
            BY <1>2, <3>1 DEF Records
        <3> QED
            BY <1>1, <3>2
    <2>2. file <=> \E i \in DOMAIN timeline' : Records(timeline'[i], "imported")
        BY <1>1, <1>4 DEF LineFits
    <2>3. file => \A i \in DOMAIN timeline' : Records(timeline'[i], "download_failed") =>
                    \E j \in DOMAIN timeline' : i < j /\ Records(timeline'[j], "imported")
        BY <1>1, <1>4 DEF LineFits
    <2>4. \A i, j \in DOMAIN timeline' :
            timeline'[i].source \in Players /\ timeline'[i].source = timeline'[j].source
              /\ timeline'[i].type = timeline'[j].type => i = j
        BY <1>1, <1>2 DEF LineFits
    <2> QED
        BY <1>1, <1>3, <2>1, <2>2, <2>3, <2>4 DEF LineFits
<1> QED
    BY <1>1, <1>2, <1>5

\* What a media server's library adds to the timeline fits.
LEMMA LibraryFits ==
  ASSUME TypeOK, OnlyPast, LineFits(timeline), WorldFits, hosted,
         NEW m \in Players, NEW index, CheckRequest(m, index)
  PROVE  LineFits(timeline')
<1> DEFINE found    == Sighting(m, "found")
           mismatch == Sighting(m, "path_mismatch")
           missing  == Sighting(m, "missing")
<1>1. /\ found \in Event /\ Plausible(found) /\ found.source # "history"
      /\ mismatch \in Event /\ mismatch.source # "history"
      /\ (m = "plex" => keyed) => Plausible(mismatch)
      /\ missing \in Event /\ Plausible(missing) /\ missing.source # "history"
    <2>1. {"found", "path_mismatch", "missing"} \subseteq Sighted \cup {"missing"}
        BY DEF Sighted
    <2>2. m # "history"
        BY DEF Players
    <2> QED
        BY <2>1, <2>2, OwnEvents
<1> DEFINE settled == Without(Without(timeline, mismatch), missing)
<1>2. \/ timeline' = Refreshed(settled, found)
      \/ timeline' = Refreshed(timeline, mismatch) /\ FoundById(m)
      \/ timeline' = Refreshed(timeline, missing)
      \/ timeline' = timeline
    BY Zenon DEF CheckRequest
<1> HIDE DEF found, mismatch, missing
<1>3. settled \in Seq(Event) /\ LineFits(settled)
    BY <1>1, WithoutKeeps, WithoutFits, Numbers
<1> HIDE DEF settled
<1>4. CASE timeline' = Refreshed(settled, found)
    BY <1>1, <1>3, <1>4, RefreshedFits
<1>5. CASE timeline' = Refreshed(timeline, mismatch) /\ FoundById(m)
    BY <1>1, <1>5, RefreshedFits, Numbers DEF FoundById
<1>6. CASE timeline' = Refreshed(timeline, missing)
    BY <1>1, <1>6, RefreshedFits, Numbers
<1>7. CASE timeline' = timeline
    BY <1>7
<1> QED
    BY <1>2, <1>4, <1>5, <1>6, <1>7

\* Every stage keeps the timeline fitting, and leaves the world alone.
LEMMA CycleStep ==
  ASSUME TypeOK, OnlyPast, LineFits(timeline), WorldFits, Cycle
  PROVE  LineFits(timeline)' /\ WorldFits'
<1>1. UNCHANGED <<worldVars, givenVars>>
    BY DEF Cycle, StartCycle, SyncEntities, SyncHistory, SyncQueues, SyncDownloads, SyncMediaServer,
           DiagnoseAll, NextStage
<1>2. UNCHANGED <<hour, library, file, job, hosted, asked, keyed>>
    BY <1>1 DEF worldVars, givenVars
<1>3. WorldFits'
    BY <1>2 DEF WorldFits
<1>4. LineFits(timeline')
    <2>1. CASE UNCHANGED timeline
        BY <2>1
    <2>2. CASE ReadHistory
        BY <2>2, HistoryFits
    <2>3. CASE IngestQueueRows
        <3>1. CASE UNCHANGED <<timeline, refs>>
            BY <3>1
        <3>2. CASE /\ job.queue # "out"
                   /\ timeline' \in {Without(timeline, BlockedRow), Refreshed(timeline, BlockedRow)}
            <4>1. BlockedRow \in Event /\ Plausible(BlockedRow) /\ BlockedRow.source # "history"
                BY <3>2, OwnEvents
            <4> QED
                BY <3>2, <4>1, WithoutFits, RefreshedFits, Numbers
        <3> QED
            BY <2>3, <3>1, <3>2, Zenon DEF IngestQueueRows
    <2>4. CASE RecordItem
        <3>1. CASE UNCHANGED timeline
            BY <3>1
        <3>2. CASE job.at # "gone" /\ timeline' = Refreshed(timeline, Sample)
            <4>1. Sample \in Event /\ Plausible(Sample) /\ Sample.source # "history"
                BY <3>2, OwnEvents
            <4> QED
                BY <3>2, <4>1, RefreshedFits, Numbers
        <3> QED
            BY <2>4, <3>1, <3>2, Zenon DEF RecordItem
    <2>5. ASSUME NEW m \in Players, SyncMediaServer(m)
          PROVE  LineFits(timeline')
        <3>1. \/ UNCHANGED timeline
              \/ hosted /\ \E index : CheckRequest(m, index)
            BY <2>5, Zenon DEF SyncMediaServer, NothingToAsk, Skips, Fails, BreaksOff, ReadsInPart,
                               ReadLibrary, Candidate
        <3> QED
            BY <3>1, <2>1, LibraryFits
    <2> QED
        BY <2>1, <2>2, <2>3, <2>4, <2>5, Zenon
        DEF Cycle, StartCycle, SyncEntities, SyncHistory, SyncQueues, SyncDownloads, DiagnoseAll,
            Skips, Fails, NothingToAsk, keptVars
<1> QED
    BY <1>2, <1>3, <1>4, LineStays

\* So do the clock and a backoff that passes.
LEMMA ClockStep ==
  ASSUME TypeOK, LineFits(timeline), WorldFits, HourPasses \/ \E s \in Servers : BackoffPasses(s)
  PROVE  LineFits(timeline)' /\ WorldFits'
<1>1. /\ UNCHANGED <<timeline, library, file, job, hosted, asked, keyed>>
      /\ hour' \in {hour, hour + 1}
    BY DEF HourPasses, BackoffPasses, worldVars, givenVars
<1>2. WorldFits'
    BY <1>1, Numbers DEF WorldFits
<1>3. ASSUME NEW e, Plausible(e), e.hour \in Nat PROVE Plausible(e)'
    <2>1. e.hour <= hour'
        BY <1>1, <1>3, Numbers DEF Plausible
    <2> QED
        BY <1>1, <1>3, <2>1 DEF Plausible
<1>4. ASSUME NEW i \in DOMAIN timeline' PROVE Plausible(timeline[i])'
    <2>1. PICK e : e = timeline[i] /\ Plausible(e) /\ e.hour \in Nat /\ timeline'[i] = e
        BY <1>1, Numbers DEF LineFits
    <2> QED
        BY <1>3, <2>1 DEF Plausible
<1>5. LineFits(timeline)'
    BY <1>1, <1>4 DEF LineFits, Records
<1> QED
    BY <1>2, <1>5

\* The two beginnings fit.
LEMMA InitFits == Init => LineFits(timeline) /\ WorldFits /\ Read
<1> SUFFICES ASSUME Init PROVE LineFits(timeline) /\ WorldFits /\ Read
    OBVIOUS
<1>1. Read /\ hour = 0
    BY DEF Init, Read
<1>2. CASE JustMade
    <2>1. /\ file = FALSE /\ job.id = 0 /\ job.at = "gone" /\ job.queue = "out" /\ job.since = 0
          /\ timeline = <<>> /\ hosted = FALSE /\ asked = "approved"
        BY <1>2 DEF JustMade, NoJob
    <2> QED
        BY <1>1, <2>1 DEF LineFits, WorldFits
<1>3. CASE JustImported
    <2>1. /\ file = TRUE /\ job.id = 1 /\ job.at = "gone" /\ job.queue = "out" /\ job.since = 0
          /\ timeline = <<Record("grabbed", 1), Record("imported", 1)>> /\ hosted = TRUE
          /\ library = "on"
        BY <1>3 DEF JustImported, NoJob
    <2>2. WorldFits
        BY <1>1, <2>1 DEF WorldFits
    <2>3. /\ DOMAIN timeline = {1, 2}
          /\ timeline[1] = Record("grabbed", 1) /\ timeline[2] = Record("imported", 1)
        BY <2>1
    <2>4. \A type \in {"grabbed", "imported"} :
            LET e == Record(type, 1)
            IN  /\ e.source = "history" /\ e.type = type /\ e.id = 1 /\ e.hour = 0
                /\ Plausible(e)
        <3> SUFFICES ASSUME NEW type \in {"grabbed", "imported"}
                     PROVE  LET e == Record(type, 1)
                            IN  /\ e.source = "history" /\ e.type = type /\ e.id = 1 /\ e.hour = 0
                                /\ Plausible(e)
            OBVIOUS
        <3>1. PICK e : e = Record(type, 1)
            OBVIOUS
        <3>2. e.source = "history" /\ e.type = type /\ e.id = 1 /\ e.hour = 0
            BY <3>1 DEF Record
        <3>3. Plausible(e)
            BY <1>1, <2>1, <3>2 DEF Plausible, Recorded, Players
        <3> QED
            BY <3>1, <3>2, <3>3
    <2>5. /\ Records(timeline[1], "grabbed") /\ timeline[1].id = 1
          /\ Records(timeline[2], "imported")
          /\ \A i \in {1, 2} : /\ ~Records(timeline[i], "download_failed")
                               /\ timeline[i].source \notin Players /\ Plausible(timeline[i])
        BY <2>3, <2>4 DEF Records, Players
    <2>6. 1 .. job.id = {1}
        BY <2>1
    <2>7. LineFits(timeline)
        BY <2>1, <2>3, <2>5, <2>6 DEF LineFits
    <2> QED
        BY <1>1, <2>2, <2>7
<1> QED
    BY <1>1, <1>2, <1>3 DEF Init

-----------------------------------------------------------------------------
(* The stages and what they read                                           *)

\* A rewritten event is the last one; the others stay.
LEMMA RefreshedKeeps ==
  ASSUME NEW s \in Seq(Event), NEW e \in Event, NEW r, r = Refreshed(s, e)
  PROVE  /\ r \in Seq(Event) /\ r # <<>> /\ Len(r) \in DOMAIN r /\ r[Len(r)] = e
         /\ \A j \in DOMAIN r : r[j] = e \/ \E i \in DOMAIN s : r[j] = s[i]
         /\ \A i \in DOMAIN s : ~SameKey(e, s[i]) => \E j \in DOMAIN r : r[j] = s[i]
<1> DEFINE w == Without(s, e)
<1>1. /\ w \in Seq(Event)
      /\ \A j \in DOMAIN w : \E i \in DOMAIN s : w[j] = s[i]
      /\ \A i \in DOMAIN s : ~SameKey(e, s[i]) => \E j \in DOMAIN w : w[j] = s[i]
    BY WithoutKeeps
<1>2. r = Append(w, e)
    BY DEF Refreshed
<1> HIDE DEF w
<1>3. /\ r \in Seq(Event) /\ Len(w) \in Nat /\ DOMAIN w = 1 .. Len(w)
      /\ Len(r) = Len(w) + 1 /\ r[Len(w) + 1] = e
      /\ \A j \in 1 .. Len(w) : r[j] = w[j]
    BY <1>1, <1>2, AppendProperties
<1>4. /\ DOMAIN r = 1 .. Len(w) + 1 /\ r # <<>>
      /\ \A j \in DOMAIN w : j \in DOMAIN r
      /\ \A j \in DOMAIN r : j \in DOMAIN w \/ j = Len(w) + 1
    BY <1>3
<1>5. /\ Len(r) \in DOMAIN r /\ r[Len(r)] = e
      /\ \A j \in DOMAIN r : r[j] = e \/ \E i \in DOMAIN w : r[j] = w[i]
    BY <1>3, <1>4
<1>6. \A j \in DOMAIN r : r[j] = e \/ \E i \in DOMAIN s : r[j] = s[i]
    BY <1>1, <1>5
<1>7. \A i \in DOMAIN s : ~SameKey(e, s[i]) => \E j \in DOMAIN r : r[j] = s[i]
    BY <1>1, <1>3, <1>4
<1> QED
    BY <1>3, <1>4, <1>5, <1>6, <1>7

\* What a steady look at media server m's library leaves behind.
LEMMA LibraryReads ==
  ASSUME TypeOK, OnlyPast, LineFits(timeline), WorldFits, hosted, ImportedPaths,
         NEW m \in Players, ReadLibrary(m, shelf[m])
  PROVE  /\ timeline' \in Seq(Event)
         /\ \A n \in Players : n \in barren' <=> IF n = m THEN shelf[m] = "empty" ELSE n \in barren
         /\ shelf[m] # "empty" => row'.found = (IF Has(m) THEN "yes" ELSE "no")
         /\ shelf[m] = "empty" => UNCHANGED <<row, timeline>>
         /\ shelf[m] = "holds" =>
              /\ timeline' # <<>> /\ timeline'[Len(timeline')] = Sighting(m, "found")
              /\ \A i \in DOMAIN timeline' : timeline'[i].source = m => timeline'[i].type = "found"
         /\ shelf[m] = "elsewhere" /\ FoundById(m) =>
              \E i \in DOMAIN timeline' : timeline'[i].source = m /\ timeline'[i].type = "path_mismatch"
         /\ \A i \in DOMAIN timeline : timeline[i].source # m =>
              \E j \in DOMAIN timeline' : timeline'[j] = timeline[i]
         /\ \A j \in DOMAIN timeline' :
              \/ timeline'[j].source = m /\ timeline'[j].known
              \/ \E i \in DOMAIN timeline : timeline'[j] = timeline[i]
<1> DEFINE found    == Sighting(m, "found")
           mismatch == Sighting(m, "path_mismatch")
           missing  == Sighting(m, "missing")
           settled  == Without(Without(timeline, mismatch), missing)
           match    == ImportedPaths /\ shelf[m] = "holds"
<1>0. timeline \in Seq(Event) /\ row \in Row /\ barren \subseteq Players /\ shelf \in [Players -> Shelves]
    BY DEF TypeOK
<1>1. /\ found \in Event /\ mismatch \in Event /\ missing \in Event
      /\ found.source = m /\ mismatch.source = m /\ missing.source = m
      /\ found.type = "found" /\ mismatch.type = "path_mismatch" /\ missing.type = "missing"
      /\ found.id = 0 /\ mismatch.id = 0 /\ missing.id = 0
      /\ found.known /\ mismatch.known /\ missing.known
    <2>1. {"found", "path_mismatch", "missing"} \subseteq Sighted \cup {"missing"}
        BY DEF Sighted
    <2>2. found.known /\ mismatch.known /\ missing.known
        BY DEF Sighting
    <2> QED
        BY <2>1, <2>2, OwnEvents
<1>2. \A n \in Players : n \in barren' <=> IF n = m THEN shelf[m] = "empty" ELSE n \in barren
    BY DEF ReadLibrary, RecordLibraryState
<1>3. shelf[m] = "empty" => UNCHANGED <<row, timeline>>
    BY DEF ReadLibrary
<1>4. ASSUME shelf[m] # "empty"
      PROVE  /\ row' = [row EXCEPT !.found = IF match \/ FoundById(m) THEN "yes" ELSE "no"]
             /\ timeline' = IF match THEN Refreshed(settled, found)
                            ELSE IF FoundById(m) THEN Refreshed(timeline, mismatch)
                            ELSE IF ImportedPaths THEN Refreshed(timeline, missing) ELSE timeline
    BY <1>4, Zenon DEF ReadLibrary, CheckRequest
<1>5. ASSUME shelf[m] # "empty" PROVE row'.found = (IF Has(m) THEN "yes" ELSE "no")
    <2>1. match \/ FoundById(m) <=> Has(m)
        BY DEF Has
    <2> QED
        BY <1>0, <1>4, <1>5, <2>1 DEF Row
<1>6. \A e : e.source = m /\ (e.source \notin {"client"}) => \A i \in DOMAIN timeline :
               timeline[i].source # m => ~SameKey(e, timeline[i])
    BY DEF SameKey
<1>7. m # "client" /\ m # "history"
    BY DEF Players
<1> DEFINE part == Without(timeline, mismatch)
<1> HIDE DEF found, mismatch, missing
<1>8. /\ part \in Seq(Event) /\ LineFits(part)
      /\ \A j \in DOMAIN part : \E i \in DOMAIN timeline : part[j] = timeline[i]
      /\ \A i \in DOMAIN timeline : timeline[i].source # m =>
           \E j \in DOMAIN part : part[j] = timeline[i]
    <2>1. \A i \in DOMAIN timeline : timeline[i].source # m => ~SameKey(mismatch, timeline[i])
        BY <1>1 DEF SameKey
    <2> QED
        <3>1. LineFits(part)
            BY <1>0, <1>1, <1>7, WithoutFits
        <3>2. /\ part \in Seq(Event)
              /\ \A j \in DOMAIN part : \E i \in DOMAIN timeline : part[j] = timeline[i]
              /\ \A i \in DOMAIN timeline : ~SameKey(mismatch, timeline[i]) =>
                   \E j \in DOMAIN part : part[j] = timeline[i]
            BY <1>0, WithoutKeeps
        <3> QED
            BY <2>1, <3>1, <3>2
<1>9. \A j \in DOMAIN part : ~(part[j].source = m /\ part[j].type = "path_mismatch")
    BY <1>0, <1>1, WithoutLeavesNone
<1>10. settled = Without(part, missing)
    OBVIOUS
<1> HIDE DEF part, settled
<1>11. /\ settled \in Seq(Event) /\ LineFits(settled)
       /\ \A j \in DOMAIN settled : \E i \in DOMAIN part : settled[j] = part[i]
       /\ \A i \in DOMAIN part : part[i].source # m =>
            \E j \in DOMAIN settled : settled[j] = part[i]
    <2>1. \A i \in DOMAIN part : part[i].source # m => ~SameKey(missing, part[i])
        BY <1>1 DEF SameKey
    <2> QED
        <3>1. LineFits(settled)
            BY <1>1, <1>7, <1>8, <1>10, WithoutFits
        <3>2. /\ settled \in Seq(Event)
              /\ \A j \in DOMAIN settled : \E i \in DOMAIN part : settled[j] = part[i]
              /\ \A i \in DOMAIN part : ~SameKey(missing, part[i]) =>
                   \E j \in DOMAIN settled : settled[j] = part[i]
            BY <1>8, <1>10, WithoutKeeps
        <3> QED
            BY <2>1, <3>1, <3>2
<1>12. \A j \in DOMAIN settled : ~(settled[j].source = m /\ settled[j].type = "missing")
    BY <1>1, <1>8, <1>10, WithoutLeavesNone
<1>13. \A j \in DOMAIN settled : settled[j].source = m => settled[j].type = "found"
    <2> SUFFICES ASSUME NEW j \in DOMAIN settled, settled[j].source = m
                 PROVE  settled[j].type = "found"
        OBVIOUS
    <2>1. settled[j].type \in Sighted \cup {"missing"}
        BY <1>11 DEF LineFits, Plausible
    <2>2. settled[j].type # "path_mismatch"
        BY <1>9, <1>11
    <2> QED
        BY <1>12, <2>1, <2>2 DEF Sighted
<1>14. CASE shelf[m] = "empty"
    BY <1>0, <1>2, <1>3, <1>14
<1>15. CASE shelf[m] = "holds"
    <2>1. timeline' = Refreshed(settled, found)
        BY <1>4, <1>15
    <2>2. /\ timeline' \in Seq(Event) /\ timeline' # <<>> /\ timeline'[Len(timeline')] = found
          /\ \A j \in DOMAIN timeline' : timeline'[j] = found \/ \E i \in DOMAIN settled : timeline'[j] = settled[i]
          /\ \A i \in DOMAIN settled : ~SameKey(found, settled[i]) =>
               \E j \in DOMAIN timeline' : timeline'[j] = settled[i]
        <3>1. found \in Event /\ settled \in Seq(Event)
            BY <1>1, <1>11
        <3>2. /\ timeline' \in Seq(Event) /\ timeline' # <<>> /\ timeline'[Len(timeline')] = found
              /\ \A j \in DOMAIN timeline' :
                   timeline'[j] = found \/ \E i \in DOMAIN settled : timeline'[j] = settled[i]
            BY <2>1, <3>1, RefreshedKeeps
        <3>3. \A i \in DOMAIN settled : ~SameKey(found, settled[i]) =>
                   \E j \in DOMAIN timeline' : timeline'[j] = settled[i]
            BY <2>1, <3>1, RefreshedKeeps
        <3> QED
            BY <3>2, <3>3
    <2>3. \A i \in DOMAIN timeline' : timeline'[i].source = m => timeline'[i].type = "found"
        BY <1>1, <1>13, <2>2
    <2>4. \A i \in DOMAIN timeline : timeline[i].source # m =>
            \E j \in DOMAIN timeline' : timeline'[j] = timeline[i]
        <3> SUFFICES ASSUME NEW i \in DOMAIN timeline, timeline[i].source # m
                     PROVE  \E j \in DOMAIN timeline' : timeline'[j] = timeline[i]
            OBVIOUS
        <3>1. PICK k \in DOMAIN settled : settled[k] = timeline[i]
            BY <1>8, <1>11
        <3>2. ~SameKey(found, settled[k])
            BY <1>1, <3>1 DEF SameKey
        <3> QED
            BY <2>2, <3>1, <3>2
    <2>5. \A j \in DOMAIN timeline' :
              \/ timeline'[j].source = m /\ timeline'[j].known
              \/ \E i \in DOMAIN timeline : timeline'[j] = timeline[i]
        BY <1>1, <1>8, <1>11, <2>2
    <2> QED
        BY <1>2, <1>5, <1>15, <2>2, <2>3, <2>4, <2>5 DEF found
<1>16. ASSUME NEW e \in {mismatch, missing}, timeline' = Refreshed(timeline, e)
       PROVE  /\ timeline' \in Seq(Event)
              /\ \E i \in DOMAIN timeline' : timeline'[i] = e
              /\ \A i \in DOMAIN timeline : timeline[i].source # m =>
                   \E j \in DOMAIN timeline' : timeline'[j] = timeline[i]
              /\ \A j \in DOMAIN timeline' :
                   \/ timeline'[j].source = m /\ timeline'[j].known
                   \/ \E i \in DOMAIN timeline : timeline'[j] = timeline[i]
    <2>1. e \in Event /\ e.source = m /\ e.known
        BY <1>1
    <2>2. \A i \in DOMAIN timeline : timeline[i].source # m => ~SameKey(e, timeline[i])
        BY <2>1 DEF SameKey
    <2> QED
        <3>1. /\ timeline' \in Seq(Event)
              /\ Len(timeline') \in DOMAIN timeline' /\ timeline'[Len(timeline')] = e
              /\ \A j \in DOMAIN timeline' : timeline'[j] = e \/ \E i \in DOMAIN timeline : timeline'[j] = timeline[i]
              /\ \A i \in DOMAIN timeline : ~SameKey(e, timeline[i]) =>
                   \E j \in DOMAIN timeline' : timeline'[j] = timeline[i]
            <4>1. e \in Event /\ timeline \in Seq(Event)
                BY <1>0, <2>1
            <4>2. /\ timeline' \in Seq(Event)
                  /\ Len(timeline') \in DOMAIN timeline' /\ timeline'[Len(timeline')] = e
                  /\ \A j \in DOMAIN timeline' :
                       timeline'[j] = e \/ \E i \in DOMAIN timeline : timeline'[j] = timeline[i]
                BY <1>16, <4>1, RefreshedKeeps
            <4>3. \A i \in DOMAIN timeline : ~SameKey(e, timeline[i]) =>
                    \E j \in DOMAIN timeline' : timeline'[j] = timeline[i]
                BY <1>16, <4>1, RefreshedKeeps
            <4> QED
                BY <4>2, <4>3
        <3> QED
            BY <2>1, <2>2, <3>1
<1>17. CASE shelf[m] \notin {"empty", "holds"} /\ FoundById(m)
    <2>1. timeline' = Refreshed(timeline, mismatch)
        BY <1>4, <1>17
    <2> QED
        BY <1>1, <1>2, <1>5, <1>16, <1>17, <2>1
<1>18. CASE shelf[m] \notin {"empty", "holds"} /\ ~FoundById(m)
    <2>1. timeline' = Refreshed(timeline, missing)
        BY <1>4, <1>18
    <2> QED
        BY <1>1, <1>2, <1>5, <1>16, <1>18, <2>1
<1> QED
    BY <1>14, <1>15, <1>17, <1>18

\* A service that answers is heard, and nothing else is heard of; the cycle is steady if it was.
LEMMA SteadyCall ==
  ASSUME TypeOK, NEW s \in Servers, steady'
  PROVE  /\ ~Skips(s) /\ ~Fails(s)
         /\ Succeeds(s) => /\ steady /\ health'[s] = "fine"
                           /\ \A n \in Servers : health[n] = "fine" => health'[n] = "fine"
<1>1. ~Skips(s) /\ ~Fails(s)
    BY DEF Skips, Fails
<1>2. health \in [Servers -> {"silent", "fine", "failing", "backedOff"}]
    BY DEF TypeOK
<1>3. Succeeds(s) => steady = steady' /\ health' = [health EXCEPT ![s] = "fine"]
    BY DEF Succeeds
<1> QED
    BY <1>1, <1>2, <1>3

\* What was read stays read while nothing is.
LEMMA ReadStays ==
  ASSUME Read, steady' => steady,
         UNCHANGED <<worldVars, givenVars, row, timeline, refs, barren, stage>>,
         \A s \in Servers : health[s] = "fine" => health'[s] = "fine"
  PROVE  Read'
<1> SUFFICES ASSUME steady' PROVE Read'
    BY DEF Read
<1>1. UNCHANGED <<hour, library, hunt, file, job, shelf, hosted, asked, keyed>>
    BY DEF worldVars, givenVars
<1>2. \A m \in Players : /\ Has(m)' = Has(m) /\ FoundById(m)' = FoundById(m)
                         /\ Sighting(m, "found")' = Sighting(m, "found")
    BY <1>1 DEF Has, FoundById, Sighting
<1>3. Speakers' = Speakers /\ Sample' = Sample
    BY <1>1 DEF Speakers, Sample, Facts
<1>4. EntityRead' /\ HistoryRead' /\ QueueRead'
    BY <1>1 DEF Read, EntityRead, HistoryRead, QueueRead
<1>5. ClientRead'
    BY <1>1, <1>3 DEF Read, ClientRead, Servers
<1>6. ASSUME NEW m \in Players PROVE LibraryRead(m)'
    BY <1>1, <1>2, <1>6 DEF Read, LibraryRead, Servers
<1>7. LastWord'
    BY <1>1, <1>2, <1>3 DEF Read, LastWord, Word, Players
<1> QED
    BY <1>4, <1>5, <1>6, <1>7 DEF Read

\* The first three stages leave behind what the rules need to know of Radarr.
LEMMA ReadRadarr ==
  ASSUME IInv, LineFits(timeline), WorldFits, Read, steady',
         SyncEntities \/ SyncHistory \/ SyncQueues
  PROVE  EntityRead' /\ HistoryRead' /\ QueueRead' /\ steady
<1>0. /\ TypeOK /\ OnlyPast /\ "radarr" \in Servers
      /\ UNCHANGED <<hour, library, hunt, file, job, shelf, hosted, asked, keyed>>
      /\ timeline \in Seq(Event) /\ row \in Row /\ refs \subseteq 1 .. job.id /\ job.id \in Nat
    BY Numbers DEF IInv, TypeOK, Servers, SyncEntities, SyncHistory, SyncQueues, NextStage,
                   worldVars, givenVars
<1> DEFINE call == /\ ~Skips("radarr") /\ ~Fails("radarr") /\ (Succeeds("radarr") => steady)
<1>1. call
    BY <1>0, SteadyCall
<1>2. CASE SyncEntities
    <2>1. stage' = 2 /\ ReadEntity /\ steady
        <3>1. stage' = 2
            BY <1>2 DEF SyncEntities, NextStage
        <3>2. ReadEntity /\ steady
            BY <1>1, <1>2, Zenon DEF SyncEntities
        <3> QED
            BY <3>1, <3>2
    <2>2. EntityRead'
        BY <1>0, <2>1 DEF EntityRead, ReadEntity
    <2> QED
        BY <2>1, <2>2 DEF HistoryRead, QueueRead
<1>3. CASE SyncHistory
    <2>1. stage = 2 /\ stage' = 3 /\ UNCHANGED row /\ steady /\ (row.inArr => ReadHistory)
        <3>1. stage = 2 /\ stage' = 3
            BY <1>3 DEF SyncHistory, NextStage
        <3>2. UNCHANGED row /\ steady /\ (row.inArr => ReadHistory)
            BY <1>1, <1>3, Zenon DEF SyncHistory, NothingToAsk
        <3> QED
            BY <3>1, <3>2
    <2>2. EntityRead'
        BY <1>0, <2>1 DEF Read, EntityRead
    <2>3. HistoryRead'
        <3> SUFFICES ASSUME row.inArr
                     PROVE  1 .. job.id \subseteq refs' /\ \A i \in DOMAIN timeline' : timeline'[i].known
            BY <1>0, <2>1 DEF HistoryRead
        <3>1. ReadHistory
            BY <2>1
        <3>2. ASSUME NEW n \in 1 .. job.id PROVE n \in refs'
            <4>1. PICK i \in DOMAIN timeline : timeline[i].id = n
                BY DEF LineFits
            <4>2. timeline[i] \in ToSet(timeline) /\ n # 0
                BY <1>0, <4>1 DEF ToSet
            <4> QED
                BY <3>1, <4>1, <4>2 DEF ReadHistory
        <3> QED
            BY <1>0, <3>1, <3>2, HistoryFits
    <2> QED
        BY <2>1, <2>2, <2>3 DEF QueueRead
<1>4. CASE SyncQueues
    <2>1. stage = 3 /\ stage' = 4 /\ UNCHANGED row /\ steady /\ IngestQueueRows
        <3>1. stage = 3 /\ stage' = 4
            BY <1>4 DEF SyncQueues, NextStage
        <3>2. UNCHANGED row /\ steady /\ IngestQueueRows
            BY <1>1, <1>4, Zenon DEF SyncQueues
        <3> QED
            BY <3>1, <3>2
    <2>2. EntityRead'
        BY <1>0, <2>1 DEF Read, EntityRead
    <2>3. row.inArr => /\ 1 .. job.id \subseteq refs
                       /\ \A i \in DOMAIN timeline : timeline[i].known
        BY <2>1 DEF Read, HistoryRead
    <2>4. CASE ~row.inArr
        BY <2>1, <2>2, <2>4 DEF HistoryRead, QueueRead
    <2>5. CASE row.inArr /\ job.queue = "out"
        <3>1. UNCHANGED <<timeline, refs>>
            BY <2>1, <2>5 DEF IngestQueueRows
        <3>2. HistoryRead' /\ QueueRead'
            BY <1>0, <2>3, <2>5, <3>1 DEF HistoryRead, QueueRead
        <3> QED
            BY <2>1, <2>2, <3>2
    <2>6. CASE row.inArr /\ job.queue # "out"
        <3>0. /\ BlockedRow \in Event /\ BlockedRow.source = "queue" /\ BlockedRow.id = job.id
              /\ BlockedRow.known
            BY <1>0, <2>6, OwnEvents DEF BlockedRow
        <3>1. /\ timeline' = (IF job.queue = "blocked" THEN Refreshed(timeline, BlockedRow)
                              ELSE Without(timeline, BlockedRow))
              /\ refs \subseteq refs'
            BY <2>1, <2>6 DEF IngestQueueRows
        <3> HIDE DEF BlockedRow
        <3>2. CASE job.queue = "blocked"
            <4>1. /\ Len(timeline') \in DOMAIN timeline' /\ timeline'[Len(timeline')] = BlockedRow
                  /\ \A j \in DOMAIN timeline' :
                       timeline'[j] = BlockedRow \/ \E i \in DOMAIN timeline : timeline'[j] = timeline[i]
                BY <1>0, <3>0, <3>1, <3>2, RefreshedKeeps
            <4>2. \A j \in DOMAIN timeline' : timeline'[j].known
                BY <2>3, <2>6, <3>0, <4>1
            <4>3. HistoryRead' /\ QueueRead'
                BY <1>0, <2>3, <2>6, <3>0, <3>1, <4>1, <4>2 DEF HistoryRead, QueueRead
            <4> QED
                BY <2>1, <2>2, <4>3
        <3>3. CASE job.queue # "blocked"
            <4>1. \A j \in DOMAIN timeline' : \E i \in DOMAIN timeline : timeline'[j] = timeline[i]
                BY <1>0, <3>1, <3>3, WithoutKeeps
            <4>2. HistoryRead' /\ QueueRead'
                BY <1>0, <2>3, <2>6, <3>1, <3>3, <4>1 DEF HistoryRead, QueueRead
            <4> QED
                BY <2>1, <2>2, <4>2
        <3> QED
            BY <3>2, <3>3
    <2> QED
        BY <2>4, <2>5, <2>6
<1> QED
    BY <1>2, <1>3, <1>4

\* The fourth, what the rules need to know of the download, which is what was written last.
LEMMA ReadClient ==
  ASSUME IInv, LineFits(timeline), WorldFits, Read, steady', SyncDownloads
  PROVE  EntityRead' /\ HistoryRead' /\ QueueRead' /\ ClientRead' /\ steady
<1>0. /\ TypeOK /\ OnlyPast /\ "client" \in Servers
      /\ UNCHANGED <<hour, library, hunt, file, job, shelf, hosted, asked, keyed>>
      /\ timeline \in Seq(Event) /\ row \in Row /\ refs \subseteq 1 .. job.id /\ job.id \in Nat
      /\ stage = 4 /\ stage' = 5
    BY Numbers DEF IInv, TypeOK, Servers, SyncDownloads, NextStage, worldVars, givenVars
<1>1. /\ ~Skips("client") /\ ~Fails("client")
      /\ Succeeds("client") => steady /\ health'["client"] = "fine"
    BY <1>0, SteadyCall
<1>2. /\ UNCHANGED <<row, refs>> /\ steady
      /\ \/ refs = {} /\ UNCHANGED timeline
         \/ health'["client"] = "fine" /\ RecordItem
    BY <1>1, Zenon DEF SyncDownloads, NothingToAsk
<1>3. EntityRead'
    BY <1>0, <1>2 DEF Read, EntityRead
<1>4. row.inArr => 1 .. job.id \subseteq refs /\ \A i \in DOMAIN timeline : timeline[i].known
    BY <1>0, <1>2 DEF Read, HistoryRead
<1>5. row.inArr /\ job.queue = "blocked" =>
        \E i \in DOMAIN timeline : timeline[i].source = "queue" /\ timeline[i].id = job.id
    BY <1>0, <1>2 DEF Read, QueueRead
<1>6. CASE ~row.inArr
    BY <1>2, <1>3, <1>6 DEF HistoryRead, QueueRead, ClientRead
<1>7. CASE row.inArr /\ (refs = {} \/ job.at = "gone" \/ job.id \notin refs) /\ UNCHANGED timeline
    <2>1. HistoryRead' /\ QueueRead'
        BY <1>0, <1>2, <1>4, <1>5, <1>7 DEF HistoryRead, QueueRead
    <2>2. ClientRead'
        <3> SUFFICES ASSUME job.id # 0 PROVE health'["client"] = "fine" /\ job.at = "gone"
            BY <1>0 DEF ClientRead
        <3>1. job.id \in refs
            BY <1>0, <1>4, <1>7
        <3> QED
            BY <1>2, <1>7, <3>1
    <2> QED
        BY <1>2, <1>3, <2>1, <2>2
<1>8. CASE row.inArr /\ job.at # "gone" /\ timeline' = Refreshed(timeline, Sample)
    <2>1. Sample \in Event /\ Sample.source = "client" /\ Sample.known
        BY <1>0, <1>8, OwnEvents DEF Sample
    <2>2. Sample' = Sample
        BY <1>0 DEF Sample, Facts
    <2> HIDE DEF Sample
    <2>3. /\ timeline' # <<>> /\ timeline'[Len(timeline')] = Sample
          /\ \A j \in DOMAIN timeline' :
               timeline'[j] = Sample \/ \E i \in DOMAIN timeline : timeline'[j] = timeline[i]
        BY <1>0, <1>8, <2>1, RefreshedKeeps
    <2>4. \A i \in DOMAIN timeline : ~SameKey(Sample, timeline[i]) =>
            \E j \in DOMAIN timeline' : timeline'[j] = timeline[i]
        BY <1>0, <1>8, <2>1, RefreshedKeeps
    <2>5. HistoryRead'
        BY <1>0, <1>2, <1>4, <1>8, <2>1, <2>3 DEF HistoryRead
    <2>6. QueueRead'
        <3> SUFFICES ASSUME job.queue = "blocked"
                     PROVE  \E j \in DOMAIN timeline' :
                              timeline'[j].source = "queue" /\ timeline'[j].id = job.id
            BY <1>0 DEF QueueRead
        <3>1. PICK i \in DOMAIN timeline : timeline[i].source = "queue" /\ timeline[i].id = job.id
            BY <1>5, <1>8
        <3>2. ~SameKey(Sample, timeline[i])
            BY <2>1, <3>1 DEF SameKey
        <3> QED
            BY <2>4, <3>1, <3>2
    <2>7. health'["client"] = "fine"
        <3>1. job.id # 0
            BY <1>0, <1>8 DEF OnlyPast
        <3>2. refs # {}
            BY <1>0, <1>4, <1>8, <3>1
        <3> QED
            BY <1>2, <3>2
    <2>8. ClientRead'
        BY <2>2, <2>3, <2>7 DEF ClientRead
    <2> QED
        BY <1>2, <1>3, <2>5, <2>6, <2>8
<1> QED
    BY <1>2, <1>6, <1>7, <1>8, Zenon DEF RecordItem

\* The last two, what the rules need to know of the libraries.
LEMMA ReadPlayer ==
  ASSUME IInv, LineFits(timeline), WorldFits, Read, steady', NEW m \in Players, SyncMediaServer(m)
  PROVE  Read'
<1>0. /\ TypeOK /\ OnlyPast /\ m \in Servers /\ "client" \in Servers /\ m # "client"
      /\ UNCHANGED <<hour, library, hunt, file, job, shelf, hosted, asked, keyed>>
      /\ stage = (IF m = "plex" THEN 5 ELSE 6) /\ stage' = (IF m = "plex" THEN 6 ELSE 7)
      /\ row \in Row
    BY DEF IInv, TypeOK, Servers, Players, SyncMediaServer, NextStage, worldVars, givenVars
<1>1. /\ ~Skips(m) /\ ~Fails(m) /\ ~BreaksOff(m) /\ ~ReadsInPart(m)
      /\ Succeeds(m) => /\ steady /\ health'[m] = "fine"
                        /\ \A n \in Servers : health[n] = "fine" => health'[n] = "fine"
    BY <1>0, SteadyCall DEF BreaksOff, ReadsInPart
<1>2. \/ ~Candidate /\ NothingToAsk
      \/ Candidate /\ Succeeds(m) /\ ReadLibrary(m, shelf[m]) /\ UNCHANGED refs
    BY <1>1, Zenon DEF SyncMediaServer
<1>3. steady
    BY <1>1, <1>2, Zenon DEF NothingToAsk
<1>4. EntityRead /\ HistoryRead /\ QueueRead /\ ClientRead /\ LastWord
    BY <1>3 DEF Read
<1>5. \A n \in Players : LibraryRead(n)
    BY <1>3 DEF Read
<1>6. /\ \A n \in Players : /\ Has(n)' = Has(n) /\ FoundById(n)' = FoundById(n)
                            /\ Sighting(n, "found")' = Sighting(n, "found")
      /\ Speakers' = Speakers /\ Sample' = Sample
    BY <1>0 DEF Has, FoundById, Sighting, Speakers, Sample, Facts
<1>7. CASE ~hosted
    <2>1. UNCHANGED <<row, health, timeline, refs>>
        BY <1>2, <1>7 DEF Candidate, NothingToAsk
    <2>2. EntityRead' /\ HistoryRead' /\ QueueRead' /\ ClientRead'
        BY <1>0, <1>4, <1>6, <2>1 DEF EntityRead, HistoryRead, QueueRead, ClientRead
    <2>3. LastWord' /\ \A n \in Players : LibraryRead(n)'
        BY <1>0, <1>7 DEF LastWord, LibraryRead
    <2> QED
        BY <2>2, <2>3 DEF Read
<1>8. CASE hosted
    <2>1. ImportedPaths /\ Candidate
        <3>1. library # "absent" /\ file
            BY <1>8 DEF WorldFits
        <3>2. stage >= 2
            BY <1>0
        <3>3. row.hasFile = file
            BY <1>3, <3>1, <3>2, Zenon DEF IInv, RowIsCurrent
        <3> QED
            BY <1>8, <3>1, <3>3 DEF ImportedPaths, Candidate
    <2>2. /\ Succeeds(m) /\ ReadLibrary(m, shelf[m]) /\ UNCHANGED refs
          /\ health'[m] = "fine"
          /\ \A n \in Servers : health[n] = "fine" => health'[n] = "fine"
        BY <1>1, <1>2, <2>1, Zenon
    <2>3. /\ \A n \in Players : n \in barren' <=> IF n = m THEN shelf[m] = "empty" ELSE n \in barren
          /\ shelf[m] # "empty" => row'.found = (IF Has(m) THEN "yes" ELSE "no")
          /\ shelf[m] = "empty" => UNCHANGED <<row, timeline>>
        BY <1>0, <1>8, <2>1, <2>2, LibraryReads
    <2>4. /\ shelf[m] = "holds" =>
               /\ timeline' # <<>> /\ timeline'[Len(timeline')] = Sighting(m, "found")
               /\ \A i \in DOMAIN timeline' : timeline'[i].source = m => timeline'[i].type = "found"
          /\ shelf[m] = "elsewhere" /\ FoundById(m) =>
               \E i \in DOMAIN timeline' : timeline'[i].source = m /\ timeline'[i].type = "path_mismatch"
        BY <1>0, <1>8, <2>1, <2>2, LibraryReads
    <2>5. /\ \A i \in DOMAIN timeline : timeline[i].source # m =>
               \E j \in DOMAIN timeline' : timeline'[j] = timeline[i]
          /\ \A j \in DOMAIN timeline' :
               \/ timeline'[j].source = m /\ timeline'[j].known
               \/ \E i \in DOMAIN timeline : timeline'[j] = timeline[i]
        BY <1>0, <1>8, <2>1, <2>2, LibraryReads
    <2>6. UNCHANGED <<row.inArr, row.hunt>>
        BY <1>0, <2>2 DEF ReadLibrary, CheckRequest, Row
    <2>7. job.at = "gone" /\ job.queue = "out"
        BY <1>8 DEF WorldFits
    <2>8. EntityRead'
        BY <1>0, <1>4, <2>6 DEF EntityRead
    <2>9. HistoryRead'
        BY <1>0, <1>4, <2>2, <2>5, <2>6 DEF HistoryRead
    <2>10. QueueRead' /\ ClientRead'
        BY <1>0, <1>4, <2>2, <2>6, <2>7 DEF QueueRead, ClientRead
    <2>11. ASSUME NEW n \in Players PROVE LibraryRead(n)'
        <3>1. CASE n = m
            <4>1. m \in barren' <=> shelf[m] = "empty"
                BY <2>3
            <4>2. shelf[m] = "elsewhere" /\ FoundById(m) =>
                    \E j \in DOMAIN timeline' :
                      timeline'[j].source = m /\ timeline'[j].type = "path_mismatch"
                BY <2>4
            <4>3. shelf[m] = "holds" =>
                    \A j \in DOMAIN timeline' : timeline'[j].source = m => timeline'[j].type = "found"
                BY <2>4
            <4> QED
                BY <1>0, <1>6, <2>2, <3>1, <4>1, <4>2, <4>3 DEF LibraryRead
        <3>2. CASE n # m /\ m = "plex"
            BY <1>0, <3>2 DEF LibraryRead, Players
        <3>3. CASE n # m /\ n = "plex"
            <4>1. /\ health["plex"] = "fine" /\ ("plex" \in barren <=> shelf["plex"] = "empty")
                  /\ shelf["plex"] = "holds" =>
                       \A i \in DOMAIN timeline :
                         timeline[i].source = "plex" => timeline[i].type = "found"
                  /\ shelf["plex"] = "elsewhere" /\ FoundById("plex") =>
                       \E i \in DOMAIN timeline :
                         timeline[i].source = "plex" /\ timeline[i].type = "path_mismatch"
                BY <1>0, <1>5, <1>8, <3>3 DEF LibraryRead, Players
            <4>2. health'["plex"] = "fine" /\ ("plex" \in barren' <=> shelf["plex"] = "empty")
                BY <2>2, <2>3, <3>3, <4>1 DEF Servers, Players
            <4>3. shelf["plex"] = "holds" =>
                    \A j \in DOMAIN timeline' :
                      timeline'[j].source = "plex" => timeline'[j].type = "found"
                BY <2>5, <3>3, <4>1
            <4>4. shelf["plex"] = "elsewhere" /\ FoundById("plex") =>
                    \E j \in DOMAIN timeline' :
                      timeline'[j].source = "plex" /\ timeline'[j].type = "path_mismatch"
                BY <2>5, <3>3, <4>1
            <4> QED
                BY <1>0, <1>6, <3>3, <4>2, <4>3, <4>4 DEF LibraryRead
        <3> QED
            BY <3>1, <3>2, <3>3 DEF Players
    <2>12. ASSUME shelf[m] # "empty" PROVE Word(m)'
        BY <1>0, <1>6, <2>3, <2>4, <2>12 DEF Word
    <2>13. LastWord'
        <3>1. CASE m = "plex"
            BY <1>0, <1>6, <2>12, <3>1 DEF LastWord, Speakers
        <3>2. CASE m = "jellyfin" /\ shelf[m] # "empty"
            BY <1>0, <1>6, <2>12, <3>2 DEF LastWord, Speakers, Players
        <3>3. CASE m = "jellyfin" /\ shelf[m] = "empty"
            <4>1. UNCHANGED <<row, timeline>>
                BY <2>3, <3>3
            <4>2. "plex" \in Speakers => Word("plex")'
                BY <1>0, <1>4, <1>6, <1>8, <3>3, <4>1 DEF LastWord, Word, Players
            <4>3. "jellyfin" \notin Speakers
                BY <3>3 DEF Speakers
            <4> QED
                BY <1>0, <1>6, <3>3, <4>2, <4>3 DEF LastWord
        <3> QED
            BY <3>1, <3>2, <3>3 DEF Players
    <2> QED
        BY <2>8, <2>9, <2>10, <2>11, <2>13 DEF Read
<1> QED
    BY <1>7, <1>8

\* Every step keeps what a steady cycle has read.
LEMMA ReadStep ==
  ASSUME IInv, LineFits(timeline), WorldFits, Read, [Next]_vars
  PROVE  Read'
<1>1. CASE World
    <2>1. Elsewhere
        BY <1>1, Zenon
        DEF World, EditLibrary, MoveOn, Grab, Advance, Mishap, Fail, Block, Import, Drop, Scan, Reshelve
    <2> QED
        BY <2>1 DEF Elsewhere, Read
<1>2. CASE stage' \in {0, 1}
    BY <1>2 DEF Read, EntityRead, HistoryRead, QueueRead, ClientRead, LastWord, LibraryRead
<1>3. CASE HourPasses \/ StartCycle \/ DiagnoseAll
    BY <1>2, <1>3 DEF HourPasses, StartCycle, DiagnoseAll, pollVars
<1>4. CASE \E s \in Servers : BackoffPasses(s)
    <2>1. PICK s \in Servers : BackoffPasses(s)
        BY <1>4
    <2>2. /\ UNCHANGED <<worldVars, givenVars, row, timeline, refs, barren, stage, steady>>
          /\ health[s] = "backedOff" /\ health' = [health EXCEPT ![s] = "failing"]
        BY <2>1 DEF BackoffPasses, pollVars
    <2>3. health \in [Servers -> {"silent", "fine", "failing", "backedOff"}]
        BY DEF IInv, TypeOK
    <2>4. \A n \in Servers : health[n] = "fine" => health'[n] = "fine"
        BY <2>2, <2>3
    <2>5. steady' => steady
        BY <2>2
    <2> QED
        BY <2>2, <2>4, <2>5, ReadStays
<1>5. CASE UNCHANGED vars
    <2>1. UNCHANGED <<worldVars, givenVars, row, health, timeline, refs, barren, stage, steady>>
        BY <1>5 DEF vars, keptVars, pollVars
    <2> QED
        BY <2>1, ReadStays
<1>6. CASE ~steady'
    BY <1>6 DEF Read
<1>7. CASE steady' /\ (SyncEntities \/ SyncHistory \/ SyncQueues)
    <2>1. EntityRead' /\ HistoryRead' /\ QueueRead'
        BY <1>7, ReadRadarr
    <2>2. stage' \in {2, 3, 4}
        BY <1>7 DEF SyncEntities, SyncHistory, SyncQueues, NextStage
    <2> QED
        BY <2>1, <2>2 DEF Read, ClientRead, LastWord, LibraryRead
<1>8. CASE steady' /\ SyncDownloads
    <2>1. EntityRead' /\ HistoryRead' /\ QueueRead' /\ ClientRead'
        BY <1>8, ReadClient
    <2>2. stage' = 5
        BY <1>8 DEF SyncDownloads, NextStage
    <2> QED
        BY <2>1, <2>2 DEF Read, LastWord, LibraryRead
<1>9. CASE steady' /\ \E m \in Players : SyncMediaServer(m)
    BY <1>9, ReadPlayer
<1> QED
    BY <1>1, <1>3, <1>4, <1>5, <1>6, <1>7, <1>8, <1>9, Zenon DEF Next, Cycle

\* What is there, what is known of it, and what a steady cycle has made of it.
LEMMA EvidenceHolds == Spec => []Evidence
<1>1. Init => Evidence
    BY InitEstablishes, InitFits DEF Evidence
<1>2. Evidence /\ [Next]_vars => Evidence'
    <2> SUFFICES ASSUME Evidence, [Next]_vars PROVE Evidence'
        OBVIOUS
    <2>1. /\ IInv /\ TypeOK /\ OnlyPast /\ LineFits(timeline) /\ WorldFits /\ Read
        BY DEF Evidence, IInv
    <2>2. IInv' /\ Read'
        BY <2>1, StepKeeps, ReadStep
    <2>3. LineFits(timeline)' /\ WorldFits'
        <3>1. CASE World
            BY <2>1, <3>1, WorldStep
        <3>2. CASE HourPasses \/ \E s \in Servers : BackoffPasses(s)
            BY <2>1, <3>2, ClockStep
        <3>3. CASE Cycle
            BY <2>1, <3>3, CycleStep
        <3>4. CASE UNCHANGED vars
            <4>1. UNCHANGED <<timeline, hour, library, file, job, hosted, asked, keyed>>
                BY <3>4 DEF vars, worldVars, givenVars, keptVars
            <4> QED
                BY <2>1, <4>1, LineStays DEF WorldFits
        <3> QED
            BY <3>1, <3>2, <3>3, <3>4, Zenon DEF Next
    <2> QED
        BY <2>2, <2>3 DEF Evidence
<1> QED
    BY <1>1, <1>2, PTL DEF Spec

\* Once a path resolves, no complaint of that media server about the film is left, whatever
\* the earlier cycles read of it (_check_request, mediaserver.py): each kind of complaint is
\* there at most once, and the stage that finds the file takes both out.
THEOREM ResolutionSettles == Spec => ResolvedIsSettled
<1>1. ASSUME Evidence, SteadilyDiagnosed, NEW i \in DOMAIN timeline, NEW m \in Players,
             hosted, shelf[m] = "holds", timeline[i].source = m
      PROVE  timeline[i].type = "found"
    <2>1. stage = 7 /\ steady
        BY <1>1, Bounds DEF SteadilyDiagnosed, Diagnosed
    <2> QED
        BY <1>1, <2>1 DEF Evidence, Read, LibraryRead
<1>2. Evidence => [SteadilyDiagnosed /\ ImportedPaths =>
                     \A i \in DOMAIN timeline, m \in Players :
                       hosted /\ shelf[m] = "holds" /\ timeline[i].source = m =>
                         timeline[i].type = "found"]_vars
    BY <1>1
<1> QED
    BY <1>2, EvidenceHolds, PTL DEF ResolvedIsSettled

-----------------------------------------------------------------------------
(* What the rules are told                                                 *)

\* A steady cycle is about to diagnose a request whose film Radarr has.
Ready == Evidence /\ stage = 7 /\ steady /\ library # "absent"

\* The row is Radarr's, and everything in the timeline is known.
LEMMA ReadyFields ==
  ASSUME Ready
  PROVE  /\ TypeOK /\ OnlyPast /\ LineFits(timeline) /\ WorldFits
         /\ row.inArr = TRUE /\ row.hasFile = file /\ row.hunt = hunt
         /\ row.monitored = (IF library = "on" THEN "yes" ELSE "no")
         /\ "radarr" \in Case.witnesses
         /\ \A i \in DOMAIN timeline : timeline[i].known
         /\ job.id # 0 =>
              /\ "client" \in Case.witnesses
              /\ job.at # "gone" => timeline # <<>> /\ timeline[Len(timeline)] = Sample
         /\ LastWord /\ \A m \in Players : LibraryRead(m)
<1>1. /\ TypeOK /\ OnlyPast /\ LineFits(timeline) /\ WorldFits /\ RowIsCurrent
      /\ steady /\ stage = 7 /\ library # "absent"
      /\ EntityRead /\ HistoryRead /\ ClientRead /\ LastWord /\ \A m \in Players : LibraryRead(m)
    BY DEF Ready, Evidence, IInv, Read
<1>2. /\ row.inArr = TRUE /\ row.hasFile = file /\ health["radarr"] = "fine"
      /\ row.monitored = (IF library = "on" THEN "yes" ELSE "no")
    <2>1. stage >= 2
        BY <1>1
    <2>2. /\ health["radarr"] = "fine" /\ row.inArr = (library # "absent")
          /\ library # "absent" =>
               row.monitored = (IF library = "on" THEN "yes" ELSE "no") /\ row.hasFile = file
        BY <1>1, <2>1, Zenon DEF RowIsCurrent
    <2> QED
        BY <1>1, <2>2
<1>3. row.hunt = hunt
    BY <1>1 DEF EntityRead
<1>4. \A i \in DOMAIN timeline : timeline[i].known
    BY <1>1, <1>2 DEF HistoryRead
<1>5. \A s \in {"radarr", "client"} : health[s] = "fine" => s \in Case.witnesses
    <2>1. barren \subseteq Players
        BY <1>1 DEF TypeOK
    <2> QED
        BY <2>1, CaseFields DEF Servers, Players
<1>6. job.id # 0 =>
              /\ health["client"] = "fine"
              /\ job.at # "gone" => timeline # <<>> /\ timeline[Len(timeline)] = Sample
    BY <1>1, <1>2 DEF ClientRead
<1> QED
    BY <1>1, <1>2, <1>3, <1>4, <1>5, <1>6

\* An event comes from one of four places, and the rules are told its type, except that of a
\* library's event they are told the dedupe key.
LEMMA ToldEvents ==
  ASSUME Ready, NEW i \in DOMAIN timeline, NEW e, e = timeline[i], NEW t, t = Case.events[i]
  PROVE  /\ \/ /\ e.source = "history" /\ e.type \in Recorded /\ t.type = e.type
               /\ t.key = <<e.id>> /\ t.age = hour
            \/ e.source = "queue" /\ e.type = "import_blocked" /\ t.type = e.type
            \/ /\ e.source = "client" /\ e.type \in {"download_progress", "download_failed"}
               /\ t.type = e.type /\ t.by = "client"
               /\ t.facts = e.facts /\ t.progress = e.progress
            \/ /\ e.source \in Players /\ e.type \in Sighted \cup {"missing"} /\ t.key = e.type
               /\ t.type = (IF e.type \in Sighted THEN "media_server_available"
                            ELSE "media_server_missing")
         /\ t.age = hour - e.hour /\ ~t.cutoffNotMet
<1>1. e \in Event /\ Plausible(e) /\ e.known /\ hour \in Nat
    BY ReadyFields, Numbers DEF LineFits
<1>2. t = IF e.source \in Players THEN ToldOfLibrary(e) ELSE ToldOfAttempt(e)
    BY CaseFields DEF Told
<1>3. CASE e.source \in Players
    <2>1. e.type \in Sighted \cup {"missing"}
        BY <1>1, <1>3 DEF Plausible
    <2> QED
        BY <1>2, <1>3, <2>1 DEF ToldOfLibrary
<1>4. CASE e.source \notin Players
    <2>1. /\ t.type = e.type /\ t.key = AttemptKey(e) /\ t.by = "client" /\ t.age = hour - e.hour
          /\ t.facts = e.facts /\ t.progress = e.progress /\ ~t.cutoffNotMet
        BY <1>1, <1>2, <1>4 DEF ToldOfAttempt
    <2>2. e.source \in {"history", "queue", "client"}
        BY <1>1, <1>4 DEF Event
    <2>3. CASE e.source = "history"
        <3>1. e.type \in Recorded /\ e.hour = 0 /\ t.key = <<e.id>>
            BY <1>1, <2>1, <2>3 DEF Plausible, AttemptKey
        <3> QED
            BY <1>1, <2>1, <2>3, <3>1
    <2>4. CASE e.source = "queue"
        BY <1>1, <2>1, <2>4 DEF Plausible
    <2>5. CASE e.source = "client"
        BY <1>1, <2>1, <2>5 DEF Plausible
    <2> QED
        BY <2>2, <2>3, <2>4, <2>5
<1> QED
    BY <1>3, <1>4

\* Where the rules look.
LEMMA Positions ==
  ASSUME Ready
  PROVE  /\ Imports(Case) = {i \in DOMAIN timeline : Records(timeline[i], "imported")}
         /\ Grabs(Case) = {i \in DOMAIN timeline : Records(timeline[i], "grabbed")}
         /\ OfType(Case, Failures) = {i \in DOMAIN timeline : timeline[i].type = "download_failed"}
         /\ OfType(Case, {"import_blocked"}) =
              {i \in DOMAIN timeline : timeline[i].type = "import_blocked"}
         /\ OfType(Case, Samples) = {i \in DOMAIN timeline : timeline[i].type = "download_progress"}
         /\ \A type \in Sighted : InLibrary(Case, type) =
              {i \in DOMAIN timeline : timeline[i].source \in Players /\ timeline[i].type = type}
<1>1. ASSUME NEW i \in DOMAIN timeline
      PROVE  /\ Case.events[i].type = "imported" <=> Records(timeline[i], "imported")
             /\ Case.events[i].type = "grabbed" <=> Records(timeline[i], "grabbed")
             /\ Case.events[i].type \in Failures <=> timeline[i].type = "download_failed"
             /\ Case.events[i].type = "import_blocked" <=> timeline[i].type = "import_blocked"
             /\ Case.events[i].type \in Samples <=> timeline[i].type = "download_progress"
             /\ \A type \in Sighted :
                  Case.events[i].type = "media_server_available" /\ Case.events[i].key = type
                    <=> timeline[i].source \in Players /\ timeline[i].type = type
    <2>1. PICK e, t : e = timeline[i] /\ t = Case.events[i]
        OBVIOUS
    <2>2. \/ e.source = "history" /\ e.type \in Recorded /\ t.type = e.type
          \/ e.source = "queue" /\ e.type = "import_blocked" /\ t.type = e.type
          \/ /\ e.source = "client" /\ e.type \in {"download_progress", "download_failed"}
             /\ t.type = e.type
          \/ /\ e.source \in Players /\ e.type \in Sighted \cup {"missing"} /\ t.key = e.type
             /\ t.type = (IF e.type \in Sighted THEN "media_server_available"
                          ELSE "media_server_missing")
        BY <2>1, ToldEvents
    <2> QED
        BY <2>1, <2>2 DEF Records, Recorded, Failures, Samples, Sighted, Players
<1>2. DOMAIN Case.events = DOMAIN timeline
    BY CaseFields
<1>3. /\ Imports(Case) = {i \in DOMAIN timeline : Case.events[i].type \in {"imported"}}
      /\ Grabs(Case) = {i \in DOMAIN timeline : Case.events[i].type \in {"grabbed"}}
      /\ \A types : OfType(Case, types) = {i \in DOMAIN timeline : Case.events[i].type \in types}
    BY <1>2 DEF Imports, Grabs, OfType
<1>4. /\ Imports(Case) = {i \in DOMAIN timeline : Records(timeline[i], "imported")}
      /\ Grabs(Case) = {i \in DOMAIN timeline : Records(timeline[i], "grabbed")}
    BY <1>1, <1>3
<1>5. /\ OfType(Case, Failures) = {i \in DOMAIN timeline : timeline[i].type = "download_failed"}
      /\ OfType(Case, {"import_blocked"}) =
           {i \in DOMAIN timeline : timeline[i].type = "import_blocked"}
      /\ OfType(Case, Samples) = {i \in DOMAIN timeline : timeline[i].type = "download_progress"}
    BY <1>1, <1>3
<1>6. ASSUME NEW type \in Sighted
      PROVE  InLibrary(Case, type) =
               {i \in DOMAIN timeline : timeline[i].source \in Players /\ timeline[i].type = type}
    BY <1>1, <1>3 DEF InLibrary
<1> QED
    BY <1>4, <1>5, <1>6

\* The rest of what the rules are told.
LEMMA OtherFields ==
  /\ Case.movie = TRUE /\ Case.wanted = {} /\ Case.providerDown = {} /\ Case.paused = {}
  /\ Case.waited = (hour >= WaitTime)
  /\ Case.unreleased = (row.hunt = "unreleased") /\ Case.searched = (row.hunt = "searched")
BY DEF Case

-----------------------------------------------------------------------------
(* The rules, one by one                                                   *)

\* The first two rules speak for Radarr's entry, and some of the others have no occasion to.
LEMMA RowRules ==
  ASSUME Ready
  PROVE  /\ NeverAdded(Case) = Nothing
         /\ Unmonitored(Case) = (IF library = "off" /\ ~file THEN "UNMONITORED" ELSE Nothing)
         /\ WrongQuality(Case) = Nothing
         /\ ~hosted => NotInMediaServer(Case) = Nothing /\ ArrivedButNotReflected(Case) = Nothing
         /\ job.id # 0 => NoReleaseFound(Case) = Nothing
<1>0. /\ TypeOK /\ LineFits(timeline) /\ row.inArr = TRUE /\ row.hasFile = file
      /\ row.monitored = (IF library = "on" THEN "yes" ELSE "no")
    BY ReadyFields
<1>1. NeverAdded(Case) = Nothing
    BY <1>0, CaseFields DEF NeverAdded, TypeOK
<1>2. Unmonitored(Case) = (IF library = "off" /\ ~file THEN "UNMONITORED" ELSE Nothing)
    <2>1. ~SeasonsOff(Case)
        BY OtherFields DEF SeasonsOff
    <2>2. library \in {"on", "off"}
        BY <1>0 DEF TypeOK, Ready
    <2> QED
        BY <1>0, <2>1, <2>2, CaseFields DEF Unmonitored
<1>3. WrongQuality(Case) = Nothing
    <2>1. CASE Imports(Case) = {}
        BY <2>1 DEF WrongQuality
    <2>2. CASE Imports(Case) # {}
        <3>1. Imports(Case) \subseteq 1 .. Len(timeline) /\ Len(timeline) \in Nat
            BY <1>0, Positions, Numbers
        <3>2. PICK i \in DOMAIN timeline : i = Max(Imports(Case))
            BY <1>0, <2>2, <3>1, GreatestPosition, Numbers
        <3>3. ~Latest(Case, {"imported"}).cutoffNotMet
            BY <3>2, ToldEvents DEF Latest, Imports
        <3> QED
            BY <3>3 DEF WrongQuality, Poor
    <2> QED
        BY <2>1, <2>2
<1>4. ~hosted => NotInMediaServer(Case) = Nothing /\ ArrivedButNotReflected(Case) = Nothing
    <2> SUFFICES ASSUME ~hosted
                 PROVE  NotInMediaServer(Case) = Nothing /\ ArrivedButNotReflected(Case) = Nothing
        OBVIOUS
    <2>1. Case.media = NoService
        BY CaseFields
    <2>2. InLibrary(Case, "found") = {}
        <3>1. \A i \in DOMAIN timeline : timeline[i].source \notin Players
            BY <1>0 DEF LineFits, Plausible
        <3> QED
            BY <3>1, Positions DEF Sighted
    <2> QED
        BY <2>1, <2>2 DEF NotInMediaServer, ArrivedButNotReflected
<1>5. job.id # 0 => NoReleaseFound(Case) = Nothing
    <2> SUFFICES ASSUME job.id # 0 PROVE NoReleaseFound(Case) = Nothing
        OBVIOUS
    <2>1. job.id \in 1 .. job.id
        BY <1>0, Numbers
    <2>2. Grabs(Case) # {}
        BY <1>0, <2>1, Positions DEF LineFits
    <2> QED
        BY <2>2 DEF NoReleaseFound
<1> QED
    BY <1>1, <1>2, <1>3, <1>4, <1>5

\* A set of positions, or of downloads, is finite.
LEMMA FinitelyMany ==
  ASSUME NEW n \in Nat, NEW S, S \subseteq 1 .. n
  PROVE  IsFiniteSet(S)
<1>1. IsFiniteSet(1 .. n)
    BY 1 \in Int, n \in Int, FS_Interval
<1>2. S \in SUBSET (1 .. n)
    OBVIOUS
<1> QED
    BY <1>1, <1>2, FS_Subset

\* Where no reading counts as a failure, the attempts the third rule counts are those Radarr's
\* history calls failed; it counts those in any case.
LEMMA AttemptsCounted ==
  ASSUME Ready
  PROVE  /\ Cardinality(Happened("download_failed")) <= DistinctAttempts(Case, OfType(Case, Failures))
         /\ DistinctAttempts(Case, OfType(Case, Failures)) \in Nat
         /\ (\A i \in DOMAIN timeline : ~CountsAsFailed(timeline[i])) =>
              DistinctAttempts(Case, OfType(Case, Failures)) <= Cardinality(Happened("download_failed"))
<1> DEFINE F == OfType(Case, Failures)
           K == {Case.events[i].key : i \in F}
           H == Happened("download_failed")
<1>0. /\ TypeOK /\ LineFits(timeline) /\ DOMAIN timeline = 1 .. Len(timeline) /\ Len(timeline) \in Nat
      /\ job.id \in Nat
    BY ReadyFields, Numbers
<1>1. F = {i \in DOMAIN timeline : timeline[i].type = "download_failed"}
    BY Positions
<1>2. DistinctAttempts(Case, F) = Cardinality(K)
    BY DEF DistinctAttempts
<1>3. \A i \in DOMAIN timeline : Records(timeline[i], "download_failed") =>
        i \in F /\ Case.events[i].key = <<timeline[i].id>>
    <2> SUFFICES ASSUME NEW i \in DOMAIN timeline, Records(timeline[i], "download_failed")
                 PROVE  i \in F /\ Case.events[i].key = <<timeline[i].id>>
        OBVIOUS
    <2>1. timeline[i].source = "history" /\ timeline[i].type = "download_failed"
        BY DEF Records
    <2>2. Case.events[i].key = <<timeline[i].id>>
        BY <2>1, ToldEvents DEF Players
    <2> QED
        BY <1>1, <2>1, <2>2
<1>4. H = {timeline[i].id : i \in {j \in DOMAIN timeline : Records(timeline[j], "download_failed")}}
    BY DEF Happened, Records
<1>5. IsFiniteSet(H)
    <2>1. H \subseteq 1 .. job.id
        BY <1>0, <1>4 DEF LineFits, Plausible, Records
    <2> QED
        BY <1>0, <2>1, FinitelyMany
<1>6. IsFiniteSet(K)
    <2>1. IsFiniteSet(F)
        BY <1>0, <1>1, FinitelyMany
    <2> DEFINE f == [i \in F |-> Case.events[i].key]
    <2>2. f \in Surjection(F, K)
        BY DEF Surjection
    <2> QED
        BY <2>1, <2>2, FS_Surjection
<1> HIDE DEF F, K, H
<1> DEFINE g == [n \in H |-> <<n>>]
<1>7. \A n \in H : <<n>> \in K
    BY <1>3, <1>4 DEF K
<1>8. Cardinality(H) <= Cardinality(K)
    <2>1. g \in [H -> K]
        BY <1>7
    <2>2. \A a, b \in DOMAIN g : g[a] = g[b] => a = b
        OBVIOUS
    <2>3. g \in Injection(H, K)
        BY <2>1, <2>2, Zenon DEF Injection, IsInjective
    <2> HIDE DEF g
    <2> QED
        BY <1>6, <2>3, FS_Injection
<1>9. ASSUME \A i \in DOMAIN timeline : ~CountsAsFailed(timeline[i])
      PROVE  Cardinality(K) <= Cardinality(H)
    <2>1. ASSUME NEW i \in F PROVE Records(timeline[i], "download_failed")
        <3>1. i \in DOMAIN timeline /\ timeline[i].type = "download_failed"
            BY <1>1
        <3>2. timeline[i].source # "client"
            BY <1>9, <3>1 DEF CountsAsFailed
        <3>3. timeline[i].source = "history"
            BY <3>1, <3>2, ToldEvents DEF Sighted
        <3> QED
            BY <3>1, <3>3 DEF Records
    <2>2. \A k \in K : \E n \in H : k = <<n>>
        BY <1>1, <1>3, <1>4, <2>1 DEF K
    <2>3. g \in [H -> K] /\ \A k \in K : \E n \in H : g[n] = k
        BY <1>7, <2>2
    <2>4. g \in Surjection(H, K)
        BY <2>3, Zenon DEF Surjection
    <2> HIDE DEF g
    <2> QED
        BY <1>5, <2>4, FS_Surjection
<1>10. Cardinality(K) \in Nat
    BY <1>6, FS_CardinalityType
<1> QED
    BY <1>2, <1>8, <1>9, <1>10 DEF F, H

\* The third rule: said of what failed too often, and where no reading counts as a failure of
\* nothing else.
LEMMA LoopRule ==
  ASSUME Ready
  PROVE  /\ ~file /\ Cardinality(Happened("download_failed")) >= LoopThreshold =>
              BlocklistLoop(Case) = "BLOCKLIST_LOOP"
         /\ /\ \A i \in DOMAIN timeline : ~CountsAsFailed(timeline[i])
            /\ file \/ Cardinality(Happened("download_failed")) < LoopThreshold
            => BlocklistLoop(Case) = Nothing
<1> DEFINE F == OfType(Case, Failures)
           C == Cardinality(Happened("download_failed"))
<1>0. /\ TypeOK /\ LineFits(timeline) /\ DOMAIN timeline = 1 .. Len(timeline) /\ Len(timeline) \in Nat
      /\ LoopThreshold \in Nat /\ LoopThreshold > 0
    BY ReadyFields, Numbers, RulesAssumption
<1>1. /\ C <= DistinctAttempts(Case, F) /\ DistinctAttempts(Case, F) \in Nat /\ C \in Nat
      /\ (\A i \in DOMAIN timeline : ~CountsAsFailed(timeline[i])) => DistinctAttempts(Case, F) <= C
    <2>1. C \in Nat
        <3>1. Happened("download_failed") \subseteq 1 .. job.id /\ job.id \in Nat
            BY <1>0, Numbers DEF Happened, LineFits, Plausible
        <3>2. IsFiniteSet(Happened("download_failed"))
            BY <3>1, FinitelyMany
        <3> QED
            BY <3>2, FS_CardinalityType
    <2> QED
        BY <2>1, AttemptsCounted
<1>2. /\ F = {i \in DOMAIN timeline : timeline[i].type = "download_failed"}
      /\ Imports(Case) = {i \in DOMAIN timeline : Records(timeline[i], "imported")}
    BY Positions
<1>3. BlocklistLoop(Case) = IF DistinctAttempts(Case, F) < LoopThreshold THEN Nothing
                            ELSE IF \E i \in Imports(Case) : i > Max(F) THEN Nothing
                            ELSE "BLOCKLIST_LOOP"
    BY DEF BlocklistLoop
<1>4. DistinctAttempts(Case, F) # 0 => F # {}
    <2>1. {Case.events[i].key : i \in {}} = {}
        OBVIOUS
    <2> QED
        BY <2>1, FS_EmptySet DEF DistinctAttempts
<1> HIDE DEF F, C
<1>5. ASSUME ~file, C >= LoopThreshold PROVE BlocklistLoop(Case) = "BLOCKLIST_LOOP"
    <2>1. Imports(Case) = {}
        BY <1>0, <1>2, <1>5 DEF LineFits
    <2> QED
        BY <1>0, <1>1, <1>3, <1>5, <2>1
<1>6. ASSUME \A i \in DOMAIN timeline : ~CountsAsFailed(timeline[i]), file \/ C < LoopThreshold
      PROVE  BlocklistLoop(Case) = Nothing
    <2>1. CASE DistinctAttempts(Case, F) < LoopThreshold
        BY <1>3, <2>1
    <2>2. CASE DistinctAttempts(Case, F) >= LoopThreshold
        <3>1. file /\ F # {}
            BY <1>0, <1>1, <1>4, <1>6, <2>2
        <3>2. Max(F) \in F
            BY <1>0, <1>2, <3>1, GreatestPosition
        <3>3. Records(timeline[Max(F)], "download_failed")
            <4>1. Max(F) \in DOMAIN timeline /\ timeline[Max(F)].type = "download_failed"
                BY <1>2, <3>2
            <4>2. timeline[Max(F)].source # "client"
                BY <1>6, <4>1 DEF CountsAsFailed
            <4>3. timeline[Max(F)].source = "history"
                BY <4>1, <4>2, ToldEvents DEF Sighted
            <4> QED
                BY <4>1, <4>3 DEF Records
        <3>4. \E j \in DOMAIN timeline : Max(F) < j /\ Records(timeline[j], "imported")
            BY <1>0, <1>2, <3>1, <3>2, <3>3 DEF LineFits
        <3> QED
            BY <1>0, <1>2, <1>3, <3>2, <3>4
    <2> QED
        BY <1>0, <1>1, <2>1, <2>2
<1> QED
    BY <1>1, <1>0, <1>5, <1>6 DEF C

\* The latest reading there is, and what the fifth rule can make of any.
LEMMA LatestReading ==
  ASSUME Ready, OfType(Case, Samples) # {}, NEW p, p = Max(OfType(Case, Samples))
  PROVE  /\ p \in DOMAIN timeline /\ timeline[p].type = "download_progress"
         /\ \A i \in OfType(Case, Samples) : i <= p
         /\ Latest(Case, Samples) = Case.events[p]
         /\ Case.events[p].by = "client" /\ Case.events[p].facts = timeline[p].facts
         /\ Case.events[p].progress = timeline[p].progress
         /\ timeline[p].facts # {} /\ "errored" \notin timeline[p].facts
         /\ timeline[p].facts \subseteq Readings
<1>0. /\ TypeOK /\ LineFits(timeline) /\ DOMAIN timeline = 1 .. Len(timeline) /\ Len(timeline) \in Nat
      /\ OfType(Case, Samples) = {i \in DOMAIN timeline : timeline[i].type = "download_progress"}
    BY ReadyFields, Numbers, Positions
<1>1. p \in OfType(Case, Samples) /\ \A i \in OfType(Case, Samples) : i <= p
    BY <1>0, GreatestPosition
<1>2. p \in DOMAIN timeline /\ timeline[p].type = "download_progress"
    BY <1>0, <1>1
<1>3. /\ timeline[p].source = "client" /\ Case.events[p].by = "client"
      /\ Case.events[p].facts = timeline[p].facts /\ Case.events[p].progress = timeline[p].progress
    BY <1>2, ToldEvents DEF Recorded, Sighted
<1>4. timeline[p] \in Event
    BY <1>0, <1>2, Numbers
<1>5. timeline[p].facts \subseteq Readings
    BY <1>4 DEF Event
<1>6. timeline[p].facts # {} /\ "errored" \notin timeline[p].facts
    BY <1>0, <1>2, <1>3 DEF LineFits, Plausible
<1>7. Latest(Case, Samples) = Case.events[p]
    BY DEF Latest
<1> QED
    BY <1>1, <1>2, <1>3, <1>5, <1>6, <1>7

\* Of a download, the fifth rule says that it is stalled or nothing.
LEMMA StalledOrNothing ==
  ASSUME Ready, job.id # 0
  PROVE  GrabbedButStalled(Case) \in {Nothing, "GRABBED_BUT_STALLED"}
<1>1. CASE OfType(Case, Samples) = {}
    BY <1>1 DEF GrabbedButStalled
<1>2. CASE OfType(Case, Samples) # {}
    <2>1. PICK p, latest : p = Max(OfType(Case, Samples)) /\ latest = Latest(Case, Samples)
        OBVIOUS
    <2>2. /\ latest.by = "client" /\ latest.facts # {} /\ "errored" \notin latest.facts
          /\ latest.facts \subseteq Readings
        BY <1>2, <2>1, LatestReading
    <2>3. CanSpeakFor(Case, "client")
        BY ReadyFields DEF CanSpeakFor
    <2>4. "usenet" \notin latest.facts
        BY <2>2 DEF Readings
    <2> QED
        BY <1>2, <2>1, <2>2, <2>3, <2>4, OtherFields DEF GrabbedButStalled
<1> QED
    BY <1>1, <1>2

\* Of a download, where the third rule is silent, one of four things is said.
LEMMA FourWords ==
  ASSUME Ready, ~hosted, job.id # 0, library = "on" \/ file, BlocklistLoop(Case) = Nothing
  PROVE  Evaluate(Case) \in OfADownload \cup {Nothing}
<1>1. /\ NeverAdded(Case) = Nothing /\ Unmonitored(Case) = Nothing /\ WrongQuality(Case) = Nothing
      /\ NotInMediaServer(Case) = Nothing /\ ArrivedButNotReflected(Case) = Nothing
      /\ NoReleaseFound(Case) = Nothing
    BY RowRules
<1>2. /\ DownloadedNotImported(Case) \in {Nothing, "DOWNLOADED_NOT_IMPORTED"}
      /\ GrabbedButStalled(Case) \in {Nothing, "GRABBED_BUT_STALLED"}
      /\ DownloadInProgress(Case) \in {Nothing, "DOWNLOAD_IN_PROGRESS"}
    BY StalledOrNothing, Vocabulary
<1> QED
    BY <1>1, <1>2, InTurn DEF OfADownload

\* Where media servers are configured, the flag and the last event are those of the last
\* library that has something in it.
LEMMA LastSpeaker ==
  ASSUME Ready, hosted, NEW m, m = (IF "jellyfin" \in Speakers THEN "jellyfin" ELSE "plex")
  PROVE  /\ Candidate
         /\ Speakers # {} =>
              /\ m \in Players /\ row.found = (IF Has(m) THEN "yes" ELSE "no")
              /\ shelf[m] = "holds" =>
                   timeline # <<>> /\ timeline[Len(timeline)] = Sighting(m, "found")
<1>1. Candidate
    BY ReadyFields DEF WorldFits, Candidate, ImportedPaths
<1>2. Speakers # {} => m \in Speakers /\ m \in Players
    BY DEF Speakers, Players
<1>3. Speakers # {} => Word(m)
    BY <1>2, ReadyFields DEF LastWord, Ready
<1> QED
    BY <1>1, <1>2, <1>3 DEF Word

\* Nothing is known to be missing: the last library that was looked at has the film; where all
\* are empty, what was said before stands.
NotMissed ==
  IF Speakers = {} THEN row.found # "no"
  ELSE Has(IF "jellyfin" \in Speakers THEN "jellyfin" ELSE "plex")

\* No path mapping leads to the film, or none did before it disappeared.
Mismatched ==
  \/ \E m \in Players : shelf[m] = "elsewhere" /\ FoundById(m)
  \/ \E i \in DOMAIN timeline : /\ timeline[i].type = "path_mismatch"
                                /\ shelf[timeline[i].source] \in {"empty", "lacks"}

\* What the rules in fact say of a film that has been imported.
SaidOfArrival ==
  IF Mismatched                          THEN "PATH_MISMATCH"
  ELSE IF NotMissed /\ row.found = "yes" THEN Nothing
  ELSE IF "plex" \notin Speakers         THEN "EVIDENCE_UNAVAILABLE"
  ELSE IF hour < GraceTime               THEN Nothing
  ELSE "NOT_IN_MEDIA_SERVER"

\* A completed request is passed over exactly when nothing is known to be missing.
LEMMA FulfilledRule ==
  ASSUME Ready
  PROVE  Fulfilled(Case) <=> asked = "completed" /\ NotMissed
<1>1. Fulfilled(Case) <=> asked = "completed" /\ row.found # "no"
    BY CaseFields DEF Fulfilled
<1>2. ASSUME asked = "completed" PROVE NotMissed <=> row.found # "no"
    <2>1. hosted
        BY <1>2, ReadyFields DEF WorldFits
    <2> DEFINE m == IF "jellyfin" \in Speakers THEN "jellyfin" ELSE "plex"
    <2>2. /\ Candidate
          /\ Speakers # {} => row.found = (IF Has(m) THEN "yes" ELSE "no")
        BY <2>1, LastSpeaker
    <2> QED
        BY <2>2 DEF NotMissed
<1> QED
    BY <1>1, <1>2

\* That is what they say.
LEMMA Arrival ==
  ASSUME Ready, hosted
  PROVE  Evaluate(Case) = SaidOfArrival
<1>0. /\ TypeOK /\ LineFits(timeline) /\ WorldFits
      /\ DOMAIN timeline = 1 .. Len(timeline) /\ Len(timeline) \in Nat /\ hour \in Nat
      /\ row.inArr = TRUE /\ row.hasFile = TRUE /\ file /\ library # "absent" /\ job.id # 0
      /\ \A m \in Players : LibraryRead(m)
      /\ GraceTime \in Nat /\ GraceTime > 0
    <2>1. /\ TypeOK /\ LineFits(timeline) /\ WorldFits
          /\ row.inArr = TRUE /\ row.hasFile = file /\ \A m \in Players : LibraryRead(m)
        BY ReadyFields
    <2>2. file /\ library # "absent" /\ job.id # 0
        BY <2>1 DEF WorldFits
    <2>3. file \in BOOLEAN
        BY <2>1 DEF TypeOK
    <2> QED
        BY <2>1, <2>2, <2>3, Numbers, RulesAssumption
<1>1. \A i \in DOMAIN timeline : timeline[i].source \notin {"queue", "client"}
    BY <1>0 DEF LineFits, Plausible
<1>2. \A i \in DOMAIN timeline :
        /\ timeline[i].type \notin {"download_progress", "import_blocked"}
        /\ ~CountsAsFailed(timeline[i])
        /\ timeline[i].type \in Sighted \cup {"missing"} <=> timeline[i].source \in Players
    <2> SUFFICES ASSUME NEW i \in DOMAIN timeline
                 PROVE  /\ timeline[i].type \notin {"download_progress", "import_blocked"}
                        /\ ~CountsAsFailed(timeline[i])
                        /\ timeline[i].type \in Sighted \cup {"missing"} <=> timeline[i].source \in Players
        OBVIOUS
    <2>1. PICK e : e = timeline[i]
        OBVIOUS
    <2>2. \/ e.source = "history" /\ e.type \in Recorded
          \/ e.source \in Players /\ e.type \in Sighted \cup {"missing"}
        BY <1>1, <2>1, ToldEvents
    <2> QED
        BY <2>1, <2>2 DEF CountsAsFailed, Recorded, Sighted, Players
<1>3. /\ NeverAdded(Case) = Nothing /\ Unmonitored(Case) = Nothing /\ WrongQuality(Case) = Nothing
      /\ NoReleaseFound(Case) = Nothing
    BY <1>0, RowRules
<1>4. BlocklistLoop(Case) = Nothing
    BY <1>0, <1>2, LoopRule
<1>5. /\ DownloadedNotImported(Case) = Nothing /\ GrabbedButStalled(Case) = Nothing
      /\ DownloadInProgress(Case) = Nothing
    <2>1. OfType(Case, Samples) = {} /\ OfType(Case, {"import_blocked"}) = {}
        BY <1>2, Positions
    <2> QED
        BY <2>1 DEF DownloadedNotImported, GrabbedButStalled, DownloadInProgress
<1>6. Evaluate(Case) = IF NotInMediaServer(Case) # Nothing THEN NotInMediaServer(Case)
                       ELSE IF ArrivedButNotReflected(Case) # Nothing THEN ArrivedButNotReflected(Case)
                       ELSE Nothing
    BY <1>3, <1>4, <1>5, InTurn
<1>7. NotInMediaServer(Case) =
        IF InLibrary(Case, "path_mismatch") # {}       THEN "PATH_MISMATCH"
        ELSE IF row.found = "yes"                      THEN Nothing
        ELSE IF ~CanSpeakFor(Case, "plex")             THEN "EVIDENCE_UNAVAILABLE"
        ELSE IF Imports(Case) # {} /\ Latest(Case, {"imported"}).age < GraceTime THEN Nothing
        ELSE "NOT_IN_MEDIA_SERVER"
    <2>1. /\ Case.media = "plex" /\ Case.hasFile = TRUE /\ Case.found = row.found
          /\ "plex" # NoService
        BY <1>0, CaseFields DEF NoService
    <2> QED
        BY <2>1 DEF NotInMediaServer
<1>8. \A type \in Sighted :
        InLibrary(Case, type) = {i \in DOMAIN timeline : timeline[i].type = type}
    <2> SUFFICES ASSUME NEW type \in Sighted
                 PROVE  InLibrary(Case, type) = {i \in DOMAIN timeline : timeline[i].type = type}
        OBVIOUS
    <2>1. InLibrary(Case, type) =
            {i \in DOMAIN timeline : timeline[i].source \in Players /\ timeline[i].type = type}
        BY Positions
    <2>2. \A i \in DOMAIN timeline : timeline[i].type = type => timeline[i].source \in Players
        BY <1>2
    <2> QED
        BY <2>1, <2>2
<1>9. InLibrary(Case, "path_mismatch") # {} <=> Mismatched
    <2>1. ASSUME NEW i \in DOMAIN timeline, timeline[i].type = "path_mismatch" PROVE Mismatched
        <3>1. PICK m \in Players : m = timeline[i].source
            BY <1>2, <2>1 DEF Sighted
        <3>2. shelf[m] \in Shelves
            BY <1>0 DEF TypeOK
        <3>3. shelf[m] # "holds"
            BY <1>0, <2>1, <3>1 DEF LibraryRead, Ready
        <3>4. CASE shelf[m] = "elsewhere"
            <4>1. m = "plex" => keyed
                BY <1>0, <2>1, <3>1 DEF LineFits, Plausible
            <4> QED
                BY <3>4, <4>1 DEF FoundById, Mismatched
        <3>5. CASE shelf[m] \in {"empty", "lacks"}
            BY <2>1, <3>1, <3>5 DEF Mismatched
        <3> QED
            BY <3>2, <3>3, <3>4, <3>5 DEF Shelves
    <2>2. ASSUME NEW m \in Players, shelf[m] = "elsewhere", FoundById(m)
          PROVE  \E i \in DOMAIN timeline : timeline[i].type = "path_mismatch"
        BY <1>0, <2>2 DEF LibraryRead, Ready
    <2> QED
        BY <1>8, <2>1, <2>2 DEF Mismatched, Sighted
<1>10. CanSpeakFor(Case, "plex") <=> "plex" \in Speakers
    <2>1. health["plex"] = "fine" /\ ("plex" \in barren <=> shelf["plex"] = "empty")
        BY <1>0 DEF LibraryRead, Ready, Players
    <2> QED
        BY <2>1, CaseFields DEF CanSpeakFor, Servers, Players, Speakers
<1> DEFINE m == IF "jellyfin" \in Speakers THEN "jellyfin" ELSE "plex"
<1>11. /\ Candidate
       /\ Speakers # {} =>
            /\ m \in Players /\ row.found = (IF Has(m) THEN "yes" ELSE "no")
            /\ shelf[m] = "holds" =>
                 timeline # <<>> /\ timeline[Len(timeline)] = Sighting(m, "found")
    BY LastSpeaker
<1>12. row.found = "yes" => NotMissed
    BY <1>11 DEF NotMissed
<1> HIDE DEF m
<1>13. ASSUME ~Mismatched PROVE ArrivedButNotReflected(Case) = Nothing
    <2> SUFFICES ASSUME row.found = "yes", InLibrary(Case, "found") # {}, "plex" \in Speakers
                 PROVE  ~(Case.events[Max(InLibrary(Case, "found"))].age >= GraceTime)
        BY <1>10, CaseFields DEF ArrivedButNotReflected
    <2>1. m \in Players /\ Has(m) /\ Speakers # {}
        BY <1>11
    <2>2. shelf[m] = "holds"
        BY <1>13, <2>1 DEF Has, FoundById, Mismatched
    <2>3. Len(timeline) \in DOMAIN timeline /\ timeline[Len(timeline)] = Sighting(m, "found")
        BY <1>0, <1>11, <2>1, <2>2
    <2>4. InLibrary(Case, "found") = {i \in DOMAIN timeline : timeline[i].type = "found"}
        BY <1>8 DEF Sighted
    <2>5. Len(timeline) \in InLibrary(Case, "found")
        BY <2>3, <2>4 DEF Sighting
    <2>6. Max(InLibrary(Case, "found")) = Len(timeline)
        <3>1. /\ Max(InLibrary(Case, "found")) \in InLibrary(Case, "found")
              /\ \A i \in InLibrary(Case, "found") : i <= Max(InLibrary(Case, "found"))
            BY <1>0, <2>4, <2>5, GreatestPosition
        <3> QED
            BY <1>0, <2>4, <2>5, <3>1
    <2>7. Case.events[Len(timeline)].age = hour - hour
        BY <2>3, ToldEvents DEF Sighting
    <2> QED
        BY <1>0, <2>6, <2>7
<1>14. Imports(Case) # {} /\ Latest(Case, {"imported"}).age = hour
    <2>1. Imports(Case) = {i \in DOMAIN timeline : Records(timeline[i], "imported")}
        BY Positions
    <2>2. Imports(Case) # {}
        BY <1>0, <2>1 DEF LineFits
    <2>3. PICK i : i = Max(Imports(Case))
        OBVIOUS
    <2>4. i \in Imports(Case)
        BY <1>0, <2>1, <2>2, <2>3, GreatestPosition
    <2>5. i \in DOMAIN timeline /\ timeline[i].source = "history"
        BY <2>1, <2>4 DEF Records
    <2>6. Case.events[i].age = hour
        BY <2>5, ToldEvents DEF Players
    <2> QED
        BY <2>2, <2>3, <2>6 DEF Latest, Imports
<1>15. CASE Mismatched
    <2>1. NotInMediaServer(Case) = "PATH_MISMATCH"
        BY <1>7, <1>9, <1>15
    <2> QED
        BY <1>6, <1>15, <2>1 DEF SaidOfArrival, Nothing
<1>16. CASE ~Mismatched /\ row.found = "yes"
    <2>1. NotInMediaServer(Case) = Nothing
        BY <1>7, <1>9, <1>16
    <2> QED
        BY <1>6, <1>12, <1>13, <1>16, <2>1 DEF SaidOfArrival
<1>17. CASE ~Mismatched /\ row.found # "yes" /\ "plex" \notin Speakers
    <2>1. NotInMediaServer(Case) = "EVIDENCE_UNAVAILABLE"
        BY <1>7, <1>9, <1>10, <1>17
    <2> QED
        BY <1>6, <1>17, <2>1 DEF SaidOfArrival, Nothing
<1>18. CASE ~Mismatched /\ row.found # "yes" /\ "plex" \in Speakers
    <2>1. NotInMediaServer(Case) = (IF hour < GraceTime THEN Nothing ELSE "NOT_IN_MEDIA_SERVER")
        BY <1>7, <1>9, <1>10, <1>14, <1>18
    <2> QED
        BY <1>6, <1>13, <1>18, <2>1 DEF SaidOfArrival, Nothing
<1> QED
    BY <1>15, <1>16, <1>17, <1>18

\* What is said of an arrival is what it calls for, or one of the known mistakes.
LEMMA ArrivalFits ==
  ASSUME Ready, hosted
  PROVE  Diagnose(Case) \in ArrivalCause \cup ArrivalMistakes
<1>0. /\ shelf \in [Players -> Shelves] /\ asked \in {"approved", "completed"}
      /\ hour \in Nat /\ GraceTime \in Nat /\ row.found \in {"yes", "no", "unset"}
      /\ \A i \in DOMAIN timeline : timeline[i].type = "path_mismatch" => timeline[i].source \in Players
    <2>1. TypeOK /\ LineFits(timeline)
        BY ReadyFields
    <2>2. ASSUME NEW i \in DOMAIN timeline, timeline[i].type = "path_mismatch"
          PROVE  timeline[i].source \in Players
        BY <2>2, ToldEvents DEF Recorded
    <2> QED
        BY <2>1, <2>2, Numbers, RulesAssumption DEF TypeOK, Row
<1>1. Diagnose(Case) = IF asked = "completed" /\ NotMissed THEN "FULFILLED" ELSE SaidOfArrival
    BY Arrival, FulfilledRule DEF Diagnose
<1> DEFINE had  == \E m \in Players : Has(m)
           last == IF "jellyfin" \in Speakers THEN "jellyfin" ELSE "plex"
<1>2. /\ \A m \in Players : m \in Speakers <=> shelf[m] # "empty"
      /\ \A m \in Players : Has(m) => m \in Speakers
      /\ Speakers \subseteq Players
      /\ shelf["jellyfin"] \in {"elsewhere", "holds"} <=> Has("jellyfin")
    BY <1>0 DEF Speakers, Has, FoundById, Players, Shelves
<1>3. Speakers # {} => last \in Speakers /\ last \in Players
    BY <1>2 DEF Players
<1>4. NotMissed <=> IF Speakers = {} THEN row.found # "no" ELSE Has(last)
    BY DEF NotMissed
<1> DEFINE overruled == Has("plex") /\ "jellyfin" \in Speakers /\ ~Has("jellyfin")
<1>5. Speakers # {} /\ ~Has(last) => overruled \/ ~had
    BY <1>2, <1>3 DEF Players
<1>6. CASE asked = "completed" /\ NotMissed
    <2>1. had \/ Speakers = {}
        BY <1>3, <1>4, <1>6
    <2> QED
        BY <1>1, <1>6, <2>1 DEF ArrivalCause
<1>7. CASE ~(asked = "completed" /\ NotMissed) /\ Mismatched
    <2>1. Diagnose(Case) = "PATH_MISMATCH"
        BY <1>1, <1>7 DEF SaidOfArrival
    <2>2. ASSUME NEW i \in DOMAIN timeline, timeline[i].type = "path_mismatch",
                 shelf[timeline[i].source] \in {"empty", "lacks"}
          PROVE  "PATH_MISMATCH" \in ArrivalMistakes
        <3>1. ~Has(timeline[i].source)
            BY <2>2 DEF Has, FoundById
        <3> QED
            BY <2>2, <3>1 DEF ArrivalMistakes
    <2>3. ASSUME NEW m \in Players, shelf[m] = "elsewhere", FoundById(m)
          PROVE  "PATH_MISMATCH" \in ArrivalCause \cup ArrivalMistakes
        <3>1. Has(m) /\ had /\ Speakers # {}
            BY <1>2, <2>3 DEF Has
        <3>2. CASE asked = "completed"
            <4>1. overruled
                BY <1>4, <1>5, <1>7, <3>1, <3>2
            <4>2. m = "plex"
                BY <2>3, <3>1, <4>1 DEF Players
            <4>3. "PATH_MISMATCH" # Nothing
                BY DEF Nothing
            <4> QED
                BY <2>3, <4>1, <4>2, <4>3 DEF ArrivalMistakes
        <3>3. CASE asked # "completed"
            <4>1. "PATH_MISMATCH" \in PresenceCause
                BY <2>3 DEF PresenceCause
            <4> QED
                BY <3>1, <3>3, <4>1 DEF ArrivalCause
        <3> QED
            BY <3>2, <3>3
    <2> QED
        BY <1>7, <2>1, <2>2, <2>3 DEF Mismatched
<1>8. CASE ~(asked = "completed" /\ NotMissed) /\ ~Mismatched /\ NotMissed /\ row.found = "yes"
    <2>1. Diagnose(Case) = Nothing /\ asked = "approved"
        BY <1>0, <1>1, <1>8 DEF SaidOfArrival
    <2>2. CASE Speakers = {}
        BY <1>8, <2>1, <2>2 DEF ArrivalMistakes
    <2>3. CASE Speakers # {}
        <3>1. last \in Players /\ Has(last) /\ had
            BY <1>3, <1>4, <1>8, <2>3
        <3>2. shelf[last] = "holds"
            BY <1>8, <3>1 DEF Has, FoundById, Mismatched
        <3>3. Nothing \in PresenceCause
            BY <3>1, <3>2 DEF PresenceCause
        <3> QED
            BY <2>1, <3>1, <3>3 DEF ArrivalCause
    <2> QED
        BY <2>2, <2>3
<1>9. CASE ~(asked = "completed" /\ NotMissed) /\ ~Mismatched /\ ~(NotMissed /\ row.found = "yes")
    <2>1. Speakers # {} => ~Has(last)
        <3>1. \A m : m = last => (Speakers # {} => row.found = (IF Has(m) THEN "yes" ELSE "no"))
            BY LastSpeaker
        <3> QED
            BY <1>4, <1>9, <3>1
    <2>2. overruled \/ ~had
        <3>1. Speakers = {} => ~had
            BY <1>2
        <3> QED
            BY <1>5, <2>1, <3>1
    <2>3. Diagnose(Case) = IF "plex" \notin Speakers THEN "EVIDENCE_UNAVAILABLE"
                           ELSE IF hour < GraceTime  THEN Nothing
                           ELSE "NOT_IN_MEDIA_SERVER"
        BY <1>1, <1>9 DEF SaidOfArrival
    <2> HIDE DEF had, last
    <2>4. CASE overruled
        <3>1. "plex" \in Speakers
            BY <1>2, <2>4 DEF Players
        <3>2. /\ Nothing # "NOT_IN_MEDIA_SERVER" /\ Nothing # "PATH_MISMATCH"
              /\ "NOT_IN_MEDIA_SERVER" # "PATH_MISMATCH"
            BY DEF Nothing
        <3>3. CASE hour < GraceTime
            BY <2>3, <2>4, <3>1, <3>2, <3>3 DEF ArrivalMistakes
        <3>4. CASE ~(hour < GraceTime)
            <4>1. hour >= GraceTime
                BY <1>0, <3>4
            <4> QED
                BY <2>3, <2>4, <3>1, <3>2, <3>4, <4>1 DEF ArrivalMistakes
        <3> QED
            BY <3>3, <3>4
    <2>5. CASE ~had
        <3>1. Diagnose(Case) \in AbsenceCause
            <4>1. CASE "plex" \notin Speakers
                <5>1. Speakers # Players
                    BY <4>1 DEF Players
                <5> QED
                    BY <2>3, <4>1, <5>1 DEF AbsenceCause
            <4>2. CASE "plex" \in Speakers /\ hour < GraceTime
                BY <2>3, <4>2 DEF AbsenceCause
            <4>3. CASE "plex" \in Speakers /\ ~(hour < GraceTime)
                <5>1. hour >= GraceTime /\ Speakers # {}
                    BY <1>0, <4>3
                <5> QED
                    BY <2>3, <4>3, <5>1 DEF AbsenceCause
            <4> QED
                BY <4>1, <4>2, <4>3
        <3>2. CASE asked = "completed" /\ Speakers = {}
            <4>1. Diagnose(Case) = "EVIDENCE_UNAVAILABLE"
                BY <2>3, <3>2
            <4> QED
                BY <3>2, <4>1 DEF ArrivalCause
        <3>3. CASE ~(asked = "completed" /\ Speakers = {})
            BY <2>5, <3>1, <3>3 DEF ArrivalCause, had
        <3> QED
            BY <3>2, <3>3
    <2> QED
        BY <2>2, <2>4, <2>5
<1> QED
    BY <1>6, <1>7, <1>8, <1>9

\* What is said when nothing stops the rules of the download.
RestOfRules ==
  IF DownloadedNotImported(Case) # Nothing  THEN DownloadedNotImported(Case)
  ELSE IF GrabbedButStalled(Case) # Nothing THEN GrabbedButStalled(Case)
  ELSE IF NoReleaseFound(Case) # Nothing    THEN NoReleaseFound(Case)
  ELSE DownloadInProgress(Case)

\* Of a search without a download, its outcome is said when it had its time.
LEMMA SearchFits ==
  ASSUME Ready, job.id = 0
  PROVE  RestOfRules \in DownloadCause
<1>0. /\ TypeOK /\ OnlyPast /\ LineFits(timeline) /\ WorldFits
      /\ DOMAIN timeline = 1 .. Len(timeline) /\ Len(timeline) \in Nat
      /\ hour \in Nat /\ job.id \in Nat /\ job.progress \in Nat /\ job.since \in Nat
      /\ row.inArr = TRUE /\ row.hasFile = file /\ row.hunt = hunt
    BY ReadyFields, Numbers
<1>1. /\ OfType(Case, Samples) = {i \in DOMAIN timeline : timeline[i].type = "download_progress"}
      /\ OfType(Case, {"import_blocked"}) =
           {i \in DOMAIN timeline : timeline[i].type = "import_blocked"}
      /\ Imports(Case) = {i \in DOMAIN timeline : Records(timeline[i], "imported")}
      /\ Grabs(Case) = {i \in DOMAIN timeline : Records(timeline[i], "grabbed")}
    BY Positions
<1>2. OfType(Case, Samples) = {} /\ OfType(Case, {"import_blocked"}) = {} =>
        /\ DownloadedNotImported(Case) = Nothing /\ GrabbedButStalled(Case) = Nothing
        /\ DownloadInProgress(Case) = Nothing
    BY DEF DownloadedNotImported, GrabbedButStalled, DownloadInProgress
<1>3. /\ \A i \in DOMAIN timeline : timeline[i].type \notin {"download_progress", "import_blocked"}
      /\ \A i \in DOMAIN timeline : timeline[i].source # "history"
    <2> SUFFICES ASSUME NEW i \in DOMAIN timeline
                 PROVE  /\ timeline[i].type \notin {"download_progress", "import_blocked"}
                        /\ timeline[i].source # "history"
        OBVIOUS
    <2>1. PICK e : e = timeline[i]
        OBVIOUS
    <2>2. Plausible(e)
        BY <1>0, <2>1 DEF LineFits
    <2>3. e.source \notin {"history", "queue", "client"}
        BY <2>2 DEF Plausible
    <2>4. e.type \in Sighted \cup {"missing"}
        BY <2>1, <2>3, ToldEvents
    <2> QED
        BY <2>1, <2>3, <2>4 DEF Sighted
<1>4. Imports(Case) = {} /\ Grabs(Case) = {} /\ ~file
    BY <1>0, <1>1, <1>3 DEF Records, LineFits
<1>5. OfType(Case, Samples) = {} /\ OfType(Case, {"import_blocked"}) = {}
    BY <1>1, <1>3
<1>6. NoReleaseFound(Case) = IF ~(hour >= WaitTime)   THEN Nothing
                             ELSE IF hunt = "unreleased" THEN "NOT_RELEASED_YET"
                             ELSE IF hunt # "searched"   THEN "NEVER_SEARCHED"
                             ELSE "NO_RELEASE_FOUND"
    <2>1. CanSpeakFor(Case, Case.arr)
        BY ReadyFields, CaseFields DEF CanSpeakFor
    <2>2. /\ Case.inArr = TRUE /\ Case.hasFile = FALSE /\ Case.movie = TRUE
          /\ Case.waited = (hour >= WaitTime)
          /\ Case.unreleased = (hunt = "unreleased") /\ Case.searched = (hunt = "searched")
        BY <1>0, <1>4, CaseFields, OtherFields DEF TypeOK
    <2> QED
        BY <1>4, <2>1, <2>2 DEF NoReleaseFound
<1>7. RestOfRules = NoReleaseFound(Case)
    BY <1>2, <1>5 DEF RestOfRules
<1>8. hunt \in {"unreleased", "unsearched", "searched"} /\ job.at = "gone"
    BY <1>0 DEF TypeOK, OnlyPast
<1> QED
    BY <1>4, <1>6, <1>7, <1>8 DEF DownloadCause

\* Of a download that is gone, what is said goes by readings or rows that have outlived it.
LEMMA GoneFits ==
  ASSUME Ready, job.id # 0, job.at = "gone", RestOfRules \in OfADownload \cup {Nothing}
  PROVE  RestOfRules \in DownloadCause \cup DownloadMistakes
<1>0. /\ TypeOK /\ OnlyPast /\ LineFits(timeline) /\ WorldFits
      /\ DOMAIN timeline = 1 .. Len(timeline) /\ Len(timeline) \in Nat
      /\ hour \in Nat /\ job.id \in Nat /\ job.progress \in Nat /\ job.since \in Nat
      /\ row.inArr = TRUE /\ row.hasFile = file /\ row.hunt = hunt
    BY ReadyFields, Numbers
<1>1. /\ OfType(Case, Samples) = {i \in DOMAIN timeline : timeline[i].type = "download_progress"}
      /\ OfType(Case, {"import_blocked"}) =
           {i \in DOMAIN timeline : timeline[i].type = "import_blocked"}
      /\ Imports(Case) = {i \in DOMAIN timeline : Records(timeline[i], "imported")}
      /\ Grabs(Case) = {i \in DOMAIN timeline : Records(timeline[i], "grabbed")}
    BY Positions
<1>2. OfType(Case, Samples) = {} /\ OfType(Case, {"import_blocked"}) = {} =>
        /\ DownloadedNotImported(Case) = Nothing /\ GrabbedButStalled(Case) = Nothing
        /\ DownloadInProgress(Case) = Nothing
    BY DEF DownloadedNotImported, GrabbedButStalled, DownloadInProgress
<1>3. Nothing \in DownloadCause
    BY DEF DownloadCause
<1>4. CASE \E i \in DOMAIN timeline : Outlived(timeline[i])
    BY <1>3, <1>4 DEF DownloadMistakes
<1>5. CASE \A i \in DOMAIN timeline : ~Outlived(timeline[i])
    <2>1. OfType(Case, Samples) = {} /\ OfType(Case, {"import_blocked"}) = {}
        BY <1>0, <1>1, <1>5 DEF Outlived, WorldFits
    <2>2. NoReleaseFound(Case) = Nothing
        BY RowRules
    <2>3. RestOfRules = Nothing
        BY <1>2, <2>1, <2>2 DEF RestOfRules
    <2> QED
        BY <1>3, <2>3
<1> QED
    BY <1>4, <1>5

\* Of one that is in the client and not in error, what its latest reading shows.
LEMMA RunningFits ==
  ASSUME Ready, job.id # 0, job.at \notin {"gone", "errored"},
         RestOfRules \in OfADownload \cup {Nothing}
  PROVE  RestOfRules \in DownloadCause \cup DownloadMistakes
<1>0. /\ TypeOK /\ OnlyPast /\ LineFits(timeline) /\ WorldFits
      /\ DOMAIN timeline = 1 .. Len(timeline) /\ Len(timeline) \in Nat
      /\ hour \in Nat /\ job.id \in Nat /\ job.progress \in Nat /\ job.since \in Nat
      /\ row.inArr = TRUE /\ row.hasFile = file /\ row.hunt = hunt
    BY ReadyFields, Numbers
<1>1. /\ OfType(Case, Samples) = {i \in DOMAIN timeline : timeline[i].type = "download_progress"}
      /\ OfType(Case, {"import_blocked"}) =
           {i \in DOMAIN timeline : timeline[i].type = "import_blocked"}
      /\ Imports(Case) = {i \in DOMAIN timeline : Records(timeline[i], "imported")}
      /\ Grabs(Case) = {i \in DOMAIN timeline : Records(timeline[i], "grabbed")}
    BY Positions
<1>2. PICK n, last : n = Len(timeline) /\ last = timeline[n]
    OBVIOUS
<1>3. last = Sample /\ n \in DOMAIN timeline
    BY <1>0, <1>2, ReadyFields
<1>4. /\ last.source = "client" /\ last.facts = Facts /\ last.progress = job.progress
      /\ last.type = "download_progress"
    BY <1>3 DEF Sample
<1>5. CASE file
    <2>1. Imported
        <3>1. PICK i \in DOMAIN timeline : Records(timeline[i], "imported")
            BY <1>0, <1>5 DEF LineFits
        <3>2. timeline[i].id \in Happened("imported")
            BY <3>1 DEF Records, Happened
        <3> QED
            BY <3>2 DEF Imported
    <2>2. Outlived(last)
        BY <1>4, <2>1 DEF Outlived
    <2>3. Nothing \in DownloadCause
        BY <1>5 DEF DownloadCause
    <2> QED
        BY <1>2, <1>3, <2>2, <2>3 DEF DownloadMistakes
<1>6. CASE ~file
    <2>1. Imports(Case) = {}
        BY <1>0, <1>1, <1>6 DEF LineFits
    <2>2. NoReleaseFound(Case) = Nothing
        BY RowRules
    <2>3. n \in OfType(Case, Samples) /\ n = Max(OfType(Case, Samples))
        <3>1. n \in OfType(Case, Samples)
            BY <1>1, <1>2, <1>3, <1>4
        <3>2. /\ Max(OfType(Case, Samples)) \in OfType(Case, Samples)
              /\ \A i \in OfType(Case, Samples) : i <= Max(OfType(Case, Samples))
            BY <1>0, <1>1, <3>1, GreatestPosition
        <3>3. PICK top : top = Max(OfType(Case, Samples))
            OBVIOUS
        <3>4. top \in DOMAIN timeline /\ n <= top
            BY <1>1, <3>1, <3>2, <3>3
        <3>5. top \in Nat /\ n \in Nat /\ top <= n
            BY <1>0, <1>2, <3>4
        <3> QED
            BY <3>1, <3>3, <3>4, <3>5
    <2>4. PICK latest : latest = Latest(Case, Samples)
        OBVIOUS
    <2>5. latest.by = "client" /\ latest.facts = Facts /\ latest.progress = job.progress
        BY <1>2, <1>4, <2>3, <2>4, LatestReading
    <2>6. /\ "complete" \in Facts <=> job.progress = Full
          /\ "paused" \in Facts <=> job.at = "paused"
          /\ "recorded" \in Facts
          /\ {"errored", "unhealthy", "noSeeds", "usenet"} \cap Facts = {}
        BY DEF Facts
    <2>7. job.progress <= Full /\ Full \in Nat /\ MinDelta \in Nat /\ StallTime \in Nat
        BY <1>0, RulesAssumption DEF TypeOK, Download
    <2> HIDE DEF Facts
    <2>8. CASE job.progress = Full
        <3>1. DownloadedNotImported(Case) = "DOWNLOADED_NOT_IMPORTED"
            BY <2>1, <2>3, <2>4, <2>5, <2>6, <2>8 DEF DownloadedNotImported
        <3> QED
            BY <1>6, <2>8, <3>1 DEF RestOfRules, DownloadCause, Nothing
    <2>9. CASE job.progress # Full /\ OfType(Case, {"import_blocked"}) # {}
        <3>1. PICK i \in DOMAIN timeline : timeline[i].type = "import_blocked"
            BY <1>1, <2>9
        <3>2. Outlived(timeline[i])
            BY <1>0, <2>9, <3>1 DEF Outlived, WorldFits
        <3>3. DownloadedNotImported(Case) = "DOWNLOADED_NOT_IMPORTED"
            BY <2>1, <2>9 DEF DownloadedNotImported
        <3> QED
            BY <3>2, <3>3 DEF RestOfRules, DownloadMistakes, OfADownload, Nothing
    <2>10. CASE job.progress # Full /\ OfType(Case, {"import_blocked"}) = {}
        <3>1. DownloadedNotImported(Case) = Nothing
            BY <2>4, <2>5, <2>6, <2>10 DEF DownloadedNotImported
        <3>2. CanSpeakFor(Case, "client")
            BY ReadyFields DEF CanSpeakFor
        <3>3. CannotFinish(latest) <=> job.at = "paused"
            BY <2>5, <2>6 DEF CannotFinish
        <3>4. GrabbedButStalled(Case) =
                IF job.at = "paused" THEN "GRABBED_BUT_STALLED"
                ELSE IF Baselines(Case) = {} THEN Nothing
                ELSE IF job.progress - Case.events[Max(Baselines(Case))].progress > MinDelta THEN Nothing
                ELSE "GRABBED_BUT_STALLED"
            <4>1. OfType(Case, Samples) # {} /\ latest.facts # {}
                BY <2>3, <2>5, <2>6
            <4>2. "complete" \notin latest.facts /\ ~(latest.progress >= Full)
                BY <1>0, <2>5, <2>6, <2>7, <2>10
            <4>3. {"errored", "usenet"} \cap latest.facts = {}
                BY <2>5, <2>6
            <4>4. Case.providerDown = {} /\ Case.paused = {}
                BY OtherFields
            <4> QED
                BY <2>4, <2>5, <3>2, <3>3, <4>1, <4>2, <4>3, <4>4 DEF GrabbedButStalled
        <3>5. RestOfRules = IF GrabbedButStalled(Case) # Nothing THEN GrabbedButStalled(Case)
                            ELSE DownloadInProgress(Case)
            BY <2>2, <3>1 DEF RestOfRules
        <3>6. CASE job.at = "paused"
            BY <1>6, <2>10, <3>4, <3>5, <3>6 DEF DownloadCause, Nothing
        <3>7. CASE job.at # "paused" /\ GrabbedButStalled(Case) = Nothing
            <4>1. DownloadInProgress(Case) \in {Nothing, "DOWNLOAD_IN_PROGRESS"}
                BY Vocabulary
            <4>2. DownloadInProgress(Case) # Nothing => job.progress > 0
                BY <2>4, <2>5 DEF DownloadInProgress
            <4> QED
                BY <1>6, <2>10, <3>5, <3>7, <4>1, <4>2 DEF DownloadCause
        <3>8. CASE job.at # "paused" /\ GrabbedButStalled(Case) # Nothing
            <4>1. PICK b : b = Max(Baselines(Case))
                OBVIOUS
            <4>2. /\ RestOfRules = "GRABBED_BUT_STALLED"
                  /\ Baselines(Case) # {} /\ ~(job.progress - Case.events[b].progress > MinDelta)
                BY <3>4, <3>5, <3>8, <4>1
            <4>3. b \in Baselines(Case)
                <5>1. Baselines(Case) \subseteq 1 .. Len(timeline)
                    BY <1>0, <1>1 DEF Baselines
                <5> QED
                    BY <1>0, <4>1, <4>2, <5>1, GreatestPosition
            <4>4. PICK e : e = timeline[b]
                OBVIOUS
            <4>5. /\ b \in DOMAIN timeline /\ e.type = "download_progress"
                  /\ Case.events[b].age >= StallTime
                BY <1>1, <4>3, <4>4 DEF Baselines
            <4>6. /\ e.source = "client" /\ Case.events[b].progress = e.progress
                  /\ Case.events[b].age = hour - e.hour
                BY <4>4, <4>5, ToldEvents DEF Recorded, Sighted
            <4>7. CASE e.id # job.id
                <5>1. Outlived(timeline[b])
                    BY <4>4, <4>5, <4>7 DEF Outlived
                <5> QED
                    BY <4>2, <4>5, <5>1 DEF DownloadMistakes, OfADownload
            <4>8. CASE e.id = job.id
                <5>1. /\ e.progress <= job.progress /\ e.progress \in Nat /\ e.hour \in Nat
                      /\ e.progress = job.progress => job.since <= e.hour
                    BY <1>0, <4>4, <4>5, <4>6, <4>8, Numbers DEF LineFits, Plausible
                <5>2. hour >= StallTime /\ (hour - job.since >= StallTime \/ MinDelta > 0)
                    <6>1. hour - e.hour >= StallTime /\ ~(job.progress - e.progress > MinDelta)
                        BY <4>2, <4>5, <4>6
                    <6>2. hour >= StallTime
                        BY <1>0, <2>7, <5>1, <6>1
                    <6>3. CASE e.progress = job.progress
                        BY <1>0, <2>7, <5>1, <6>1, <6>2, <6>3
                    <6>4. CASE e.progress # job.progress
                        BY <1>0, <2>7, <5>1, <6>1, <6>2, <6>4
                    <6> QED
                        BY <6>3, <6>4
                <5> QED
                    BY <1>6, <2>10, <3>8, <4>2, <5>2 DEF DownloadCause
            <4> QED
                BY <4>7, <4>8
        <3> QED
            BY <3>6, <3>7, <3>8
    <2> QED
        BY <2>8, <2>9, <2>10
<1> QED
    BY <1>0, <1>5, <1>6 DEF TypeOK

\* What is said of the search or of a download is what it calls for, or one of the known
\* mistakes, unless it failed too often.
LEMMA DownloadFits ==
  ASSUME Ready, ~hosted, library = "on" \/ file,
         file \/ Cardinality(Happened("download_failed")) < LoopThreshold
  PROVE  Evaluate(Case) \in DownloadCause \cup DownloadMistakes
<1>0. /\ TypeOK /\ OnlyPast /\ LineFits(timeline) /\ WorldFits
      /\ DOMAIN timeline = 1 .. Len(timeline) /\ Len(timeline) \in Nat
      /\ hour \in Nat /\ job.id \in Nat /\ job.progress \in Nat /\ job.since \in Nat
      /\ row.inArr = TRUE /\ row.hasFile = file /\ row.hunt = hunt
    BY ReadyFields, Numbers
<1>1. /\ NeverAdded(Case) = Nothing /\ Unmonitored(Case) = Nothing /\ WrongQuality(Case) = Nothing
      /\ NotInMediaServer(Case) = Nothing /\ ArrivedButNotReflected(Case) = Nothing
    BY RowRules
<1>2. CASE BlocklistLoop(Case) # Nothing
    <2>1. \E i \in DOMAIN timeline : CountsAsFailed(timeline[i])
        BY <1>2, LoopRule
    <2>2. BlocklistLoop(Case) = "BLOCKLIST_LOOP"
        BY <1>2, Vocabulary
    <2>3. Evaluate(Case) = "BLOCKLIST_LOOP"
        BY <1>1, <1>2, <2>2, InTurn
    <2> QED
        BY <2>1, <2>3 DEF DownloadMistakes
<1>3. CASE BlocklistLoop(Case) = Nothing
    <2>1. Evaluate(Case) = RestOfRules
        BY <1>1, <1>3, InTurn DEF RestOfRules
    <2>2. job.id # 0 => Evaluate(Case) \in OfADownload \cup {Nothing}
        BY <1>3, FourWords
    <2>3. CASE job.id = 0
        BY <2>1, <2>3, SearchFits
    <2>4. CASE job.id # 0 /\ job.at = "gone"
        BY <2>1, <2>2, <2>4, GoneFits
    <2>5. CASE job.id # 0 /\ job.at = "errored"
        BY <2>2, <2>5 DEF DownloadMistakes
    <2>6. CASE job.id # 0 /\ job.at \notin {"gone", "errored"}
        BY <2>1, <2>2, <2>6, RunningFits
    <2> QED
        BY <2>3, <2>4, <2>5, <2>6
<1> QED
    BY <1>2, <1>3

-----------------------------------------------------------------------------
(* The verdict                                                             *)

\* What a steady cycle says is a cause or a known mistake.
LEMMA Verdict ==
  ASSUME Evidence, stage = 7, steady
  PROVE  Diagnose(Case) \in Cause \cup Mistakes
<1>0. /\ TypeOK /\ WorldFits /\ RowIsCurrent
      /\ library \in {"absent", "off", "on"} /\ file \in BOOLEAN
      /\ asked \in {"approved", "completed"}
    BY DEF Evidence, IInv, TypeOK
<1>1. CASE library = "absent"
    <2>1. asked = "approved"
        BY <1>0, <1>1 DEF WorldFits
    <2>2. stage >= 2
        BY stage = 7
    <2>3. health["radarr"] = "fine" /\ row.inArr = FALSE
        BY <1>0, <1>1, <2>2, Zenon DEF RowIsCurrent
    <2>4. NeverAdded(Case) = "NEVER_ADDED"
        <3>1. "radarr" \notin barren
            BY <1>0 DEF TypeOK, Players
        <3>2. CanSpeakFor(Case, "radarr")
            BY <2>3, <3>1, CaseFields DEF CanSpeakFor, Servers
        <3> QED
            BY <2>1, <2>3, <3>2, CaseFields DEF NeverAdded, NoService
    <2>5. ~Fulfilled(Case)
        BY <2>1, CaseFields DEF Fulfilled
    <2>6. Diagnose(Case) = "NEVER_ADDED"
        BY <2>4, <2>5, VerdictsOfRow
    <2>7. "NEVER_ADDED" \in UpstreamCause
        BY <1>1 DEF UpstreamCause
    <2> QED
        BY <2>6, <2>7 DEF Cause
<1>2. CASE library # "absent"
    <2>1. Ready
        BY <1>2 DEF Ready
    <2>2. CASE hosted
        <3>1. file
            BY <1>0, <2>2 DEF WorldFits
        <3>2. UpstreamCause = {}
            BY <1>2, <3>1 DEF UpstreamCause
        <3> QED
            BY <2>1, <2>2, <3>2, ArrivalFits DEF Cause, Mistakes
    <2>3. CASE ~hosted
        <3>1. ~Fulfilled(Case)
            BY <1>0, <2>3, CaseFields DEF Fulfilled, WorldFits
        <3>2. Diagnose(Case) = Evaluate(Case)
            BY <3>1 DEF Diagnose
        <3> DEFINE loop == Cardinality(Happened("download_failed")) >= LoopThreshold
        <3>3. CASE library = "off" /\ ~file
            <4>1. NeverAdded(Case) = Nothing /\ Unmonitored(Case) = "UNMONITORED"
                BY <2>1, <3>3, RowRules
            <4>2. Evaluate(Case) = "UNMONITORED"
                BY <4>1, InTurn DEF Nothing
            <4>3. "UNMONITORED" \in UpstreamCause
                BY <3>3 DEF UpstreamCause
            <4> QED
                BY <3>2, <4>2, <4>3 DEF Cause
        <3>4. CASE library = "on" /\ ~file /\ loop
            <4>1. /\ NeverAdded(Case) = Nothing /\ Unmonitored(Case) = Nothing
                  /\ BlocklistLoop(Case) = "BLOCKLIST_LOOP"
                BY <2>1, <3>4, RowRules, LoopRule
            <4>2. Evaluate(Case) = "BLOCKLIST_LOOP"
                BY <4>1, InTurn DEF Nothing
            <4>3. "BLOCKLIST_LOOP" \in UpstreamCause
                BY <3>4 DEF UpstreamCause
            <4> QED
                BY <3>2, <4>2, <4>3 DEF Cause
        <3>5. CASE (library = "on" \/ file) /\ (file \/ ~loop)
            <4>1. file \/ Cardinality(Happened("download_failed")) < LoopThreshold
                <5>1. IsFiniteSet(Happened("download_failed"))
                    <6>1. LineFits(timeline) /\ job.id \in Nat
                        BY <2>1, ReadyFields, Numbers
                    <6>2. Happened("download_failed") \subseteq 1 .. job.id
                        BY <6>1 DEF Happened, LineFits, Plausible
                    <6> QED
                        BY <6>1, <6>2, FinitelyMany
                <5>2. Cardinality(Happened("download_failed")) \in Nat /\ LoopThreshold \in Nat
                    BY <5>1, FS_CardinalityType, RulesAssumption
                <5> QED
                    BY <3>5, <5>2
            <4>2. Evaluate(Case) \in DownloadCause \cup DownloadMistakes
                BY <2>1, <2>3, <3>5, <4>1, DownloadFits
            <4>3. UpstreamCause = {}
                BY <1>2, <3>5 DEF UpstreamCause
            <4> QED
                BY <2>3, <3>2, <4>2, <4>3 DEF Cause, Mistakes
        <3> QED
            BY <1>0, <1>2, <3>3, <3>4, <3>5
    <2> QED
        BY <2>2, <2>3
<1> QED
    BY <1>1, <1>2

\* A step that ends a steady cycle says a cause or a known mistake.
LEMMA SteadyStep ==
  ASSUME Evidence, [Next]_vars, SteadilyDiagnosed
  PROVE  verdict' \in Cause \cup Mistakes
<1>1. stage = 7 /\ steady /\ Diagnosed /\ TypeOK
    BY Bounds DEF SteadilyDiagnosed, Diagnosed, Evidence, IInv
<1>2. verdict' = Diagnose(Case)
    BY <1>1, DiagnosisStep
<1> QED
    BY <1>1, <1>2, Verdict

\* A cycle that saw everything names the cause that Radarr, its client and the libraries give,
\* or makes one of the mistakes that are listed, whatever earlier cycles missed, failed to read
\* or read in another order: the ten rules in their order (core/rules/__init__.py), the refreshed
\* queue rows, the hourly samples and the libraries' marks work together for it.
THEOREM CauseNamed == Spec => NamesTheCause
<1>1. Evidence /\ [Next]_vars => [SteadilyDiagnosed => verdict' \in Cause \cup Mistakes]_vars
    BY SteadyStep
<1> QED
    BY <1>1, EvidenceHolds, PTL DEF Spec, NamesTheCause
=============================================================================
