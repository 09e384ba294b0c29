---------------------------- MODULE OmbiSyncProofs ----------------------------
(***************************************************************************)
(* Proofs about OmbiSync, for every number of requests, every split of     *)
(* them between the two arrays, every streak limit, window and number of   *)
(* failures: its types, that a walk over unsorted arrays that counts as    *)
(* complete has seen every tracked request as long as none is older than   *)
(* the window, and that it keeps the promise of RequestMirror.             *)
(***************************************************************************)
EXTENDS OmbiSync, FiniteSetTheorems, TLAPS

(* The inductive invariant.                                                *)

TypeOK ==
  /\ SyncTypeOK
  /\ present \subseteq Ids
  /\ endpoint \in {"movie", "tv"}

\* Nothing upstream, fetched or stored is newer than the newest request made.
MadeBounds ==
  /\ tracked \subseteq 1 .. made
  /\ present \subseteq 1 .. made
  /\ \A k \in 1 .. Len(page) : page[k].id \in 1 .. made

\* What the walk's local variables hold in its phases.
Phases ==
  /\ page # <<>> => pc = "apply"
  /\ pc = "apply" => endpoint = "tv"
  /\ complete => pc \in {"settle", "save"}
  /\ seen \subseteq tracked
  /\ cutoff <= oldest

\* Request i is in an array that is still to be fetched.
Ahead(i) ==
  \/ pc = "fetch" /\ (endpoint = "movie" \/ i \in Television)
  \/ pc = "apply" /\ more /\ i \in Television

\* Request i has been seen, waits on the page, or is still ahead.
Covered(i) ==
  \/ i \in seen
  \/ \E j \in 1 .. Len(page) : page[j].id = i
  \/ Ahead(i)

\* While no request is older than the window, the walk leaves no tracked one behind.
Coverage ==
  oldest = 0 /\ (pc \in {"fetch", "apply"} \/ (pc = "settle" /\ complete)) =>
    \A i \in present \cap tracked : Covered(i)

Places == MadeBounds /\ Phases /\ Coverage

IInv == TypeOK /\ Places

-----------------------------------------------------------------------------
(* Lemmas about pages and arrays                                           *)

LEMMA EmptyPage == <<>> \in Seq(Rows)
  OBVIOUS

\* What taking the first row leaves: the other rows, one place earlier.
LEMMA PageHeadTail ==
  ASSUME NEW S, NEW s \in Seq(S), s # <<>>
  PROVE  /\ Head(s) \in S /\ Head(s) = s[1] /\ Len(s) \in Nat \ {0}
         /\ Tail(s) \in Seq(S) /\ Len(Tail(s)) = Len(s) - 1
         /\ \A j \in 1 .. Len(s) - 1 : Tail(s)[j] = s[j + 1]
  OBVIOUS

LEMMA PageIsSequence ==
  ASSUME NEW S, NEW n \in Nat, NEW f \in [1 .. n -> S]
  PROVE  f \in Seq(S) /\ Len(f) = n /\ DOMAIN f = 1 .. Len(f)
  OBVIOUS

\* What an endpoint answers is a page, of the requests it was asked for and all of them.
LEMMA ArrayProperties ==
  ASSUME NEW S \in SUBSET Ids, NEW rows \in Arrays(S)
  PROVE  /\ rows \in Seq(Rows)
         /\ \A k \in 1 .. Len(rows) : rows[k].id \in S
         /\ \A i \in S : \E k \in 1 .. Len(rows) : rows[k].id = i
<1>1. IsFiniteSet(S)
  <2>1. IsFiniteSet(Ids)
    BY FS_Interval, RequestSyncAssumption DEF Ids, RequestSyncAssumption
  <2>. QED
    BY <2>1, FS_Subset
<1>2. Cardinality(S) \in Nat
  BY <1>1, FS_CardinalityType
<1> DEFINE Row == [id : S, version : Versions]
<1>3. /\ rows \in [1 .. Cardinality(S) -> Row]
      /\ \A i \in S : \E k \in DOMAIN rows : rows[k].id = i
  BY DEF Arrays
<1>4. \A r \in Row : r.id \in S /\ r \in Rows
  BY DEF Rows
<1> HIDE DEF Row
<1>5. rows \in [1 .. Cardinality(S) -> Rows] /\ \A k \in 1 .. Cardinality(S) : rows[k].id \in S
  BY <1>3, <1>4
<1>6. /\ rows \in Seq(Rows) /\ Len(rows) = Cardinality(S)
      /\ DOMAIN rows = 1 .. Len(rows)
  BY <1>2, <1>5, PageIsSequence
<1> QED
  BY <1>3, <1>5, <1>6

\* The array that is fetched, whichever endpoint it is of, lists requests Ombi holds.
LEMMA FetchedArray ==
  ASSUME TypeOK, FetchArray
  PROVE  /\ page' \in Seq(Rows)
         /\ \A k \in 1 .. Len(page') : page'[k].id \in present
         /\ \A i \in present :
              i \in Television <=> endpoint = "tv" =>
                \E k \in 1 .. Len(page') : page'[k].id = i
<1> DEFINE S == IF endpoint = "movie" THEN present \ Television
                                      ELSE present \cap Television
<1>1. page' \in Arrays(S)
  BY DEF FetchArray
<1>2. S \in SUBSET Ids /\ S \subseteq present
  BY DEF TypeOK
<1>3. \A i \in present : (i \in Television <=> endpoint = "tv") => i \in S
  BY DEF TypeOK
<1> HIDE DEF S
<1> QED
  BY <1>1, <1>2, <1>3, ArrayProperties

-----------------------------------------------------------------------------
(* Types                                                                   *)

\* A walk that is over, or none yet, leaves local variables of the right types.
LEMMA EndWalkType ==
  EndWalk => /\ pc' = "idle" /\ cutoff' = 0
             /\ reconciling' \in BOOLEAN /\ walkBackfilled' \in BOOLEAN
             /\ seen' = {} /\ streak' = 0 /\ complete' \in BOOLEAN
             /\ page' = <<>> /\ more' \in BOOLEAN
  BY DEF EndWalk

LEMMA InitType == Init => TypeOK
<1> SUFFICES ASSUME Init PROVE TypeOK
  OBVIOUS
<1> USE RequestSyncAssumption DEF RequestSyncAssumption, Init, SyncInit, Ids
<1>1. 1 \in Versions
  BY DEF Versions
<1>2. made \in 0 .. MaxRequest /\ oldest \in 0 .. MaxRequest /\ faults \in 0 .. MaxFaults
  OBVIOUS
<1>3. version \in [Ids -> Versions] /\ known \in [Ids -> Versions]
  BY <1>1
<1>4. pc = "idle" /\ cutoff \in 0 .. MaxRequest /\ streak \in Nat
  BY DEF NoWalk
<1>5. /\ reconciling \in BOOLEAN /\ walkBackfilled \in BOOLEAN
      /\ complete \in BOOLEAN /\ more \in BOOLEAN
  BY DEF NoWalk
<1>6. seen = {} /\ page \in Seq(Rows)
  BY EmptyPage DEF NoWalk
<1> QED
  BY <1>2, <1>3, <1>4, <1>5, <1>6 DEF TypeOK, SyncTypeOK

LEMMA StepType == TypeOK /\ [Next]_vars => TypeOK'
<1> SUFFICES ASSUME TypeOK, [Next]_vars PROVE TypeOK'
  OBVIOUS
<1> USE RequestSyncAssumption, EmptyPage
    DEF RequestSyncAssumption, TypeOK, SyncTypeOK, syncVars, ombiVars, upstreamVars,
        rowVars, cursorVars, walkVars
<1>1. CASE Begin
  BY <1>1 DEF Begin, BeginWalk
<1>2. CASE FetchArray
  <2>1. page' \in Seq(Rows)
    BY <1>2, FetchedArray
  <2>2. more' \in BOOLEAN /\ endpoint' = "tv" /\ pc' = "apply"
    BY <1>2 DEF FetchArray
  <2>. QED
    BY <1>2, <2>1, <2>2 DEF FetchArray
<1>3. CASE TakeRow
  <2>1. ApplyRow(FALSE) /\ UNCHANGED <<faults, ombiVars>>
    BY <1>3 DEF TakeRow
  <2>2. Head(page) \in Rows /\ Tail(page) \in Seq(Rows)
    BY <2>1, PageHeadTail DEF ApplyRow
  <2>3. Head(page).id \in Ids /\ Head(page).version \in Versions
    BY <2>2 DEF Rows
  <2>. QED
    BY <2>1, <2>2, <2>3 DEF ApplyRow, Upsert
<1>4. CASE (ReachCutoff \/ NextPage \/ RunOut) /\ UNCHANGED ombiVars
  BY <1>4 DEF ReachCutoff, NextPage, RunOut
<1>5. CASE Settle /\ UNCHANGED ombiVars
  BY <1>5 DEF Settle, Versions
<1>6. CASE SaveCursor /\ UNCHANGED ombiVars
  <2>1. EndWalk /\ backfilled' \in BOOLEAN /\ reconcileDue' \in BOOLEAN
    BY <1>6 DEF SaveCursor
  <2>2. UNCHANGED <<upstreamVars, rowVars, oldest, faults, ombiVars>>
    BY <1>6 DEF SaveCursor
  <2>. QED
    BY <2>1, <2>2, EndWalkType
<1>7. CASE MakeRequest
  BY <1>7 DEF MakeRequest, Ids
<1>8. CASE \E i \in present : WithdrawRequest(i)
  BY <1>8 DEF WithdrawRequest
<1>9. CASE \E i \in present : ChangeUpstream(i) /\ UNCHANGED ombiVars
  BY <1>9 DEF ChangeUpstream, Versions
<1>10. CASE GrowOld /\ UNCHANGED ombiVars
  BY <1>10 DEF GrowOld
<1>11. CASE (FetchFails \/ Interrupted) /\ UNCHANGED ombiVars
  <2>1. EndWalk /\ faults' \in 0 .. MaxFaults
    BY <1>11 DEF FetchFails, Interrupted
  <2>2. UNCHANGED <<upstreamVars, rowVars, cursorVars, oldest, ombiVars>>
    BY <1>11 DEF FetchFails, Interrupted
  <2>. QED
    BY <2>1, <2>2, EndWalkType
<1>12. CASE Elapse
  BY <1>12 DEF Elapse, ReconcileFallsDue
<1>13. CASE UNCHANGED vars
  BY <1>13 DEF vars
<1> QED
  BY <1>1, <1>2, <1>3, <1>4, <1>5, <1>6, <1>7, <1>8, <1>9, <1>10, <1>11, <1>12, <1>13
     DEF Next, Walk, Environment

\* The types of the walk over Ombi: among them that only rows that exist have titles, so
\* removing a request removes what hangs off it (_remove_deleted's cascade).
THEOREM TypeCorrect == Spec => []TypeOK
  BY InitType, StepType, PTL DEF Spec

-----------------------------------------------------------------------------
(* Every step keeps the invariant                                          *)

\* The numbers behind the types.
LEMMA Numbers ==
  ASSUME TypeOK
  PROVE  /\ made \in Nat /\ cutoff \in Nat /\ oldest \in Nat /\ Len(page) \in Nat
         /\ Ids \subseteq Nat
         /\ \A k \in 1 .. Len(page) : page[k].id \in Ids /\ page[k].id > 0
<1>1. MaxRequest \in Nat /\ Ids = 1 .. MaxRequest
  BY RequestSyncAssumption DEF Ids, RequestSyncAssumption
<1>2. \A k \in 1 .. Len(page) : page[k] \in Rows
  BY DEF TypeOK, SyncTypeOK
<1>3. \A k \in 1 .. Len(page) : page[k].id \in Ids
  BY <1>2 DEF Rows
<1>4. made \in Nat /\ cutoff \in Nat /\ oldest \in Nat /\ Len(page) \in Nat
  BY <1>1 DEF TypeOK, SyncTypeOK
<1> QED
  BY <1>1, <1>3, <1>4

\* Steps that leave the walk, the rows and what Ombi holds alone.
LEMMA QuietStep ==
  ASSUME TypeOK, Places,
         UNCHANGED <<made, tracked, walkVars, ombiVars>>,
         oldest' \in Nat, oldest <= oldest'
  PROVE  Places'
<1>1. UNCHANGED <<made, tracked, pc, cutoff, seen, complete, page, more, present, endpoint>>
  BY DEF walkVars, ombiVars
<1>2. (oldest' = 0 => oldest = 0) /\ (cutoff <= oldest => cutoff <= oldest')
  BY Numbers
<1> QED
  BY <1>1, <1>2 DEF Places, MadeBounds, Phases, Coverage, Covered, Ahead

\* Steps that end the walk and leave the rows and what Ombi holds alone.
LEMMA WalkOver ==
  ASSUME TypeOK, Places, EndWalk, UNCHANGED <<made, tracked, oldest, ombiVars>>
  PROVE  Places'
<1>1. pc' = "idle" /\ seen' = {} /\ page' = <<>> /\ complete' = FALSE /\ cutoff' = 0
  BY DEF EndWalk
<1>2. UNCHANGED <<made, tracked, present, endpoint, oldest>>
  BY DEF ombiVars
<1>3. cutoff' <= oldest'
  BY <1>1, <1>2, Numbers
<1> QED
  BY <1>1, <1>2, <1>3 DEF Places, MadeBounds, Phases, Coverage

LEMMA BeginStep ==
  ASSUME TypeOK, Places, Begin PROVE Places'
<1>1. /\ pc' = "fetch" /\ seen' = {} /\ page' = <<>> /\ complete' = FALSE
      /\ cutoff' = oldest /\ endpoint' = "movie"
      /\ UNCHANGED <<made, tracked, present, oldest>>
  BY DEF Begin, BeginWalk, upstreamVars, rowVars
<1>2. cutoff' <= oldest'
  BY <1>1, Numbers
<1>3. \A i \in present : Covered(i)'
  BY <1>1 DEF Covered, Ahead
<1> QED
  BY <1>1, <1>2, <1>3 DEF Places, MadeBounds, Phases, Coverage

LEMMA FetchArrayStep ==
  ASSUME TypeOK, Places, FetchArray PROVE Places'
<1>1. /\ pc = "fetch" /\ pc' = "apply" /\ page = <<>> /\ endpoint' = "tv"
      /\ more' = (endpoint = "movie")
      /\ UNCHANGED <<made, tracked, cutoff, seen, complete, present, oldest>>
  BY DEF FetchArray, upstreamVars, rowVars, Places, Phases
<1>2. MadeBounds'
  BY <1>1, FetchedArray DEF Places, MadeBounds
<1>3. Phases'
  BY <1>1 DEF Places, Phases
<1>4. ASSUME NEW i \in present, Covered(i) PROVE Covered(i)'
  <2>1. CASE i \in seen
    BY <2>1, <1>1 DEF Covered
  <2>2. CASE i \in Television <=> endpoint = "tv"
    BY <2>2, FetchedArray DEF Covered
  <2>3. CASE i \in Television /\ endpoint = "movie"
    BY <2>3, <1>1 DEF Covered, Ahead
  <2>4. CASE i \notin Television /\ endpoint = "tv"
    BY <2>4, <1>1, <1>4 DEF Covered, Ahead
  <2>5. endpoint \in {"movie", "tv"}
    BY DEF TypeOK
  <2>. QED
    BY <2>1, <2>2, <2>3, <2>4, <2>5
<1>5. Coverage'
  BY <1>1, <1>4 DEF Places, Coverage
<1> QED
  BY <1>2, <1>3, <1>5 DEF Places

LEMMA TakeRowStep ==
  ASSUME TypeOK, Places, TakeRow PROVE Places'
<1> DEFINE row == Head(page)
<1>1. /\ pc = "apply" /\ page # <<>> /\ page \in Seq(Rows)
      /\ seen' = seen \cup {row.id} /\ tracked' = tracked \cup {row.id}
      /\ page' = IF CaughtUp(row) THEN <<>> ELSE Tail(page)
      /\ pc' = IF CaughtUp(row) THEN "settle" ELSE "apply"
      /\ UNCHANGED <<made, present, endpoint, cutoff, oldest, complete, more>>
  BY DEF TakeRow, ApplyRow, Upsert, TypeOK, SyncTypeOK, ombiVars, upstreamVars
<1>2. /\ row = page[1] /\ Len(page) \in Nat \ {0}
      /\ Len(Tail(page)) = Len(page) - 1
      /\ \A j \in 1 .. Len(page) - 1 : Tail(page)[j] = page[j + 1]
  BY <1>1, PageHeadTail
<1>3. row.id \in 1 .. made
  BY <1>2 DEF Places, MadeBounds
<1>4. \A j \in 1 .. Len(page') : j + 1 \in 1 .. Len(page) /\ page'[j] = page[j + 1]
  BY <1>1, <1>2
<1>5. MadeBounds'
  BY <1>1, <1>3, <1>4 DEF Places, MadeBounds
<1>6. Phases'
  BY <1>1 DEF Places, Phases
<1>7. ASSUME ~CaughtUp(row), NEW i, Covered(i) PROVE Covered(i)'
  <2>1. CASE i \in seen
    BY <2>1, <1>1 DEF Covered
  <2>2. ASSUME NEW j \in 1 .. Len(page), page[j].id = i PROVE Covered(i)'
    <3>1. CASE j = 1
      BY <3>1, <2>2, <1>1, <1>2 DEF Covered
    <3>2. CASE j > 1
      <4>1. j - 1 \in 1 .. Len(page') /\ page'[j - 1] = page[j]
        BY <3>2, <1>1, <1>2, <1>7
      <4>. QED
        BY <4>1, <2>2 DEF Covered
    <3>. QED
      BY <3>1, <3>2
  <2>3. CASE Ahead(i)
    BY <2>3, <1>1, <1>7 DEF Covered, Ahead
  <2>. QED
    BY <1>7, <2>1, <2>2, <2>3 DEF Covered
<1>8. Coverage'
  <2>1. CASE CaughtUp(row)
    BY <2>1, <1>1 DEF Places, Phases, Coverage
  <2>2. CASE ~CaughtUp(row)
    <3>1. ASSUME oldest = 0, NEW i \in present, i \in tracked' PROVE Covered(i)'
      BY <3>1, <2>2, <1>1, <1>7 DEF Places, Coverage, Covered
    <3>. QED
      BY <3>1, <1>1 DEF Coverage
  <2>. QED
    BY <2>1, <2>2
<1> QED
  BY <1>5, <1>6, <1>8 DEF Places

\* The one row that may end the walk too early is older than the window.
LEMMA ReachCutoffStep ==
  ASSUME TypeOK, Places, ReachCutoff, UNCHANGED ombiVars PROVE Places'
<1>1. /\ pc = "apply" /\ pc' = "settle" /\ page # <<>> /\ page' = <<>>
      /\ Head(page).id <= cutoff
      /\ UNCHANGED <<made, tracked, cutoff, seen, present, endpoint, oldest>>
  BY DEF ReachCutoff, ombiVars, upstreamVars, rowVars
<1>2. oldest # 0
  <2>1. Head(page) = page[1] /\ Len(page) \in Nat \ {0}
    BY <1>1, PageHeadTail DEF TypeOK, SyncTypeOK
  <2>2. page[1].id > 0 /\ page[1].id \in Nat
    BY <2>1, Numbers
  <2>. QED
    BY <1>1, <2>1, <2>2, Numbers DEF Places, Phases
<1> QED
  BY <1>1, <1>2 DEF Places, MadeBounds, Phases, Coverage

LEMMA NextPageStep ==
  ASSUME TypeOK, Places, NextPage, UNCHANGED ombiVars PROVE Places'
<1>1. /\ pc = "apply" /\ pc' = "fetch" /\ page = <<>> /\ more
      /\ UNCHANGED <<made, tracked, cutoff, seen, complete, page, more,
                     present, endpoint, oldest>>
  BY DEF NextPage, ombiVars, upstreamVars, rowVars
<1>2. \A i : Covered(i) => Covered(i)'
  BY <1>1 DEF Covered, Ahead
<1> QED
  BY <1>1, <1>2 DEF Places, MadeBounds, Phases, Coverage

LEMMA RunOutStep ==
  ASSUME TypeOK, Places, RunOut, UNCHANGED ombiVars PROVE Places'
<1>1. /\ pc = "apply" /\ pc' = "settle" /\ page = <<>> /\ ~more
      /\ UNCHANGED <<made, tracked, cutoff, seen, page, present, endpoint, oldest>>
  BY DEF RunOut, ombiVars, upstreamVars, rowVars
<1>2. \A i : Covered(i) => i \in seen
  BY <1>1 DEF Covered, Ahead
<1>3. \A i \in seen : Covered(i)'
  BY <1>1 DEF Covered
<1> QED
  BY <1>1, <1>2, <1>3 DEF Places, MadeBounds, Phases, Coverage

LEMMA SettleStep ==
  ASSUME TypeOK, Places, Settle, UNCHANGED ombiVars PROVE Places'
<1>1. /\ pc = "settle" /\ pc' = "save" /\ page' = page
      /\ UNCHANGED <<made, seen, complete, cutoff, oldest, present, endpoint>>
      /\ tracked' = tracked \ (IF reconciling /\ complete THEN Stale ELSE {})
  BY DEF Settle, ombiVars, upstreamVars
<1>2. page = <<>> /\ seen \cap Stale = {}
  BY <1>1 DEF Places, Phases, Stale
<1> QED
  BY <1>1, <1>2 DEF Places, MadeBounds, Phases, Coverage

LEMMA MakeRequestStep ==
  ASSUME TypeOK, Places, MakeRequest PROVE Places'
<1>1. /\ made' = made + 1 /\ present' = present \cup {made + 1}
      /\ UNCHANGED <<tracked, pc, cutoff, oldest, seen, complete, page, more, endpoint>>
  BY DEF MakeRequest, walkVars, rowVars
<1>2. made + 1 \notin tracked /\ 1 .. made \subseteq 1 .. made' /\ made + 1 \in 1 .. made'
  BY <1>1, Numbers DEF Places, MadeBounds
<1>3. MadeBounds'
  BY <1>1, <1>2 DEF Places, MadeBounds
<1>4. \A i : Covered(i) => Covered(i)'
  BY <1>1 DEF Covered, Ahead
<1> QED
  BY <1>1, <1>2, <1>3, <1>4 DEF Places, Phases, Coverage

LEMMA WithdrawRequestStep ==
  ASSUME TypeOK, Places, NEW w \in present, WithdrawRequest(w) PROVE Places'
<1>1. /\ present' = present \ {w}
      /\ UNCHANGED <<made, tracked, pc, cutoff, oldest, seen, complete, page, more, endpoint>>
  BY DEF WithdrawRequest, walkVars, rowVars, upstreamVars
<1>2. \A i : Covered(i) => Covered(i)'
  BY <1>1 DEF Covered, Ahead
<1> QED
  BY <1>1, <1>2 DEF Places, MadeBounds, Phases, Coverage

LEMMA InitPlaces == Init => Places
  BY DEF Init, SyncInit, NoWalk, Places, MadeBounds, Phases, Coverage

LEMMA StepPlaces == TypeOK /\ Places /\ [Next]_vars => Places'
<1> SUFFICES ASSUME TypeOK, Places, [Next]_vars PROVE Places'
  OBVIOUS
<1>1. CASE Begin \/ FetchArray \/ TakeRow
  BY <1>1, BeginStep, FetchArrayStep, TakeRowStep
<1>2. CASE (ReachCutoff \/ NextPage \/ RunOut \/ Settle) /\ UNCHANGED ombiVars
  BY <1>2, ReachCutoffStep, NextPageStep, RunOutStep, SettleStep
<1>3. CASE (SaveCursor \/ FetchFails \/ Interrupted) /\ UNCHANGED ombiVars
  <2>1. EndWalk /\ UNCHANGED <<made, tracked, oldest, ombiVars>>
    BY <1>3 DEF SaveCursor, FetchFails, Interrupted, upstreamVars, rowVars
  <2>. QED
    BY <2>1, WalkOver
<1>4. CASE MakeRequest
  BY <1>4, MakeRequestStep
<1>5. CASE \E w \in present : WithdrawRequest(w)
  BY <1>5, WithdrawRequestStep
<1>6. CASE \E i \in present : ChangeUpstream(i) /\ UNCHANGED ombiVars
  <2>1. UNCHANGED <<made, tracked, oldest, walkVars, ombiVars>>
    BY <1>6 DEF ChangeUpstream, rowVars
  <2>. QED
    BY <2>1, QuietStep, Numbers
<1>7. CASE (GrowOld \/ ReconcileFallsDue) /\ UNCHANGED ombiVars
  <2>1. UNCHANGED <<made, tracked, walkVars, ombiVars>> /\ oldest' \in {oldest, oldest + 1}
    BY <1>7 DEF GrowOld, ReconcileFallsDue, upstreamVars, rowVars
  <2>. QED
    BY <2>1, QuietStep, Numbers
<1>8. CASE UNCHANGED vars
  <2>1. UNCHANGED <<made, tracked, oldest, walkVars, ombiVars>>
    BY <1>8 DEF vars, syncVars, upstreamVars, rowVars
  <2>. QED
    BY <2>1, QuietStep, Numbers
<1> QED
  BY <1>1, <1>2, <1>3, <1>4, <1>5, <1>6, <1>7, <1>8
     DEF Next, Walk, Environment, Elapse

LEMMA Inductive == Spec => []IInv
<1>1. Init => IInv
  BY InitType, InitPlaces DEF IInv
<1>2. IInv /\ [Next]_vars => IInv'
  BY StepType, StepPlaces DEF IInv
<1> QED
  BY <1>1, <1>2, PTL DEF Spec

LEMMA CompleteMeansSeen == IInv /\ oldest = 0 => EverythingNewerSeen
<1> SUFFICES ASSUME Places, oldest = 0, pc = "settle", complete,
                    NEW i \in present \cap tracked
             PROVE  i \in seen
  BY DEF EverythingNewerSeen, IInv
<1>1. page = <<>> /\ ~Ahead(i)
  BY DEF Places, Phases, Ahead
<1>2. Covered(i)
  BY DEF Places, Coverage
<1> QED
  BY <1>1, <1>2 DEF Covered

\* What the comment at the cutoff of sync_service_requests says, "everything newer has
\* been seen", is true of Ombi's unsorted arrays for as long as no request is older than
\* backfill_days, however requests come and go between the two calls.  Once one is, the
\* run OmbiCutoff shows it false.
THEOREM SeenWhileNoneIsOld == Spec => [](oldest = 0 => EverythingNewerSeen)
  BY Inductive, CompleteMeansSeen, PTL

-----------------------------------------------------------------------------
(* The walk implements RequestMirror                                       *)

LEMMA InitMirrors == Init => Mirror!Init
<1> SUFFICES ASSUME Init PROVE Mirror!Init
  OBVIOUS
<1>1. made = 0 /\ present = {} /\ tracked = {} /\ (oldest > 0) = FALSE
  BY DEF Init, SyncInit
<1> QED
  BY <1>1 DEF Mirror!Init

\* Steps that change nothing the mirror's promise speaks of.
LEMMA MirrorStutters ==
  ASSUME UNCHANGED <<made, tracked, oldest, present>> PROVE UNCHANGED Mirror!mirrorVars
  BY DEF Mirror!mirrorVars

LEMMA TakeRowMirrors ==
  ASSUME TypeOK, Places, TakeRow PROVE \E i \in 1 .. made : Mirror!Learn(i)
<1>1. /\ page # <<>> /\ page \in Seq(Rows) /\ tracked' = tracked \cup {Head(page).id}
      /\ UNCHANGED <<made, present, oldest>>
  BY DEF TakeRow, ApplyRow, Upsert, ombiVars, upstreamVars, TypeOK, SyncTypeOK
<1>2. Head(page).id \in 1 .. made
  BY <1>1, PageHeadTail DEF Places, MadeBounds
<1>3. Mirror!Learn(Head(page).id)
  BY <1>1, <1>2 DEF Mirror!Learn
<1> QED
  BY <1>2, <1>3

LEMMA SettleMirrors ==
  ASSUME TypeOK, Places, Settle, UNCHANGED ombiVars
  PROVE  (\E gone \in SUBSET tracked : Mirror!Forget(gone)) \/ UNCHANGED Mirror!mirrorVars
<1> DEFINE gone == IF reconciling /\ complete THEN Stale ELSE {}
<1>1. /\ pc = "settle" /\ UNCHANGED <<made, present, oldest>> /\ tracked' = tracked \ gone
  BY DEF Settle, ombiVars, upstreamVars
<1>2. CASE gone = {}
  BY <1>1, <1>2 DEF Mirror!mirrorVars
<1>3. CASE gone # {}
  <2>1. complete /\ gone = {i \in tracked : i > cutoff /\ i \notin seen} /\ seen # {}
    BY <1>3 DEF Stale
  <2>2. seen \subseteq tracked'
    BY <2>1, <1>1 DEF Places, Phases
  <2>3. oldest > 0 \/ gone \cap present = {}
    <3>1. oldest = 0 => EverythingNewerSeen
      BY CompleteMeansSeen DEF IInv
    <3>2. oldest = 0 \/ oldest > 0
      BY Numbers
    <3>. QED
      BY <3>1, <3>2, <2>1, <1>1 DEF EverythingNewerSeen
  <2>4. gone \in SUBSET tracked
    BY <2>1
  <2> HIDE DEF gone
  <2>5. Mirror!Forget(gone)
    BY <1>1, <1>3, <2>1, <2>2, <2>3 DEF Mirror!Forget
  <2>. QED
    BY <2>4, <2>5
<1> QED
  BY <1>2, <1>3

LEMMA StepMirrors == IInv /\ [Next]_vars => [Mirror!Next]_(Mirror!mirrorVars)
<1> SUFFICES ASSUME TypeOK, Places, [Next]_vars
             PROVE  Mirror!Next \/ UNCHANGED Mirror!mirrorVars
  BY DEF IInv
<1>1. CASE Begin \/ FetchArray
  <2>1. UNCHANGED <<made, tracked, oldest, present>>
    BY <1>1 DEF Begin, BeginWalk, FetchArray, upstreamVars, rowVars
  <2>. QED
    BY <2>1, MirrorStutters
<1>2. CASE TakeRow
  BY <1>2, TakeRowMirrors DEF Mirror!Next
<1>3. CASE Settle /\ UNCHANGED ombiVars
  BY <1>3, SettleMirrors DEF Mirror!Next
<1>4. CASE (\/ ReachCutoff \/ NextPage \/ RunOut \/ SaveCursor
            \/ FetchFails \/ Interrupted \/ ReconcileFallsDue) /\ UNCHANGED ombiVars
  <2>1. UNCHANGED <<made, tracked, oldest, present>>
    BY <1>4 DEF ReachCutoff, NextPage, RunOut, SaveCursor, FetchFails, Interrupted,
                ReconcileFallsDue, upstreamVars, rowVars, ombiVars
  <2>. QED
    BY <2>1, MirrorStutters
<1>5. CASE GrowOld /\ UNCHANGED ombiVars
  <2>1. UNCHANGED <<made, tracked, present>> /\ oldest' = oldest + 1
    BY <1>5 DEF GrowOld, upstreamVars, rowVars, ombiVars
  <2>2. (oldest' > 0) = TRUE
    BY <2>1, Numbers
  <2>. QED
    BY <2>1, <2>2 DEF Mirror!Next, Mirror!Disturb
<1>6. CASE MakeRequest
  BY <1>6 DEF MakeRequest, rowVars, Mirror!Next, Mirror!Make
<1>7. ASSUME NEW w \in present, WithdrawRequest(w) PROVE Mirror!Next
  <2>1. present' = present \ {w} /\ UNCHANGED <<made, tracked, oldest>>
    BY <1>7 DEF WithdrawRequest, upstreamVars, rowVars
  <2>2. Mirror!Withdraw(w)
    BY <2>1 DEF Mirror!Withdraw
  <2>. QED
    BY <2>2 DEF Mirror!Next
<1>8. CASE \E i \in present : ChangeUpstream(i) /\ UNCHANGED ombiVars
  <2>1. UNCHANGED <<made, tracked, oldest, present>>
    BY <1>8 DEF ChangeUpstream, rowVars, ombiVars
  <2>. QED
    BY <2>1, MirrorStutters
<1>9. CASE UNCHANGED vars
  <2>1. UNCHANGED <<made, tracked, oldest, present>>
    BY <1>9 DEF vars, syncVars, ombiVars, upstreamVars, rowVars
  <2>. QED
    BY <2>1, MirrorStutters
<1> QED
  BY <1>1, <1>2, <1>3, <1>4, <1>5, <1>6, <1>7, <1>8, <1>9
     DEF Next, Walk, Environment, Elapse

\* sync_service_requests and _remove_deleted, over Ombi's unsorted arrays, keep the same
\* promise: they learn of requests one at a time, remove only what Ombi no longer has
\* (unless some request has grown older than the window) and never remove everything.
THEOREM ImplementsMirror == Spec => KeepsMirrorPromise
<1>1. Init => Mirror!Init
  BY InitMirrors
<1> QED
  BY <1>1, Inductive, StepMirrors, PTL DEF Spec, KeepsMirrorPromise, Mirror!Spec
=============================================================================
