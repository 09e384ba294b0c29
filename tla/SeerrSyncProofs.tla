--------------------------- MODULE SeerrSyncProofs ---------------------------
(***************************************************************************)
(* Proofs about SeerrSync, for every number of requests, page size, streak *)
(* limit, window and number of failures: its types, that a complete walk   *)
(* has passed over no tracked request of the window that still exists, and *)
(* that it keeps the promise of RequestMirror.                             *)
(***************************************************************************)
EXTENDS SeerrSync, TLAPS

(* The inductive invariant.                                                *)

\* Nothing upstream, fetched or stored is newer than the newest request made.
MadeBounds ==
  /\ tracked \subseteq 1 .. made
  /\ \A k \in 1 .. Len(listing) : listing[k] \in 1 .. made
  /\ \A k \in 1 .. Len(page) : page[k].id \in 1 .. made

\* The listing and every page of it are sorted, newest first.
NewestFirst ==
  /\ \A k, l \in 1 .. Len(listing) : k < l => listing[l] < listing[k]
  /\ \A k, l \in 1 .. Len(page) : k < l => page[l].id < page[k].id

\* What the walk's local variables hold in its phases.
Phases ==
  /\ page # <<>> => pc = "apply"
  /\ complete => pc \in {"settle", "save"}
  /\ seen \subseteq tracked

\* Row k of the listing has been seen, waits on the page, or is still ahead.
Covered(k) ==
  \/ listing[k] \in seen
  \/ \E j \in 1 .. Len(page) : page[j].id = listing[k]
  \/ /\ MoreToCome
     /\ k > skip
     /\ \A j \in 1 .. Len(page) : listing[k] < page[j].id

\* Unless the listing shifted, the walk has left no tracked row of the window behind.
Coverage ==
  ~shifted /\ (pc \in {"fetch", "apply"} \/ (pc = "settle" /\ complete)) =>
    \A k \in 1 .. Len(listing) :
      listing[k] \in tracked /\ listing[k] > cutoff => Covered(k)

Places == MadeBounds /\ NewestFirst /\ Phases /\ Coverage

IInv == TypeOK /\ Places

-----------------------------------------------------------------------------
(* Lemmas about the listing                                                *)

\* What RemoveAt leaves: the same elements, those after the gap one place earlier.
LEMMA RemoveAtElements ==
  ASSUME NEW S, NEW s \in Seq(S), NEW k \in 1 .. Len(s)
  PROVE  /\ RemoveAt(s, k) \in Seq(S)
         /\ Len(RemoveAt(s, k)) = Len(s) - 1
         /\ \A j \in 1 .. Len(s) - 1 :
              RemoveAt(s, k)[j] = IF j < k THEN s[j] ELSE s[j + 1]
<1> DEFINE front == SubSeq(s, 1, k - 1)
           back  == SubSeq(s, k + 1, Len(s))
<1>1. /\ front \in Seq(S) /\ Len(front) = k - 1
      /\ \A j \in 1 .. k - 1 : front[j] = s[j]
  OBVIOUS
<1>2. /\ back \in Seq(S) /\ Len(back) = Len(s) - k
      /\ \A j \in 1 .. Len(s) - k : back[j] = s[k + j]
  OBVIOUS
<1>3. RemoveAt(s, k) = front \o back
  BY DEF RemoveAt
<1> HIDE DEF front, back
<1>4. /\ front \o back \in Seq(S)
      /\ Len(front \o back) = Len(s) - 1
  BY <1>1, <1>2
<1>5. ASSUME NEW j \in 1 .. Len(s) - 1
      PROVE  (front \o back)[j] = IF j < k THEN s[j] ELSE s[j + 1]
  BY <1>1, <1>2
<1> QED
  BY <1>3, <1>4, <1>5

\* What prepending leaves: the new element, then the old ones one place later.
LEMMA PrependElements ==
  ASSUME NEW S, NEW s \in Seq(S), NEW e \in S
  PROVE  /\ <<e>> \o s \in Seq(S)
         /\ Len(<<e>> \o s) = Len(s) + 1
         /\ (<<e>> \o s)[1] = e
         /\ \A j \in 2 .. Len(s) + 1 : (<<e>> \o s)[j] = s[j - 1]
  OBVIOUS

\* A page never reaches past the end of the listing.
LEMMA PageLengthBound ==
  ASSUME TypeOK
  PROVE  /\ PageLength \in Nat /\ PageLength <= PageSize
         /\ PageLength > 0 => skip + PageLength <= Len(listing)
         /\ PageLength < PageSize => skip + PageLength >= Len(listing)
  BY PageSizeAssumption DEF PageSizeAssumption, TypeOK, PageLength

-----------------------------------------------------------------------------
(* Types                                                                   *)

LEMMA EmptyPage == <<>> \in Seq(Rows) /\ <<>> \in Seq(Ids)
  OBVIOUS

LEMMA PageHeadTail ==
  ASSUME NEW S, NEW s \in Seq(S), s # <<>>
  PROVE  /\ Head(s) \in S /\ Head(s) = s[1] /\ Len(s) \in Nat \ {0}
         /\ Tail(s) \in Seq(S) /\ Len(Tail(s)) = Len(s) - 1
         /\ \A j \in 1 .. Len(s) - 1 : Tail(s)[j] = s[j + 1]
  OBVIOUS

\* A walk that is over, or none yet, leaves local variables of the right types.
LEMMA EndWalkType ==
  EndWalk => /\ pc' = "idle" /\ cutoff' = 0
             /\ reconciling' \in BOOLEAN /\ walkBackfilled' \in BOOLEAN
             /\ seen' = {} /\ streak' = 0 /\ complete' \in BOOLEAN
             /\ page' = <<>> /\ more' \in BOOLEAN
  BY DEF EndWalk

LEMMA InitType == Init => TypeOK
<1> SUFFICES ASSUME Init PROVE TypeOK
  OBVIOUS
<1> USE RequestSyncAssumption DEF RequestSyncAssumption, Init, SyncInit, Ids
<1>1. 1 \in Versions
  BY DEF Versions
<1>2. made \in 0 .. MaxRequest /\ oldest \in 0 .. MaxRequest /\ faults \in 0 .. MaxFaults
  OBVIOUS
<1>3. version \in [Ids -> Versions] /\ known \in [Ids -> Versions]
  BY <1>1
<1>4. pc = "idle" /\ cutoff \in 0 .. MaxRequest /\ streak \in Nat
  BY DEF NoWalk
<1>5. /\ reconciling \in BOOLEAN /\ walkBackfilled \in BOOLEAN
      /\ complete \in BOOLEAN /\ more \in BOOLEAN
  BY DEF NoWalk
<1>6. seen = {} /\ page \in Seq(Rows)
  BY EmptyPage DEF NoWalk
<1> QED
  BY <1>2, <1>3, <1>4, <1>5, <1>6, EmptyPage DEF TypeOK, SyncTypeOK

LEMMA StepType == TypeOK /\ [Next]_vars => TypeOK'
<1> SUFFICES ASSUME TypeOK, [Next]_vars PROVE TypeOK'
  OBVIOUS
<1> USE RequestSyncAssumption, PageSizeAssumption, EmptyPage
    DEF RequestSyncAssumption, PageSizeAssumption, TypeOK, SyncTypeOK, syncVars, seerrVars, upstreamVars, rowVars, cursorVars, walkVars
<1>1. CASE Begin
  BY <1>1 DEF Begin, BeginWalk, Rows
<1>2. CASE FetchPage
  <2>1. \A k \in 1 .. PageLength : listing[skip + k] \in Ids
    <3>1. PageLength \in Nat /\ (PageLength > 0 => skip + PageLength <= Len(listing))
      BY PageLengthBound
    <3>2. \A k \in 1 .. PageLength : skip + k \in 1 .. Len(listing)
      BY <3>1
    <3>. QED
      BY <3>2
  <2>2. page' \in Seq(Rows)
    <3>1. page' = [k \in 1 .. PageLength |->
                     [id |-> listing[skip + k], version |-> version[listing[skip + k]]]]
      BY <1>2 DEF FetchPage
    <3>2. \A k \in 1 .. PageLength :
             [id |-> listing[skip + k], version |-> version[listing[skip + k]]] \in Rows
      BY <2>1 DEF Rows
    <3>3. PageLength \in Nat
      BY PageLengthBound
    <3>4. page' \in [1 .. PageLength -> Rows]
      BY <3>1, <3>2
    <3>. QED
      BY <3>3, <3>4
  <2>. QED
    BY <1>2, <2>2 DEF FetchPage
<1>3. CASE TakeRow
  <2>1. PICK gotTitle \in BOOLEAN : ApplyRow(gotTitle)
    BY <1>3 DEF TakeRow
  <2>2. Head(page) \in Rows /\ Tail(page) \in Seq(Rows) /\ <<>> \in Seq(Rows)
    BY <2>1, PageHeadTail DEF ApplyRow
  <2>3. Head(page).id \in Ids /\ Head(page).version \in Versions
    BY <2>2 DEF Rows
  <2>4. faults' \in 0 .. MaxFaults /\ UNCHANGED seerrVars
    <3>1. CASE UNCHANGED <<faults, seerrVars>>
      BY <3>1
    <3>2. CASE faults < MaxFaults /\ faults' = faults + 1 /\ UNCHANGED seerrVars
      BY <3>2
    <3>. QED
      BY <1>3, <3>1, <3>2 DEF TakeRow
  <2>. QED
    BY <2>1, <2>2, <2>3, <2>4 DEF ApplyRow, Upsert
<1>4. CASE (ReachCutoff \/ NextPage \/ RunOut) /\ UNCHANGED seerrVars
  BY <1>4 DEF ReachCutoff, NextPage, RunOut
<1>5. CASE Settle /\ UNCHANGED seerrVars
  BY <1>5 DEF Settle, Versions
<1>6. CASE SaveCursor /\ UNCHANGED seerrVars
  <2>1. EndWalk /\ backfilled' \in BOOLEAN /\ reconcileDue' \in BOOLEAN
    BY <1>6 DEF SaveCursor
  <2>2. UNCHANGED <<upstreamVars, rowVars, oldest, faults, seerrVars>>
    BY <1>6 DEF SaveCursor
  <2>. QED
    BY <2>1, <2>2, EndWalkType
<1>7. CASE MakeRequest
  BY <1>7, PrependElements DEF MakeRequest, Ids
<1>8. ASSUME NEW k \in 1 .. Len(listing), WithdrawRequest(k) PROVE TypeOK'
  BY <1>8, RemoveAtElements DEF WithdrawRequest, MoreToCome
<1>9. ASSUME NEW k \in 1 .. Len(listing), ChangeUpstream(listing[k]), UNCHANGED seerrVars
      PROVE  TypeOK'
  BY <1>9 DEF ChangeUpstream, Versions
<1>10. CASE GrowOld /\ UNCHANGED seerrVars
  BY <1>10 DEF GrowOld
<1>11. CASE (FetchFails \/ Interrupted) /\ UNCHANGED seerrVars
  <2>1. EndWalk /\ faults' \in 0 .. MaxFaults
    BY <1>11 DEF FetchFails, Interrupted
  <2>2. UNCHANGED <<upstreamVars, rowVars, cursorVars, oldest, seerrVars>>
    BY <1>11 DEF FetchFails, Interrupted
  <2>. QED
    BY <2>1, <2>2, EndWalkType
<1>12. CASE Elapse
  BY <1>12 DEF Elapse, ReconcileFallsDue
<1>13. CASE UNCHANGED vars
  BY <1>13 DEF vars
<1> QED
  BY <1>1, <1>2, <1>3, <1>4, <1>5, <1>6, <1>7, <1>8, <1>9, <1>10, <1>11, <1>12, <1>13
     DEF Next, Walk, Environment

\* The model's types: among them that only rows that exist have titles, so removing a
\* request removes what hangs off it.
THEOREM TypeCorrect == Spec => []TypeOK
  BY InitType, StepType, PTL DEF Spec

-----------------------------------------------------------------------------
(* Every step keeps the invariant                                          *)

\* The numbers behind the types.
LEMMA Numbers ==
  ASSUME TypeOK
  PROVE  /\ made \in Nat /\ cutoff \in Nat /\ skip \in Nat /\ oldest \in Nat
         /\ Len(listing) \in Nat /\ Len(page) \in Nat
         /\ \A k \in 1 .. Len(listing) : listing[k] \in Nat
         /\ \A k \in 1 .. Len(page) : page[k].id \in Nat /\ page[k].id \in Ids
<1>1. Ids \subseteq Nat /\ MaxRequest \in Nat
  BY RequestSyncAssumption DEF Ids, RequestSyncAssumption
<1>2. \A k \in 1 .. Len(page) : page[k] \in Rows
  BY DEF TypeOK, SyncTypeOK
<1>3. \A k \in 1 .. Len(page) : page[k].id \in Nat /\ page[k].id \in Ids
  BY <1>1, <1>2 DEF Rows
<1>4. made \in Nat /\ cutoff \in Nat /\ oldest \in Nat
  BY <1>1 DEF TypeOK, SyncTypeOK
<1>5. /\ skip \in Nat /\ Len(listing) \in Nat
      /\ \A k \in 1 .. Len(listing) : listing[k] \in Ids
  BY DEF TypeOK
<1>6. \A k \in 1 .. Len(listing) : listing[k] \in Nat
  BY <1>1, <1>5
<1>7. Len(page) \in Nat
  BY DEF TypeOK, SyncTypeOK
<1> QED
  BY <1>3, <1>4, <1>5, <1>6, <1>7

\* Steps that leave the walk, the rows and the listing alone.
LEMMA QuietStep ==
  ASSUME TypeOK, Places,
         UNCHANGED <<made, tracked, walkVars, seerrVars>>
  PROVE  Places'
<1>1. UNCHANGED <<made, tracked, pc, cutoff, seen, complete, page, more,
                  listing, skip, shifted>>
  BY DEF walkVars, seerrVars
<1> QED
  BY <1>1 DEF Places, MadeBounds, NewestFirst, Phases, Coverage, Covered, MoreToCome

\* Steps that end the walk and leave the rows and the listing alone.
LEMMA WalkOver ==
  ASSUME TypeOK, Places, EndWalk,
         UNCHANGED <<made, tracked, seerrVars>>
  PROVE  Places'
<1>1. pc' = "idle" /\ seen' = {} /\ page' = <<>> /\ complete' = FALSE
  BY DEF EndWalk
<1>2. UNCHANGED <<made, tracked, listing, skip, shifted>>
  BY DEF seerrVars
<1> QED
  BY <1>1, <1>2 DEF Places, MadeBounds, NewestFirst, Phases, Coverage

LEMMA BeginStep ==
  ASSUME TypeOK, Places, Begin PROVE Places'
<1>1. /\ pc' = "fetch" /\ seen' = {} /\ page' = <<>> /\ complete' = FALSE
      /\ skip' = 0 /\ UNCHANGED <<made, tracked, listing>>
  BY DEF Begin, BeginWalk, upstreamVars, rowVars
<1>2. \A k \in 1 .. Len(listing) : Covered(k)'
  BY <1>1 DEF Covered, MoreToCome
<1> QED
  BY <1>1, <1>2 DEF Places, MadeBounds, NewestFirst, Phases, Coverage

LEMMA FetchPageStep ==
  ASSUME TypeOK, Places, FetchPage PROVE Places'
<1>1. /\ pc = "fetch" /\ pc' = "apply" /\ page = <<>>
      /\ more' = ~LastPage /\ skip' = skip + PageSize
      /\ UNCHANGED <<made, tracked, cutoff, seen, complete, listing, shifted>>
  BY DEF FetchPage, upstreamVars, rowVars, Places, Phases
<1>2. /\ PageLength \in Nat /\ PageLength <= PageSize /\ PageSize \in Nat
      /\ PageLength > 0 => skip + PageLength <= Len(listing)
      /\ PageLength < PageSize => skip + PageLength >= Len(listing)
  BY PageLengthBound, PageSizeAssumption DEF PageSizeAssumption
<1>3. Len(page') = PageLength /\ \A j \in 1 .. PageLength : page'[j].id = listing[skip + j]
  BY <1>2 DEF FetchPage
<1>4. \A j \in 1 .. PageLength : skip + j \in 1 .. Len(listing)
  BY <1>2, Numbers
<1>5. MadeBounds'
  BY <1>1, <1>3, <1>4 DEF Places, MadeBounds
<1>6. NewestFirst'
  <2>1. ASSUME NEW k \in 1 .. PageLength, NEW l \in 1 .. PageLength, k < l
        PROVE  page'[l].id < page'[k].id
    <3>1. skip + k < skip + l
      BY <2>1, <1>2, Numbers
    <3>. QED
      BY <3>1, <1>3, <1>4 DEF Places, NewestFirst
  <2>. QED
    BY <2>1, <1>1, <1>3 DEF Places, NewestFirst
<1>7. Phases'
  BY <1>1 DEF Places, Phases
<1>8. ASSUME NEW k \in 1 .. Len(listing), Covered(k) PROVE Covered(k)'
  <2>1. CASE listing[k] \in seen
    BY <2>1, <1>1 DEF Covered
  <2>2. CASE k > skip /\ k <= skip + PageLength
    <3>1. k - skip \in 1 .. PageLength /\ page'[k - skip].id = listing[k]
      BY <2>2, <1>2, <1>3, Numbers
    <3>. QED
      BY <3>1, <1>1, <1>3 DEF Covered
  <2>3. CASE k > skip + PageLength
    <3>1. PageLength = PageSize /\ ~LastPage
      BY <2>3, <1>2, Numbers, PageSizeAssumption DEF LastPage, PageSizeAssumption
    <3>2. \A j \in 1 .. PageLength : listing[k] < listing[skip + j]
      BY <2>3, <1>2, <1>4, Numbers DEF Places, NewestFirst
    <3>. QED
      BY <2>3, <3>1, <3>2, <1>1, <1>3 DEF Covered, MoreToCome
  <2>. QED
    BY <1>1, <1>2, <1>8, <2>1, <2>2, <2>3, Numbers DEF Covered
<1>9. Coverage'
  BY <1>1, <1>8 DEF Places, Coverage
<1> QED
  BY <1>5, <1>6, <1>7, <1>9 DEF Places

LEMMA TakeRowStep ==
  ASSUME TypeOK, Places, TakeRow PROVE Places'
<1>1. PICK gotTitle \in BOOLEAN : ApplyRow(gotTitle)
  BY DEF TakeRow
<1>2. UNCHANGED <<made, listing, skip, shifted, cutoff, complete, more>>
  BY <1>1 DEF TakeRow, ApplyRow, seerrVars, upstreamVars
<1> DEFINE row == Head(page)
<1>3. /\ pc = "apply" /\ page # <<>> /\ page \in Seq(Rows)
      /\ seen' = seen \cup {row.id} /\ tracked' = tracked \cup {row.id}
      /\ page' = IF CaughtUp(row) THEN <<>> ELSE Tail(page)
      /\ pc' = IF CaughtUp(row) THEN "settle" ELSE "apply"
  BY <1>1 DEF ApplyRow, Upsert, TypeOK, SyncTypeOK
<1>4. /\ row = page[1] /\ Len(page) \in Nat \ {0}
      /\ Len(Tail(page)) = Len(page) - 1
      /\ \A j \in 1 .. Len(page) - 1 : Tail(page)[j] = page[j + 1]
  BY <1>3, PageHeadTail
<1>5. row.id \in 1 .. made
  BY <1>4 DEF Places, MadeBounds
<1>6. \A j \in 1 .. Len(page') : j + 1 \in 1 .. Len(page) /\ page'[j] = page[j + 1]
  BY <1>3, <1>4
<1>7. Len(page') \in Nat
  BY <1>3, <1>4
<1>8. MadeBounds'
  BY <1>2, <1>3, <1>5, <1>6 DEF Places, MadeBounds
<1>9. NewestFirst'
  <2>1. ASSUME NEW k \in 1 .. Len(page'), NEW l \in 1 .. Len(page'), k < l
        PROVE  page'[l].id < page'[k].id
    BY <2>1, <1>6, <1>7 DEF Places, NewestFirst
  <2>. QED
    BY <2>1, <1>2 DEF Places, NewestFirst
<1>10. Phases'
  BY <1>2, <1>3 DEF Places, Phases
<1>11. ASSUME ~CaughtUp(row), NEW k \in 1 .. Len(listing), Covered(k)
       PROVE  Covered(k)'
  <2>1. CASE listing[k] \in seen
    BY <2>1, <1>2, <1>3 DEF Covered
  <2>2. ASSUME NEW j \in 1 .. Len(page), page[j].id = listing[k]
        PROVE  Covered(k)'
    <3>1. CASE j = 1
      BY <3>1, <2>2, <1>2, <1>3, <1>4 DEF Covered
    <3>2. CASE j > 1
      <4>1. j - 1 \in 1 .. Len(page') /\ page'[j - 1].id = listing[k]
        BY <3>2, <2>2, <1>3, <1>4, <1>11
      <4>. QED
        BY <4>1, <1>2 DEF Covered
    <3>. QED
      BY <3>1, <3>2
  <2>3. CASE MoreToCome /\ k > skip /\ \A j \in 1 .. Len(page) : listing[k] < page[j].id
    BY <2>3, <1>2, <1>3, <1>6, <1>11 DEF Covered, MoreToCome
  <2>. QED
    BY <1>11, <2>1, <2>2, <2>3 DEF Covered
<1>12. Coverage'
  <2>1. CASE CaughtUp(row)
    BY <2>1, <1>2, <1>3 DEF Coverage, Places, Phases
  <2>2. ASSUME ~CaughtUp(row), ~shifted, NEW k \in 1 .. Len(listing),
               listing[k] \in tracked', listing[k] > cutoff
        PROVE  Covered(k)'
    <3>1. CASE listing[k] \in tracked
      BY <2>2, <3>1, <1>3, <1>11 DEF Coverage, Places
    <3>2. CASE listing[k] = row.id
      BY <3>2, <1>2, <1>3 DEF Covered
    <3>. QED
      BY <2>2, <3>1, <3>2, <1>3
  <2>. QED
    BY <2>1, <2>2, <1>2 DEF Coverage
<1> QED
  BY <1>8, <1>9, <1>10, <1>12 DEF Places

LEMMA ReachCutoffStep ==
  ASSUME TypeOK, Places, ReachCutoff, UNCHANGED seerrVars PROVE Places'
<1>1. /\ pc = "apply" /\ page # <<>> /\ page \in Seq(Rows) /\ Head(page).id <= cutoff
      /\ pc' = "settle" /\ page' = <<>> /\ complete'
      /\ UNCHANGED <<made, tracked, cutoff, seen, more, listing, skip, shifted>>
  BY DEF ReachCutoff, seerrVars, upstreamVars, rowVars, TypeOK, SyncTypeOK
<1>2. Len(page) \in Nat \ {0} /\ page[1].id <= cutoff
  BY <1>1, PageHeadTail
<1>3. \A j \in 1 .. Len(page) : page[j].id <= cutoff
  BY <1>2, Numbers DEF Places, NewestFirst
<1>4. ASSUME NEW k \in 1 .. Len(listing), listing[k] > cutoff, Covered(k)
      PROVE  listing[k] \in seen
  BY <1>2, <1>3, <1>4, Numbers DEF Covered
<1> QED
  BY <1>1, <1>4 DEF Places, MadeBounds, NewestFirst, Phases, Coverage, Covered

LEMMA NextPageStep ==
  ASSUME TypeOK, Places, NextPage, UNCHANGED seerrVars PROVE Places'
<1>1. /\ pc = "apply" /\ page = <<>> /\ more /\ pc' = "fetch"
      /\ UNCHANGED <<made, tracked, cutoff, seen, complete, page, more,
                     listing, skip, shifted>>
  BY DEF NextPage, seerrVars, upstreamVars, rowVars
<1> QED
  BY <1>1 DEF Places, MadeBounds, NewestFirst, Phases, Coverage, Covered, MoreToCome

LEMMA RunOutStep ==
  ASSUME TypeOK, Places, RunOut, UNCHANGED seerrVars PROVE Places'
<1>1. /\ pc = "apply" /\ page = <<>> /\ ~more /\ pc' = "settle" /\ complete'
      /\ UNCHANGED <<made, tracked, cutoff, seen, page, listing, skip, shifted>>
  BY DEF RunOut, seerrVars, upstreamVars, rowVars
<1>2. \A k \in 1 .. Len(listing) : Covered(k) => listing[k] \in seen
  BY <1>1 DEF Covered, MoreToCome
<1> QED
  BY <1>1, <1>2 DEF Places, MadeBounds, NewestFirst, Phases, Coverage, Covered

LEMMA SettleStep ==
  ASSUME TypeOK, Places, Settle, UNCHANGED seerrVars PROVE Places'
<1>1. /\ pc = "settle" /\ pc' = "save" /\ page' = page
      /\ UNCHANGED <<made, seen, complete, listing>>
      /\ tracked' = tracked \ (IF reconciling /\ complete THEN Stale ELSE {})
  BY DEF Settle, seerrVars, upstreamVars
<1>2. page = <<>> /\ seen \cap Stale = {}
  BY <1>1 DEF Places, Phases, Stale
<1> QED
  BY <1>1, <1>2 DEF Places, MadeBounds, NewestFirst, Phases, Coverage

LEMMA MakeRequestStep ==
  ASSUME TypeOK, Places, MakeRequest PROVE Places'
<1>1. /\ made' = made + 1 /\ made' \in Ids /\ listing' = <<made'>> \o listing
      /\ UNCHANGED <<tracked, pc, cutoff, seen, complete, page, more, skip, shifted>>
  BY Numbers, RequestSyncAssumption
     DEF MakeRequest, walkVars, rowVars, Ids, TypeOK, SyncTypeOK, RequestSyncAssumption
<1>2. /\ Len(listing') = Len(listing) + 1 /\ listing'[1] = made'
      /\ \A k \in 2 .. Len(listing) + 1 : listing'[k] = listing[k - 1]
  BY <1>1, PrependElements DEF TypeOK
<1>3. \A k \in 2 .. Len(listing') : k - 1 \in 1 .. Len(listing) /\ listing'[k] = listing[k - 1]
  BY <1>2, Numbers
<1>4. made' \notin tracked
  BY <1>1, Numbers DEF Places, MadeBounds
<1>5. MadeBounds'
  <2>1. \A k \in 1 .. Len(listing') : listing'[k] \in 1 .. made'
    BY <1>1, <1>2, <1>3, Numbers DEF Places, MadeBounds
  <2>. QED
    BY <2>1, <1>1, Numbers DEF Places, MadeBounds
<1>6. NewestFirst'
  <2>1. ASSUME NEW k \in 1 .. Len(listing'), NEW l \in 1 .. Len(listing'), k < l
        PROVE  listing'[l] < listing'[k]
    <3>1. CASE k = 1
      <4>1. l \in 2 .. Len(listing') /\ listing'[k] = made + 1
        BY <3>1, <2>1, <1>1, <1>2, Numbers
      <4>2. listing'[l] \in 1 .. made
        BY <4>1, <1>3 DEF Places, MadeBounds
      <4>. QED
        BY <4>1, <4>2, Numbers
    <3>2. CASE k > 1
      <4>1. /\ k - 1 \in 1 .. Len(listing) /\ l - 1 \in 1 .. Len(listing) /\ k - 1 < l - 1
            /\ listing'[k] = listing[k - 1] /\ listing'[l] = listing[l - 1]
        BY <3>2, <2>1, <1>2, <1>3, Numbers
      <4>2. listing[l - 1] < listing[k - 1]
        BY <4>1 DEF Places, NewestFirst
      <4>. QED
        BY <4>1, <4>2
    <3>. QED
      BY <3>1, <3>2, <2>1
  <2>. QED
    BY <2>1, <1>1 DEF Places, NewestFirst
<1>7. Phases'
  BY <1>1 DEF Places, Phases
<1>8. ASSUME NEW k \in 2 .. Len(listing'), Covered(k - 1) PROVE Covered(k)'
  BY <1>1, <1>3, <1>8, Numbers DEF Covered, MoreToCome
<1>9. Coverage'
  <2>1. ASSUME NEW k \in 1 .. Len(listing'), listing'[k] \in tracked
        PROVE  k \in 2 .. Len(listing')
    BY <2>1, <1>2, <1>4, Numbers
  <2>. QED
    BY <2>1, <1>1, <1>3, <1>8 DEF Places, Coverage
<1> QED
  BY <1>5, <1>6, <1>7, <1>9 DEF Places

LEMMA WithdrawRequestStep ==
  ASSUME TypeOK, Places, NEW w \in 1 .. Len(listing), WithdrawRequest(w) PROVE Places'
<1>1. /\ listing' = RemoveAt(listing, w)
      /\ shifted' = (shifted \/ (MoreToCome /\ w <= skip))
      /\ UNCHANGED <<made, tracked, pc, cutoff, seen, complete, page, more, skip>>
  BY DEF WithdrawRequest, walkVars, rowVars, upstreamVars
<1>2. /\ Len(listing') = Len(listing) - 1
      /\ \A j \in 1 .. Len(listing) - 1 :
           listing'[j] = IF j < w THEN listing[j] ELSE listing[j + 1]
  BY <1>1, RemoveAtElements DEF TypeOK
<1> DEFINE was(j) == IF j < w THEN j ELSE j + 1
<1>3. \A j \in 1 .. Len(listing') :
         was(j) \in 1 .. Len(listing) /\ listing'[j] = listing[was(j)]
  BY <1>2, Numbers
<1>4. MadeBounds'
  BY <1>1, <1>3 DEF Places, MadeBounds
<1>5. NewestFirst'
  <2>1. \A k, l \in 1 .. Len(listing') : k < l => was(k) < was(l)
    BY <1>2, Numbers
  <2>. QED
    BY <2>1, <1>1, <1>3 DEF Places, NewestFirst
<1>6. Phases'
  BY <1>1 DEF Places, Phases
<1>7. ASSUME ~shifted', NEW k \in 1 .. Len(listing'), Covered(was(k))
      PROVE  Covered(k)'
  <2>1. CASE listing[was(k)] \in seen
    BY <2>1, <1>1, <1>3 DEF Covered
  <2>2. CASE \E j \in 1 .. Len(page) : page[j].id = listing[was(k)]
    BY <2>2, <1>1, <1>3 DEF Covered
  <2>3. CASE MoreToCome /\ was(k) > skip
             /\ \A j \in 1 .. Len(page) : listing[was(k)] < page[j].id
    <3>1. w > skip
      <4>1. ~(w <= skip)
        BY <2>3, <1>1, <1>7, Zenon
      <4>. QED
        BY <4>1, Numbers
    <3>2. k > skip
      BY <2>3, <3>1, Numbers
    <3>. QED
      BY <2>3, <3>2, <1>1, <1>3 DEF Covered, MoreToCome
  <2>. QED
    BY <1>7, <2>1, <2>2, <2>3 DEF Covered
<1>8. Coverage'
  BY <1>1, <1>3, <1>7 DEF Places, Coverage
<1> QED
  BY <1>4, <1>5, <1>6, <1>8 DEF Places

LEMMA InitPlaces == Init => Places
  BY DEF Init, SyncInit, NoWalk, Places, MadeBounds, NewestFirst, Phases, Coverage

LEMMA StepPlaces == TypeOK /\ Places /\ [Next]_vars => Places'
<1> SUFFICES ASSUME TypeOK, Places, [Next]_vars PROVE Places'
  OBVIOUS
<1>1. CASE Begin
  BY <1>1, BeginStep
<1>2. CASE FetchPage
  BY <1>2, FetchPageStep
<1>3. CASE TakeRow
  BY <1>3, TakeRowStep
<1>4. CASE (ReachCutoff \/ NextPage \/ RunOut \/ Settle) /\ UNCHANGED seerrVars
  BY <1>4, ReachCutoffStep, NextPageStep, RunOutStep, SettleStep
<1>5. CASE (SaveCursor \/ FetchFails \/ Interrupted) /\ UNCHANGED seerrVars
  <2>1. EndWalk /\ UNCHANGED <<made, tracked, seerrVars>>
    BY <1>5 DEF SaveCursor, FetchFails, Interrupted, upstreamVars, rowVars
  <2>. QED
    BY <2>1, WalkOver
<1>6. CASE MakeRequest
  BY <1>6, MakeRequestStep
<1>7. CASE \E w \in 1 .. Len(listing) : WithdrawRequest(w)
  BY <1>7, WithdrawRequestStep
<1>8. CASE \E k \in 1 .. Len(listing) : ChangeUpstream(listing[k]) /\ UNCHANGED seerrVars
  <2>1. UNCHANGED <<made, tracked, walkVars, seerrVars>>
    BY <1>8 DEF ChangeUpstream, rowVars
  <2>. QED
    BY <2>1, QuietStep
<1>9. CASE (GrowOld \/ ReconcileFallsDue) /\ UNCHANGED seerrVars
  <2>1. UNCHANGED <<made, tracked, walkVars, seerrVars>>
    BY <1>9 DEF GrowOld, ReconcileFallsDue, upstreamVars, rowVars
  <2>. QED
    BY <2>1, QuietStep
<1>10. CASE UNCHANGED vars
  <2>1. UNCHANGED <<made, tracked, walkVars, seerrVars>>
    BY <1>10 DEF vars, syncVars, upstreamVars, rowVars
  <2>. QED
    BY <2>1, QuietStep
<1> QED
  BY <1>1, <1>2, <1>3, <1>4, <1>5, <1>6, <1>7, <1>8, <1>9, <1>10
     DEF Next, Walk, Environment, Elapse

LEMMA Inductive == Spec => []IInv
<1>1. Init => IInv
  BY InitType, InitPlaces DEF IInv
<1>2. IInv /\ [Next]_vars => IInv'
  BY StepType, StepPlaces DEF IInv
<1> QED
  BY <1>1, <1>2, PTL DEF Spec

LEMMA InvariantGivesCompleteness == IInv => CompleteWalkSawAll
<1> SUFFICES ASSUME Places, pc = "settle", complete, ~shifted,
                    NEW i \in Listed \cap tracked, i > cutoff
             PROVE  i \in seen
  BY DEF CompleteWalkSawAll, IInv
<1>1. page = <<>> /\ ~MoreToCome
  BY DEF Places, Phases, MoreToCome
<1>2. PICK k \in 1 .. Len(listing) : listing[k] = i
  BY DEF Listed
<1>3. Covered(k)
  BY <1>2 DEF Places, Coverage
<1> QED
  BY <1>1, <1>2, <1>3 DEF Covered

\* sync_service_requests, over a Seerr: a walk that counts as complete, because it ran
\* out of pages or because it met a row older than the window, has seen every tracked
\* request of the window that upstream still has, however requests were made and
\* withdrawn meanwhile, unless a withdrawal shifted the listing under it.
THEOREM CompleteWalksSeeAll == Spec => []CompleteWalkSawAll
  BY Inductive, InvariantGivesCompleteness, PTL

-----------------------------------------------------------------------------
(* The walk implements RequestMirror                                       *)

LEMMA InitMirrors == Init => Mirror!Init
  BY DEF Init, SyncInit, Mirror!Init, Listed

\* Steps that change nothing the mirror's promise speaks of.
LEMMA MirrorStutters ==
  ASSUME UNCHANGED <<made, tracked, seerrVars>> PROVE UNCHANGED Mirror!mirrorVars
  BY DEF seerrVars, Listed, Mirror!mirrorVars

LEMMA MakeMirrors ==
  ASSUME TypeOK, MakeRequest PROVE Mirror!Make
<1>1. /\ made < MaxRequest /\ made' = made + 1 /\ made' \in Ids
      /\ listing' = <<made'>> \o listing /\ UNCHANGED <<tracked, shifted>>
  BY Numbers, RequestSyncAssumption
     DEF MakeRequest, rowVars, Ids, TypeOK, SyncTypeOK, RequestSyncAssumption
<1>2. /\ Len(listing') = Len(listing) + 1 /\ listing'[1] = made'
      /\ \A k \in 2 .. Len(listing) + 1 : listing'[k] = listing[k - 1]
  BY <1>1, PrependElements DEF TypeOK
<1>3. Listed' = Listed \cup {made'}
  <2>1. ASSUME NEW k \in 1 .. Len(listing') PROVE listing'[k] \in Listed \cup {made'}
    <3>1. CASE k = 1
      BY <3>1, <1>2
    <3>2. CASE k # 1
      <4>1. k - 1 \in 1 .. Len(listing) /\ listing'[k] = listing[k - 1]
        BY <3>2, <1>2, Numbers
      <4>. QED
        BY <4>1 DEF Listed
    <3>. QED
      BY <3>1, <3>2
  <2>2. ASSUME NEW k \in 1 .. Len(listing) PROVE listing[k] \in Listed'
    <3>1. k + 1 \in 1 .. Len(listing') /\ listing'[k + 1] = listing[k]
      BY <1>2, Numbers
    <3>. QED
      BY <3>1 DEF Listed
  <2>3. made' \in Listed'
    <3>1. 1 \in 1 .. Len(listing')
      BY <1>2, Numbers
    <3>. QED
      BY <3>1, <1>2 DEF Listed
  <2>. QED
    BY <2>1, <2>2, <2>3 DEF Listed
<1> QED
  BY <1>1, <1>3 DEF Mirror!Make

LEMMA WithdrawMirrors ==
  ASSUME TypeOK, Places, NEW w \in 1 .. Len(listing), WithdrawRequest(w)
  PROVE  Mirror!Withdraw(listing[w])
<1>1. /\ listing' = RemoveAt(listing, w) /\ UNCHANGED <<made, tracked>>
  BY DEF WithdrawRequest, rowVars, upstreamVars
<1>8. shifted' \in {shifted, TRUE}
  <2>1. shifted \in BOOLEAN /\ shifted' = (shifted \/ (MoreToCome /\ w <= skip))
    BY DEF WithdrawRequest, TypeOK
  <2>2. CASE MoreToCome /\ w <= skip
    BY <2>1, <2>2
  <2>3. CASE ~(MoreToCome /\ w <= skip)
    BY <2>1, <2>3
  <2>. QED
    BY <2>2, <2>3
<1>2. /\ Len(listing') = Len(listing) - 1
      /\ \A j \in 1 .. Len(listing) - 1 :
           listing'[j] = IF j < w THEN listing[j] ELSE listing[j + 1]
  BY <1>1, RemoveAtElements DEF TypeOK
<1>3. \A k \in 1 .. Len(listing) : k # w => listing[k] # listing[w]
  BY Numbers DEF Places, NewestFirst
<1>4. ASSUME NEW j \in 1 .. Len(listing') PROVE listing'[j] \in Listed \ {listing[w]}
  <2>1. /\ j \in 1 .. Len(listing) /\ j + 1 \in 1 .. Len(listing)
    BY <1>2, Numbers
  <2>2. CASE j < w
    BY <2>1, <2>2, <1>2, <1>3 DEF Listed
  <2>3. CASE ~(j < w)
    <3>1. j + 1 # w /\ listing'[j] = listing[j + 1]
      BY <2>3, <1>2, Numbers
    <3>. QED
      BY <2>1, <3>1, <1>3 DEF Listed
  <2>. QED
    BY <2>2, <2>3
<1>5. ASSUME NEW k \in 1 .. Len(listing), k # w PROVE listing[k] \in Listed'
  <2>1. CASE k < w
    <3>1. k \in 1 .. Len(listing') /\ listing'[k] = listing[k]
      BY <2>1, <1>2, Numbers
    <3>. QED
      BY <3>1 DEF Listed
  <2>2. CASE k > w
    <3>1. k - 1 \in 1 .. Len(listing') /\ listing'[k - 1] = listing[k]
      BY <2>2, <1>2, Numbers
    <3>. QED
      BY <3>1 DEF Listed
  <2>. QED
    BY <1>5, <2>1, <2>2
<1>6. Listed' = Listed \ {listing[w]}
  BY <1>4, <1>5 DEF Listed
<1>7. listing[w] \in Listed
  BY DEF Listed
<1> QED
  BY <1>1, <1>6, <1>7, <1>8 DEF Mirror!Withdraw

LEMMA TakeRowMirrors ==
  ASSUME TypeOK, Places, TakeRow PROVE \E i \in 1 .. made : Mirror!Learn(i)
<1>1. PICK gotTitle \in BOOLEAN : ApplyRow(gotTitle)
  BY DEF TakeRow
<1>2. UNCHANGED <<made, listing, shifted>> /\ page # <<>> /\ page \in Seq(Rows)
  BY <1>1 DEF TakeRow, ApplyRow, seerrVars, upstreamVars, TypeOK, SyncTypeOK
<1>3. tracked' = tracked \cup {Head(page).id}
  BY <1>1 DEF ApplyRow, Upsert
<1>4. Head(page).id \in 1 .. made
  BY <1>2, PageHeadTail DEF Places, MadeBounds
<1>5. Mirror!Learn(Head(page).id)
  BY <1>2, <1>3, <1>4 DEF Mirror!Learn, Listed
<1> QED
  BY <1>4, <1>5

LEMMA SettleMirrors ==
  ASSUME TypeOK, Places, Settle, UNCHANGED seerrVars
  PROVE  (\E gone \in SUBSET tracked : Mirror!Forget(gone)) \/ UNCHANGED Mirror!mirrorVars
<1> DEFINE gone == IF reconciling /\ complete THEN Stale ELSE {}
<1>1. /\ pc = "settle" /\ UNCHANGED <<made, listing, shifted>>
      /\ tracked' = tracked \ gone
  BY DEF Settle, seerrVars, upstreamVars
<1>2. CASE gone = {}
  BY <1>1, <1>2 DEF Mirror!mirrorVars, Listed
<1>3. CASE gone # {}
  <2>1. complete /\ gone = {i \in tracked : i > cutoff /\ i \notin seen} /\ seen # {}
    BY <1>3 DEF Stale
  <2>2. seen \subseteq tracked'
    BY <2>1, <1>1 DEF Places, Phases
  <2>3. shifted \/ gone \cap Listed = {}
    <3>1. CompleteWalkSawAll
      BY InvariantGivesCompleteness DEF IInv
    <3>. QED
      BY <3>1, <2>1, <1>1 DEF CompleteWalkSawAll
  <2>4. gone \in SUBSET tracked
    BY <2>1
  <2> HIDE DEF gone
  <2>5. Mirror!Forget(gone)
    BY <1>1, <1>3, <2>1, <2>2, <2>3 DEF Mirror!Forget, Listed
  <2>. QED
    BY <2>4, <2>5
<1> QED
  BY <1>2, <1>3

LEMMA StepMirrors == IInv /\ [Next]_vars => [Mirror!Next]_(Mirror!mirrorVars)
<1> SUFFICES ASSUME TypeOK, Places, [Next]_vars
             PROVE  Mirror!Next \/ UNCHANGED Mirror!mirrorVars
  BY DEF IInv
<1>1. CASE Begin
  BY <1>1 DEF Begin, BeginWalk, upstreamVars, rowVars, Listed, Mirror!Next, Mirror!Reread
<1>2. CASE FetchPage
  BY <1>2 DEF FetchPage, upstreamVars, rowVars, Listed, Mirror!mirrorVars
<1>3. CASE TakeRow
  BY <1>3, TakeRowMirrors DEF Mirror!Next
<1>4. CASE Settle /\ UNCHANGED seerrVars
  BY <1>4, SettleMirrors DEF Mirror!Next
<1>5. CASE (ReachCutoff \/ NextPage \/ RunOut \/ SaveCursor) /\ UNCHANGED seerrVars
  <2>1. UNCHANGED <<made, tracked, seerrVars>>
    BY <1>5 DEF ReachCutoff, NextPage, RunOut, SaveCursor, upstreamVars, rowVars
  <2>. QED
    BY <2>1, MirrorStutters
<1>6. CASE (FetchFails \/ Interrupted \/ GrowOld \/ ReconcileFallsDue) /\ UNCHANGED seerrVars
  <2>1. UNCHANGED <<made, tracked, seerrVars>>
    BY <1>6 DEF FetchFails, Interrupted, GrowOld, ReconcileFallsDue, upstreamVars, rowVars
  <2>. QED
    BY <2>1, MirrorStutters
<1>7. CASE MakeRequest
  BY <1>7, MakeMirrors DEF Mirror!Next
<1>8. ASSUME NEW w \in 1 .. Len(listing), WithdrawRequest(w) PROVE Mirror!Next
  <2>1. listing[w] \in Listed
    BY DEF Listed
  <2>. QED
    BY <1>8, <2>1, WithdrawMirrors DEF Mirror!Next
<1>9. CASE \E k \in 1 .. Len(listing) : ChangeUpstream(listing[k]) /\ UNCHANGED seerrVars
  <2>1. UNCHANGED <<made, tracked, seerrVars>>
    BY <1>9 DEF ChangeUpstream, rowVars
  <2>. QED
    BY <2>1, MirrorStutters
<1>10. CASE UNCHANGED vars
  <2>1. UNCHANGED <<made, tracked, seerrVars>>
    BY <1>10 DEF vars, syncVars, upstreamVars, rowVars
  <2>. QED
    BY <2>1, MirrorStutters
<1> QED
  BY <1>1, <1>2, <1>3, <1>4, <1>5, <1>6, <1>7, <1>8, <1>9, <1>10
     DEF Next, Walk, Environment, Elapse

\* sync_service_requests and _remove_deleted, over a Seerr, keep a mirror's promise:
\* they learn of requests one at a time, remove only what upstream no longer has
\* (unless the listing shifted under this very walk) and never remove everything.
THEOREM ImplementsMirror == Spec => KeepsMirrorPromise
<1>1. Init => Mirror!Init
  BY InitMirrors
<1> QED
  BY <1>1, Inductive, StepMirrors, PTL DEF Spec, KeepsMirrorPromise, Mirror!Spec
=============================================================================
