----------------------------- MODULE SeerrSync -----------------------------
(***************************************************************************)
(* RequestSync over a Seerr-family request manager (SeerrClient in         *)
(* core/clients/requestmanager.py), which lists requests newest first and  *)
(* in pages addressed by offset (take/skip).  Upstream goes on changing    *)
(* between two page requests, and an offset then no longer names the row   *)
(* it named before.                                                        *)
(***************************************************************************)
EXTENDS RequestSync, SequencesExt

CONSTANT PageSize   \* rows in a page; 50 in the code

ASSUME PageSizeAssumption == PageSize \in Nat \ {0}

VARIABLES
  listing,   \* upstream's requests, newest first: GET /request?sort=added
  skip,      \* the offset of the next page
  shifted    \* a row left the part of the listing this walk has passed (history)

seerrVars == <<listing, skip, shifted>>
vars      == <<syncVars, seerrVars>>

Listed == {listing[k] : k \in 1 .. Len(listing)}

TypeOK ==
  /\ SyncTypeOK
  /\ listing \in Seq(Ids)
  /\ skip \in Nat
  /\ shifted \in BOOLEAN

Init ==
  /\ SyncInit
  /\ listing = <<>>
  /\ skip = 0
  /\ shifted = FALSE

-----------------------------------------------------------------------------
(* Upstream                                                                *)

MakeRequest ==
  /\ made < MaxRequest
  /\ made' = made + 1
  /\ listing' = <<made'>> \o listing
  /\ UNCHANGED <<version, rowVars, cursorVars, oldest, faults, walkVars, skip, shifted>>

\* The walk will fetch again, at offset skip.
MoreToCome == pc = "fetch" \/ (pc = "apply" /\ more)

WithdrawRequest(k) ==
  /\ listing' = RemoveAt(listing, k)
  /\ shifted' = (shifted \/ (MoreToCome /\ k <= skip))
  /\ UNCHANGED <<upstreamVars, rowVars, cursorVars, oldest, faults, walkVars, skip>>

-----------------------------------------------------------------------------
(* The walk                                                                *)

Begin ==
  /\ BeginWalk
  /\ skip' = 0
  /\ shifted' = FALSE
  /\ UNCHANGED listing

\* How many rows GET /request?take=PageSize&skip=skip answers.
PageLength ==
  LET left == Len(listing) - skip
  IN  IF left <= 0 THEN 0 ELSE IF left < PageSize THEN left ELSE PageSize

\* As it would be with the total compared one row too early.
LastPageTooSoon ==
  \/ PageLength = 0
  \/ skip + PageLength >= Len(listing) - 1
  \/ PageLength < PageSize

\* iter_requests' three reasons to stop: nothing came, all were seen, a short page.
\* Every page before this one was full, so "seen" there is skip here.
LastPage ==
  \/ PageLength = 0
  \/ skip + PageLength >= Len(listing)
  \/ PageLength < PageSize

FetchPage ==
  /\ pc = "fetch"
  /\ page' = [k \in 1 .. PageLength |->
                [id |-> listing[skip + k], version |-> version[listing[skip + k]]]]
  /\ more' = ~LastPage
  /\ skip' = skip + PageSize
  /\ pc' = "apply"
  /\ UNCHANGED <<upstreamVars, rowVars, cursorVars, oldest, faults, cutoff, reconciling,
                 walkBackfilled, seen, streak, complete, listing, shifted>>

\* fetch_title: asked only for an untitled row, and its failure is not the walk's.
TakeRow ==
  \/ ApplyRow(TRUE) /\ UNCHANGED <<faults, seerrVars>>
  \/ /\ page # <<>> /\ Head(page).id \notin titled
     /\ faults < MaxFaults
     /\ faults' = faults + 1
     /\ ApplyRow(FALSE)
     /\ UNCHANGED seerrVars

Walk ==
  \/ Begin
  \/ FetchPage
  \/ TakeRow
  \/ (ReachCutoff \/ NextPage \/ RunOut \/ Settle \/ SaveCursor) /\ UNCHANGED seerrVars

Environment ==
  \/ MakeRequest
  \/ \E k \in 1 .. Len(listing) : WithdrawRequest(k)
  \/ \E k \in 1 .. Len(listing) : ChangeUpstream(listing[k]) /\ UNCHANGED seerrVars
  \/ GrowOld /\ UNCHANGED seerrVars
  \/ (FetchFails \/ Interrupted) /\ UNCHANGED seerrVars

Elapse == ReconcileFallsDue /\ UNCHANGED seerrVars

Next == Walk \/ Environment \/ Elapse

Spec == Init /\ [][Next]_vars

\* The scheduler keeps polling and clocks keep running; nothing else has to happen.
FairSpec == Spec /\ WF_vars(Walk) /\ WF_vars(Elapse)

-----------------------------------------------------------------------------
(* Properties                                                              *)

\* The promise of a mirror, kept by the walk: only what upstream no longer has is
\* removed (unless the listing shifted under the walk), and a walk never removes
\* everything (_remove_deleted, and the comment on an empty walk inside it).
Mirror == INSTANCE RequestMirror
            WITH upstream <- Listed, mirror <- tracked, disturbed <- shifted

KeepsMirrorPromise == Mirror!Spec

\* "Everything newer has been seen": when a walk calls itself complete, whether it ran
\* out of pages or stopped at the cutoff, no tracked request in the window that still
\* exists upstream was passed over, failures of earlier walks or not.
CompleteWalkSawAll ==
  pc = "settle" /\ complete /\ ~shifted =>
    \A i \in Listed \cap tracked : i > cutoff => i \in seen

\* The requests newer than the backfill cutoff.
InWindow(S) == {i \in S : i > oldest}

\* In the end the window is mirrored: withdrawn requests go (the case of an upstream
\* with nothing left in the window apart), made ones come, with their last state.
EventuallyMirrored ==
  <>[](/\ InWindow(Listed) \subseteq tracked
       /\ InWindow(Listed) # {} => InWindow(tracked) \subseteq Listed
       /\ \A i \in InWindow(Listed) : known[i] = version[i])

\* A title lookup that failed is made up for by a later walk.
EventuallyTitled == <>[](InWindow(Listed) \subseteq titled)

-----------------------------------------------------------------------------
(* What the repository says, and the walk does not keep                    *)

\* "Drop local requests that no longer exist in the request manager": a request is
\* removed only when upstream no longer has it (_remove_deleted's docstring).
OnlyDeletedAreRemoved ==
  [][\A i \in tracked \ tracked' : i \notin Listed]_vars
=============================================================================
