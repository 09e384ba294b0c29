------------------------------ MODULE OmbiSync ------------------------------
(***************************************************************************)
(* RequestSync over Ombi (OmbiClient in core/clients/requestmanager.py):   *)
(* one whole array per media type, movies and then television, in whatever *)
(* order Ombi keeps them.  newest_first is not passed on, titles are not   *)
(* looked up, and the television ids are negated, so the two id spaces     *)
(* stay apart: here a request's number already says which kind it is.      *)
(***************************************************************************)
EXTENDS RequestSync

CONSTANT Television   \* the requests for television; the others are for films

ASSUME TelevisionAssumption == Television \subseteq Ids

VARIABLES
  present,   \* the requests Ombi holds
  endpoint   \* which array is fetched next: "movie", then "tv"

ombiVars == <<present, endpoint>>
vars     == <<syncVars, ombiVars>>

Init ==
  /\ SyncInit
  /\ present = {}
  /\ endpoint = "movie"

-----------------------------------------------------------------------------

MakeRequest ==
  /\ made < MaxRequest
  /\ made' = made + 1
  /\ present' = present \cup {made'}
  /\ UNCHANGED <<version, rowVars, cursorVars, oldest, faults, walkVars, endpoint>>

WithdrawRequest(i) ==
  /\ present' = present \ {i}
  /\ UNCHANGED <<upstreamVars, rowVars, cursorVars, oldest, faults, walkVars, endpoint>>

Begin ==
  /\ BeginWalk
  /\ endpoint' = "movie"
  /\ UNCHANGED present

\* What one endpoint answers, in no particular order.
Arrays(S) ==
  {rows \in [1 .. Cardinality(S) -> [id : S, version : Versions]] :
     /\ \A i \in S : \E k \in DOMAIN rows : rows[k].id = i
     /\ \A k \in DOMAIN rows : rows[k].version = version[rows[k].id]}

FetchArray ==
  /\ pc = "fetch"
  /\ page' \in Arrays(IF endpoint = "movie" THEN present \ Television
                                            ELSE present \cap Television)
  /\ more' = (endpoint = "movie")
  /\ endpoint' = "tv"
  /\ pc' = "apply"
  /\ UNCHANGED <<upstreamVars, rowVars, cursorVars, oldest, faults, cutoff, reconciling,
                 walkBackfilled, seen, streak, complete, present>>

\* fetch_title answers nothing for Ombi, "Ombi already includes the title".
TakeRow == ApplyRow(FALSE) /\ UNCHANGED <<faults, ombiVars>>

Walk ==
  \/ Begin
  \/ FetchArray
  \/ TakeRow
  \/ (ReachCutoff \/ NextPage \/ RunOut \/ Settle \/ SaveCursor) /\ UNCHANGED ombiVars

Environment ==
  \/ MakeRequest
  \/ \E i \in present : WithdrawRequest(i)
  \/ \E i \in present : ChangeUpstream(i) /\ UNCHANGED ombiVars
  \/ GrowOld /\ UNCHANGED ombiVars
  \/ (FetchFails \/ Interrupted) /\ UNCHANGED ombiVars

Elapse == ReconcileFallsDue /\ UNCHANGED ombiVars

Next == Walk \/ Environment \/ Elapse

Spec     == Init /\ [][Next]_vars
FairSpec == Spec /\ WF_vars(Walk) /\ WF_vars(Elapse)

-----------------------------------------------------------------------------
(* Properties                                                              *)

\* The same promise as for Seerr.  Whole arrays cannot shift under the walk: the excuse
\* is that some request is older than the backfill window, where an unsorted array
\* makes the cutoff end the walk early (ReachCutoff).
Mirror == INSTANCE RequestMirror
            WITH upstream <- present, mirror <- tracked, disturbed <- oldest > 0

KeepsMirrorPromise == Mirror!Spec

\* If nothing ever gets older than the window, both arrays end up mirrored.
EventuallyMirrored ==
  [](oldest = 0) =>
    <>[](/\ present \subseteq tracked
         /\ present # {} => tracked = present
         /\ \A i \in present : known[i] = version[i])

-----------------------------------------------------------------------------
(* What the repository says, and the walk over Ombi does not keep          *)

\* "Everything newer has been seen, and everything newer is exactly what
\* _remove_deleted judges" (sync_service_requests, at the cutoff): a walk that counts
\* as complete has seen every tracked request of the window that still exists.
EverythingNewerSeen ==
  pc = "settle" /\ complete => \A i \in present \cap tracked : i > cutoff => i \in seen
=============================================================================
