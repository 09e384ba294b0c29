--------------------------- MODULE RequestMirror ---------------------------
(***************************************************************************)
(* What mirroring a request manager promises, whatever product it is and   *)
(* however its requests are listed.  Requests are made and withdrawn       *)
(* upstream; the mirror learns of them one at a time and forgets them in   *)
(* batches.  It may forget only what upstream no longer has, and it never  *)
(* forgets everything.                                                     *)
(*                                                                         *)
(* A reading can be disturbed: rows of a listing read in pages move to     *)
(* pages the reader has passed, or the reader stops at an old row of a     *)
(* listing that is not sorted.  What a disturbed reading may cost is       *)
(* visible here, as the one excuse for forgetting a request that exists.   *)
(***************************************************************************)
EXTENDS Integers

CONSTANT MaxRequest

VARIABLES made, upstream, mirror, disturbed

mirrorVars == <<made, upstream, mirror, disturbed>>

Init ==
  /\ made = 0
  /\ upstream = {}
  /\ mirror = {}
  /\ disturbed = FALSE

\* Somebody asks for a title.
Make ==
  /\ made < MaxRequest
  /\ made' = made + 1
  /\ upstream' = upstream \cup {made'}
  /\ UNCHANGED <<mirror, disturbed>>

\* Somebody withdraws a request, perhaps under the eyes of a reader.
Withdraw(i) ==
  /\ i \in upstream
  /\ upstream' = upstream \ {i}
  /\ disturbed' \in {disturbed, TRUE}
  /\ UNCHANGED <<made, mirror>>

\* The mirror learns of a request; by now it may have been withdrawn.
Learn(i) ==
  /\ i \in 1 .. made
  /\ mirror' = mirror \cup {i}
  /\ UNCHANGED <<made, upstream, disturbed>>

\* The mirror forgets what a reading of the whole listing did not show.
Forget(gone) ==
  /\ gone # {}
  /\ mirror' = mirror \ gone
  /\ mirror' # {}
  /\ disturbed \/ gone \cap upstream = {}
  /\ UNCHANGED <<made, upstream, disturbed>>

\* Something disturbs the readings.
Disturb ==
  /\ disturbed' = TRUE
  /\ UNCHANGED <<made, upstream, mirror>>

\* A new reading begins.
Reread ==
  /\ disturbed' = FALSE
  /\ UNCHANGED <<made, upstream, mirror>>

Next ==
  \/ Make
  \/ \E i \in upstream : Withdraw(i)
  \/ \E i \in 1 .. made : Learn(i)
  \/ \E gone \in SUBSET mirror : Forget(gone)
  \/ Disturb
  \/ Reread

Spec == Init /\ [][Next]_mirrorVars
=============================================================================
