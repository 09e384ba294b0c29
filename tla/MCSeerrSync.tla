---------------------------- MODULE MCSeerrSync ----------------------------
(* TLC instances of SeerrSync.                                             *)
EXTENDS SeerrSync

MCTwoStates == <<"pending", "approved">>
=============================================================================
