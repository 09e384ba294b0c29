----------------------------- MODULE MCOmbiSync -----------------------------
(* TLC instances of OmbiSync.                                              *)
EXTENDS OmbiSync

MCTelevision == {2}
MCTwoStates  == <<"pending", "approved">>
=============================================================================
