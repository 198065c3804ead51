------------------------------ MODULE MCSession ------------------------------
(***************************************************************************)
(* Instances of Session; the bounds are set in the .cfg files.             *)
(***************************************************************************)
EXTENDS Session
=============================================================================
