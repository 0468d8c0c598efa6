------------------------------ MODULE MCSession ------------------------------
(***************************************************************************)
(* Model-checking instance of Session.  The constants are in the .cfg      *)
(* file; the thresholds, three and three in the code, are two and two.     *)
(***************************************************************************)
EXTENDS Session
=============================================================================
