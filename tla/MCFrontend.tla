----------------------------- MODULE MCFrontend -----------------------------
EXTENDS Frontend, TLC

MCOldFiles == (0 :> <<0>>)
=============================================================================
