----------------------------- MODULE MCUpdater -----------------------------
(* Instances of Updater for TLC. *)
EXTENDS Updater, FiniteSets

\* An older version than the one installed is never offered; two are enough
\* for a stable one and a nightly above it.
MCVersions == 1 .. 2
MCNightly == {2}

=============================================================================
