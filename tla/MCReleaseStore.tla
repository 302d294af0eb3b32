---------------------------- MODULE MCReleaseStore ----------------------------
(* Instances of ReleaseStore for TLC. *)
EXTENDS ReleaseStore, TLC

\* Releases are interchangeable: no action or property tells them apart.
Symmetry == Permutations(Releases)
=============================================================================
