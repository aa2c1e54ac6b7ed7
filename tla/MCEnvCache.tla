----------------------------- MODULE MCEnvCache -----------------------------
(***************************************************************************)
(* EnvCache with a few readers: two logins, one token, short times.        *)
(***************************************************************************)
EXTENDS EnvCache, TLC

Symmetry == Permutations(Readers)

=============================================================================
