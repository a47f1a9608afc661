--------------------------- MODULE MCLoginLimiter ---------------------------
(* Instances of LoginLimiter for TLC. *)
EXTENDS LoginLimiter

Symmetry == Permutations(Logins)

=============================================================================
