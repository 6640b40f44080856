------------------------------ MODULE MCKeyring ------------------------------
(* Two tabs, two passphrases; tabs and passphrases are interchangeable. *)
EXTENDS Keyring, TLC

CONSTANTS t1, t2, p1, p2

Symmetry == Permutations({t1, t2}) \union Permutations({p1, p2})
=============================================================================
