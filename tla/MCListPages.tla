----------------------------- MODULE MCListPages -----------------------------
(***************************************************************************)
(* Three rows in pages of two, for an account that sees them all, and one *)
(* or two of them under a filter, and one that sees others.                *)
(***************************************************************************)
EXTENDS ListPages, TLC

CONSTANTS alice, bob, all, some

MCSees == (alice :> (all :> Places @@ some :> {1, 3}))
       @@ (bob :> (all :> {2, 3} @@ some :> {2}))
=============================================================================
