---------------------------- MODULE MCVoterClient ----------------------------
(* Small instances of VoterClient for TLC. *)
EXTENDS VoterClient, TLC

CONSTANTS alice, t1, t2

EveryPoll == [p \in PollIds |-> {alice}]

\* No definition tells one tab from another.
TabSymmetry == Permutations(Tabs)
=============================================================================
