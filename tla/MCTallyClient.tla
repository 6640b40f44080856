---------------------------- MODULE MCTallyClient ----------------------------
(* Small instances of TallyClient for TLC. *)
EXTENDS TallyClient

CONSTANTS alice, bob, t1, w1

Msg(v, c, old, new) ==
    [poll |-> Poll, voter |-> v, choice |-> c, revotingKeyOld |-> old,
     revotingKeyNew |-> new, nonce |-> 0]

\* alice changes her vote.
FirstVote == Msg(alice, 1, 0, 1)
SecondVote == Msg(alice, 2, 1, 2)
Revote == {FirstVote, SecondVote}
RevoteLogs == {<<FirstVote>>, <<FirstVote, SecondVote>>}
=============================================================================
