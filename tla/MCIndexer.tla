----------------------------- MODULE MCIndexer ------------------------------
(* Small instances of Indexer for TLC. *)
EXTENDS Indexer

Event(kind, p) == [kind |-> kind, poll |-> p]

\* One poll; a transaction with two votes, and one without events.
OnePollTxs ==
    {<<>>, <<Event("CreatePoll", 1)>>, <<Event("Vote", 1)>>,
     <<Event("Vote", 1), Event("Vote", 1)>>, <<Event("FinishTally", 1)>>}
=============================================================================
