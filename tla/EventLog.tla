------------------------------ MODULE EventLog ------------------------------
(***************************************************************************)
(* What the indexer promises: its tables are the effect of a prefix of the *)
(* program's transactions, each applied once, in order and as a whole.     *)
(***************************************************************************)
EXTENDS Integers, Sequences

CONSTANTS
    PollIds,
    TxEvents, \* the event sequences of transactions; <<>>: failed, or none
    MaxTxs    \* bound: number of transactions

EventType ==
    [kind : {"CreatePoll", "Vote", "FinishTally"}, poll : PollIds]

VARIABLES
    chain,   \* events of the program's transactions, in order
    applied, \* position of the last transaction whose events were applied
    rows     \* the tables polls (ids, results) and votes

log_vars == <<chain, applied, rows>>

NoRows == [polls |-> {}, tallied |-> {}, votes |-> <<>>]

\* on_create_poll, on_vote, on_finish_tally; a vote's row is identified by
\* the position of its transaction and its index there.
OnEvent(r, e, id) ==
    CASE e.kind = "CreatePoll"  -> [r EXCEPT !.polls = @ \union {e.poll}]
      [] e.kind = "Vote"        -> [r EXCEPT !.votes =
                                      Append(@, [poll |-> e.poll, id |-> id])]
      [] e.kind = "FinishTally" ->
            [r EXCEPT !.tallied = @ \union {e.poll},
                      !.votes = SelectSeq(@, LAMBDA v : v.poll # e.poll)]

OnEvents(r, events, n) ==
    LET acc[i \in 0..Len(events)] ==
            IF i = 0 THEN r ELSE OnEvent(acc[i - 1], events[i], <<n, i>>)
    IN  acc[Len(events)]

CreatedBy(events) ==
    {events[i].poll : i \in {j \in DOMAIN events : events[j].kind = "CreatePoll"}}

Happened(txs, kind, p) ==
    \E n \in DOMAIN txs : [kind |-> kind, poll |-> p] \in {txs[n][i] : i \in DOMAIN txs[n]}

\* The order of events that the programs can produce: a poll is created
\* once, and its votes come between its creation and its first result.
Legal(txs, events) ==
    \A i \in DOMAIN events :
        LET e    == events[i]
            past == Append(txs, SubSeq(events, 1, i - 1))
        IN  /\ Happened(past, "CreatePoll", e.poll) <=> e.kind # "CreatePoll"
            /\ e.kind = "Vote" => ~Happened(past, "FinishTally", e.poll)

LogInit ==
    /\ chain = <<>>
    /\ applied = 0
    /\ rows = NoRows

NewTransaction(events) ==
    /\ Len(chain) < MaxTxs
    /\ Legal(chain, events)
    /\ chain' = Append(chain, events)

ApplyNext(n) ==
    /\ chain[n] # <<>>
    /\ \A k \in (applied + 1)..(n - 1) : chain[k] = <<>>
    /\ rows' = OnEvents(rows, chain[n], n)
    /\ applied' = n

LogNext ==
    \/ \E events \in TxEvents : NewTransaction(events) /\ UNCHANGED <<applied, rows>>
    \/ \E n \in (applied + 1)..Len(chain) : ApplyNext(n) /\ UNCHANGED chain

LogSpec == LogInit /\ [][LogNext]_log_vars
=============================================================================
