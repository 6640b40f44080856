-------------------------------- MODULE Ingest --------------------------------
(***************************************************************************)
(* The part of the indexer that makes polls visible, on top of the polls   *)
(* of Census: for every new row of the polls table the census file and the *)
(* description are downloaded, checked and stored, one attempt for each    *)
(* run of the process; polls that are not ready are tried again at startup.*)
(* A server in front of the files fails at will until it recovers.         *)
(***************************************************************************)
EXTENDS Census

CONSTANTS
    INSERT_BATCH,    \* rows of one INSERT (10 000)
    MAX_CONCURRENCY, \* max_concurrency of either manager
    MaxRestarts      \* bound: restarts of the process

ASSUME IngestConstants ==
    /\ Null \notin BOOLEAN
    /\ INSERT_BATCH \in Nat \ {0}
    /\ MAX_CONCURRENCY \in Nat \ {0}
    /\ MaxRestarts \in Nat

VARIABLES
    known,        \* number of polls in the polls table
    valid,        \* census_valid: Null, TRUE or FALSE
    voters,       \* voter_polls
    titled,       \* polls with a title
    census_cmds,  \* queued census commands
    desc_cmds,    \* queued description commands
    jobs,         \* running CensusManager::ingest calls
    desc_jobs,    \* running DescriptionManager::ingest calls
    healthy,      \* the files are served without failures from now on
    restarts,     \* number of restarts
    fresh         \* history: the process was started after the recovery

ingestVars == <<known, valid, voters, titled, census_cmds, desc_cmds, jobs,
                desc_jobs, healthy, restarts, fresh>>
vars == <<censusVars, ingestVars>>

Polls == 1..MaxPolls

IngestInit ==
    /\ CensusInit
    /\ known = 0
    /\ valid = [p \in Polls |-> Null]
    /\ voters = [p \in Polls |-> {}]
    /\ titled = {}
    /\ census_cmds = <<>>
    /\ desc_cmds = <<>>
    /\ jobs = {}
    /\ desc_jobs = {}
    /\ healthy = FALSE
    /\ restarts = 0
    /\ fresh = FALSE

-----------------------------------------------------------------------------
(* DbManager and startup *)

\* on_create_poll inserts the row and queues both commands; a stop in between
\* is a Restart after it.
IndexPoll ==
    /\ known < Len(polls)
    /\ known' = known + 1
    /\ census_cmds' = Append(census_cmds, known + 1)
    /\ desc_cmds' = Append(desc_cmds, known + 1)
    /\ UNCHANGED <<censusVars, valid, voters, titled, jobs, desc_jobs, healthy,
                   restarts, fresh>>

\* Faulty variant: what failed once is not tried again.
NothingUnfinished == {}

\* enqueue_unfinished: census_valid IS NULL OR census_valid = FALSE.
Unfinished == {p \in 1..known : valid[p] # TRUE}

Restart ==
    /\ restarts < MaxRestarts
    /\ census_cmds' = SetToSeq(Unfinished)
    /\ desc_cmds' = SetToSeq(1..known \ titled)
    /\ jobs' = {}
    /\ desc_jobs' = {}
    /\ restarts' = restarts + 1
    /\ fresh' = healthy
    /\ UNCHANGED <<censusVars, known, valid, voters, titled, healthy>>

Recover ==
    /\ ~healthy
    /\ healthy' = TRUE
    /\ UNCHANGED <<censusVars, known, valid, voters, titled, census_cmds, desc_cmds,
                   jobs, desc_jobs, restarts, fresh>>

-----------------------------------------------------------------------------
(* CensusManager::ingest *)

\* pos: leaves received; flushed: leaves of complete batches, which were
\* inserted and counted in total; closing: the last batch is inserted.
Job(p) == [poll |-> p, pos |-> 0, flushed |-> 0, closing |-> FALSE]

\* A command is taken when one of the slots is free; a valid census is left
\* alone, and a request that fails at once ends the attempt.
BeginIngest ==
    /\ census_cmds # <<>>
    /\ Cardinality(jobs) < MAX_CONCURRENCY
    /\ census_cmds' = Tail(census_cmds)
    /\ \/ /\ valid[Head(census_cmds)] # TRUE
          /\ jobs' = jobs \union {Job(Head(census_cmds))}
       \/ /\ valid[Head(census_cmds)] = TRUE \/ ~healthy
          /\ UNCHANGED jobs
    /\ UNCHANGED <<censusVars, known, valid, voters, titled, desc_cmds, desc_jobs,
                   healthy, restarts, fresh>>

Expected(job) == polls[job.poll].n_voters
File(job) == polls[job.poll].file
Odd(job) == polls[job.poll].remainder

\* A Content-Length that does not fit.
WrongLength(job) == Odd(job) \/ Len(File(job)) # Expected(job)

\* Faulty variant: a length that fits is taken for a complete file.
CheckLengthOnly(job) ==
    /\ job.pos = 0
    /\ valid' = [valid EXCEPT ![job.poll] = ~WrongLength(job)]
    /\ UNCHANGED <<censusVars, known, voters, titled, census_cmds, desc_cmds, jobs,
                   desc_jobs, healthy, restarts, fresh>>

\* The header is there or not; a wrong one marks the census and is passed over.
CheckLength(job) ==
    /\ job.pos = 0
    /\ WrongLength(job)
    /\ valid' = [valid EXCEPT ![job.poll] = FALSE]
    /\ UNCHANGED <<censusVars, known, voters, titled, census_cmds, desc_cmds, jobs,
                   desc_jobs, healthy, restarts, fresh>>

Leaves(job, first, last) == {File(job)[i] : i \in first..last}

EndJob(job) == jobs' = jobs \ {job}

\* A chunk of n leaves, or of less than one, arrives. Only inserted leaves and
\* those of the chunk are compared with the number of voters. All batches the
\* chunk completes are inserted.
ReceiveChunk(job, n) ==
    /\ ~job.closing
    /\ job.pos + n <= Len(File(job))
    /\ IF job.flushed + n > Expected(job)
       THEN /\ valid' = [valid EXCEPT ![job.poll] = FALSE]
            /\ EndJob(job)
            /\ UNCHANGED voters
       ELSE LET pos  == job.pos + n
                done == pos - (pos % INSERT_BATCH)
            IN  /\ voters' = [voters EXCEPT ![job.poll] =
                                @ \union Leaves(job, job.flushed + 1, done)]
                /\ jobs' = (jobs \ {job}) \union
                             {[job EXCEPT !.pos = pos, !.flushed = done]}
                /\ UNCHANGED valid
    /\ UNCHANGED <<censusVars, known, titled, census_cmds, desc_cmds, desc_jobs,
                   healthy, restarts, fresh>>

\* Faulty variant: the last, incomplete batch is counted and not inserted.
EndOfFileUnflushed(job) ==
    /\ ~job.closing
    /\ job.pos = Len(File(job))
    /\ IF Odd(job)
       THEN /\ valid' = [valid EXCEPT ![job.poll] = FALSE]
            /\ EndJob(job)
       ELSE /\ jobs' = (jobs \ {job}) \union {[job EXCEPT !.closing = TRUE]}
            /\ UNCHANGED valid
    /\ UNCHANGED <<censusVars, known, voters, titled, census_cmds, desc_cmds,
                   desc_jobs, healthy, restarts, fresh>>

\* The stream ends: a remainder is refused, the last batch is inserted.
EndOfFile(job) ==
    /\ ~job.closing
    /\ job.pos = Len(File(job))
    /\ IF Odd(job)
       THEN /\ valid' = [valid EXCEPT ![job.poll] = FALSE]
            /\ EndJob(job)
            /\ UNCHANGED voters
       ELSE /\ voters' = [voters EXCEPT ![job.poll] =
                            @ \union Leaves(job, job.flushed + 1, job.pos)]
            /\ jobs' = (jobs \ {job}) \union {[job EXCEPT !.closing = TRUE]}
            /\ UNCHANGED valid
    /\ UNCHANGED <<censusVars, known, titled, census_cmds, desc_cmds, desc_jobs,
                   healthy, restarts, fresh>>

\* total against expected_voters.
Judge(job) ==
    /\ job.closing
    /\ valid' = [valid EXCEPT ![job.poll] = (job.pos = Expected(job))]
    /\ EndJob(job)
    /\ UNCHANGED <<censusVars, known, voters, titled, census_cmds, desc_cmds,
                   desc_jobs, healthy, restarts, fresh>>

\* The connection breaks or times out: the rows stay, no flag is set.
BreakOff(job) ==
    /\ ~healthy
    /\ ~job.closing
    /\ EndJob(job)
    /\ UNCHANGED <<censusVars, known, valid, voters, titled, census_cmds, desc_cmds,
                   desc_jobs, healthy, restarts, fresh>>

-----------------------------------------------------------------------------
(* DescriptionManager::ingest *)

BeginDescription ==
    /\ desc_cmds # <<>>
    /\ Cardinality(desc_jobs) < MAX_CONCURRENCY
    /\ desc_cmds' = Tail(desc_cmds)
    /\ desc_jobs' = desc_jobs \union ({Head(desc_cmds)} \ titled)
    /\ UNCHANGED <<censusVars, known, valid, voters, titled, census_cmds, jobs,
                   healthy, restarts, fresh>>

\* Title and choices are stored, the poll is marked, or the attempt fails.
EndDescription(p) ==
    /\ p \in desc_jobs
    /\ desc_jobs' = desc_jobs \ {p}
    /\ \/ polls[p].description = "good" /\ titled' = titled \union {p}
       \/ (polls[p].description # "good" \/ ~healthy) /\ UNCHANGED titled
    /\ UNCHANGED <<censusVars, known, valid, voters, census_cmds, desc_cmds, jobs,
                   healthy, restarts, fresh>>

-----------------------------------------------------------------------------

\* A chunk may be of any length, also of less than one leaf.
JobStep(job) ==
    \/ \E n \in 1..Len(File(job)) : ReceiveChunk(job, n)
    \/ EndOfFile(job) \/ Judge(job) \/ BreakOff(job)

\* Bound: nothing happens to censuses after the last poll was indexed.
IngestNext ==
    \/ known < MaxPolls /\ CensusNext /\ UNCHANGED ingestVars
    \/ IndexPoll
    \/ Restart
    \/ Recover
    \/ BeginIngest
    \/ \E job \in jobs : CheckLength(job) \/ JobStep(job)
    \/ BeginDescription
    \/ \E p \in desc_jobs : EndDescription(p)

\* The tasks of the process run; an HTTP request ends after 30 seconds. Nobody
\* needs to restart the process or repair the server.
Progress ==
    \/ IndexPoll
    \/ BeginIngest \/ \E job \in jobs : JobStep(job)
    \/ BeginDescription \/ \E p \in desc_jobs : EndDescription(p)

IngestSpec == IngestInit /\ [][IngestNext]_vars /\ WF_vars(Progress)

-----------------------------------------------------------------------------
(* Properties *)

JobType == [poll : 1..known, pos : Nat, flushed : Nat, closing : BOOLEAN]

\* The tables, queues and attempts have their shapes; an attempt works within
\* its file, and one poll has one attempt at a time (CensusManager, 001_init.sql).
IngestTypeOK ==
    /\ known \in 0..Len(polls)
    /\ valid \in [Polls -> BOOLEAN \union {Null}]
    /\ voters \in [Polls -> SUBSET Keys]
    /\ titled \subseteq 1..known
    /\ jobs \subseteq JobType
    /\ \A job \in jobs : job.flushed <= job.pos /\ job.pos <= Len(File(job))
    /\ \A a, b \in jobs : a.poll = b.poll => a = b
    /\ desc_jobs \subseteq 1..known

\* get_poll, list_polls
Listed(p) == p \in titled /\ valid[p] = TRUE

\* After broken downloads, stops of the process and repeated attempts, a listed
\* poll has exactly the voters of its census file, as many as its creator
\* announced, and if it was made of a census, each of them was invited by a
\* different invitation (ingest, insert_leaves_batch, claim_member).
ListedPollHasItsVoters ==
    \A p \in 1..known : Listed(p) =>
        /\ voters[p] = ToSet(polls[p].file)
        /\ Len(polls[p].file) = polls[p].n_voters
        /\ polls[p].from \in Censuses =>
              \E invitation \in [voters[p] -> 1..last_id] :
                 /\ IsInjective(invitation)
                 /\ \A k \in voters[p] :
                      [id |-> invitation[k], census |-> polls[p].from, pub |-> k]
                        \in claims

\* A poll that was shown is never hidden again, and its voters do not change
\* (ingest leaves a valid census alone, no attempt outlives the verdict).
ListingIsFinal ==
    [][\A p \in 1..known : Listed(p) =>
          Listed(p)' /\ voters'[p] = voters[p]]_vars

Acceptable(p) ==
    /\ polls[p].description = "good"
    /\ ~polls[p].remainder
    /\ Len(polls[p].file) = polls[p].n_voters

\* However downloads failed before, a poll with acceptable files is listed once
\* the process was started when the files can be had, or has learnt of the
\* poll after that (enqueue_unfinished, on_create_poll).
EventuallyListed ==
    \A p \in Polls :
        (fresh /\ p <= Len(polls) /\ Acceptable(p)) ~> (p <= known /\ Listed(p))
=============================================================================
