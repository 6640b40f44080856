----------------------------- MODULE VoterClient -----------------------------
(***************************************************************************)
(* The voter's browser: the Vote component, and the re-voting keys, which  *)
(* live encrypted in IndexedDB and decrypted in the memory of every tab.   *)
(* A vote is an asynchronous function that reads the keys of its tab when  *)
(* it is clicked, proves for a while, submits, and only then writes all    *)
(* keys back.  The chain is reduced to the messages it accepted; a poll is *)
(* open throughout, so a vote that comes too late is a lost one.           *)
(***************************************************************************)
EXTENDS Circuits

CONSTANTS
    Tabs,      \* browser tabs of one profile
    Census,    \* the census of every poll
    N_CHOICES, \* poll.choices.length
    NoTask,    \* no vote: of a page, of a voter; nothing read
    MaxVotes,  \* bound: votes clicked
    MaxRemoves \* bound: deletions clicked

ASSUME VoterConstants ==
    /\ Census \in [PollIds -> SUBSET Voters]
    /\ N_CHOICES \in Nat
    /\ MaxVotes \in Nat /\ MaxRemoves \in Nat
    /\ NoTask \notin MessageType

VARIABLES
    idb,       \* REVO_DB_KEY: account and poll -> re-voting key, NoKey if none
    map,       \* RevoKeysProvider's map in every tab
    unlocked,  \* tabs whose keyring is unlocked
    read,      \* what the reload of a tab has read and not yet decrypted
    loaded,    \* tabs whose reload has ended
    busy,      \* the vote the mounted Vote component of every tab waits for
    tasks,     \* running onVoteClick functions
    removals,  \* running removeForPoll functions
    removes,   \* number of deletions clicked so far
    network,   \* messages sent (directly or to the relayer) and not settled
    log,       \* messages the chain accepted, in order
    shown,     \* the last vote reported as sent, for every account and poll
    keys,      \* number of keys generated so far
    sent,      \* history: messages that were ever submitted
    disturbed  \* history: accounts and polls whose votes a fault has touched

opening == <<unlocked, read, loaded>>
deleting == <<removals, removes>>
vars == <<idb, map, opening, busy, tasks, deleting, network, log, shown, keys,
          sent, disturbed>>

NoKeys == [nu \in Nullifiers |-> NoKey]
KeyMaps == [Nullifiers -> Nat]

\* relayed: through the relayer; base: the map of the tab at the click.
TaskType ==
    [tab : Tabs, message : MessageType, relayed : BOOLEAN, base : KeyMaps,
     submitted : BOOLEAN]

\* next: the map of the tab at the click, without the key of nu.
RemovalType == [tab : Tabs, nu : Nullifiers, next : KeyMaps, n : Nat]

VoterInit ==
    /\ idb = NoKeys
    /\ map = [t \in Tabs |-> NoKeys]
    /\ unlocked = {}
    /\ read = [t \in Tabs |-> NoTask]
    /\ loaded = {}
    /\ busy = [t \in Tabs |-> NoTask]
    /\ tasks = {}
    /\ removals = {} /\ removes = 0
    /\ network = {}
    /\ log = <<>>
    /\ shown = [nu \in Nullifiers |-> NoTask]
    /\ keys = 0
    /\ sent = {}
    /\ disturbed = {}

NullifiersOf(ts) == {Nullifier(task.message) : task \in ts}

-----------------------------------------------------------------------------
(* Tabs *)

Unlock(t) ==
    /\ t \notin unlocked
    /\ unlocked' = unlocked \union {t}
    /\ UNCHANGED <<idb, map, read, loaded, busy, tasks, deleting, network, log,
                   shown, keys, sent, disturbed>>

\* reload, an effect of the unlocked keyring, reads the blob.
ReadStored(t) ==
    /\ t \in unlocked \ loaded
    /\ read[t] = NoTask
    /\ read' = [read EXCEPT ![t] = idb]
    /\ UNCHANGED <<idb, map, unlocked, loaded, busy, tasks, deleting, network, log,
                   shown, keys, sent, disturbed>>

\* Once it is decrypted the map is what was read then; or nothing, when the
\* passphrase of this tab is not that of the blob.
Reloaded(t) ==
    /\ read[t] # NoTask
    /\ \E keysRead \in {read[t], NoKeys} : map' = [map EXCEPT ![t] = keysRead]
    /\ read' = [read EXCEPT ![t] = NoTask]
    /\ loaded' = loaded \union {t}
    /\ UNCHANGED <<idb, unlocked, busy, tasks, deleting, network, log, shown, keys,
                   sent, disturbed>>

\* The user goes to another page of the application: the component is
\* unmounted, its running vote is not.
Leave(t) ==
    /\ busy[t] # NoTask
    /\ busy' = [busy EXCEPT ![t] = NoTask]
    /\ UNCHANGED <<idb, map, opening, tasks, deleting, network, log, shown, keys,
                   sent, disturbed>>

\* A task that ends without storing its key although its message may yet be,
\* or was, accepted.
Unstored(ts) == {task \in ts : task.submitted}

\* The tab is closed or its page reloaded: its memory is lost.
Close(t) ==
    /\ t \in unlocked
    /\ LET ended == {task \in tasks : task.tab = t}
       IN  /\ tasks' = tasks \ ended
           /\ disturbed' = disturbed \union NullifiersOf(Unstored(ended))
    /\ unlocked' = unlocked \ {t}
    /\ read' = [read EXCEPT ![t] = NoTask]
    /\ loaded' = loaded \ {t}
    /\ map' = [map EXCEPT ![t] = NoKeys]
    /\ busy' = [busy EXCEPT ![t] = NoTask]
    /\ removals' = {r \in removals : r.tab # t}
    /\ UNCHANGED <<idb, removes, network, log, shown, keys, sent>>

\* What a write of all keys from a tab's map may overwrite: keys of votes and
\* deletions that are still running, and keys the tab does not hold in their
\* stored version.
Endangered(t) ==
    NullifiersOf(tasks) \union {r.nu : r \in removals}
        \union {nu \in Nullifiers : map[t][nu] # idb[nu]}

-----------------------------------------------------------------------------
(* onVoteClick *)

\* Faulty variant: the key is derived from what the client remembers of the
\* poll instead of being drawn.
DerivedKey(old) == old + 1

\* generateForPoll: a random scalar.
FreshKey(old) == keys + 1

\* Faulty variant: the keys of an account are those of all its polls.
StoredForAccount(base, m) ==
    [nu \in Nullifiers |-> IF nu[2] = m.voter THEN m.revotingKeyNew ELSE base[nu]]

\* Faulty variant: the other keys are not carried over.
StoredAlone(base, m) ==
    [NoKeys EXCEPT ![Nullifier(m)] = m.revotingKeyNew]

\* setForPoll: the map of the click with one key replaced.
Stored(base, m) == [base EXCEPT ![Nullifier(m)] = m.revotingKeyNew]

\* The button of the Vote component: one vote at a time, and no wait for
\* RK.loaded.
MayClick(t) == busy[t] = NoTask /\ t \in unlocked

\* A missing key is key 0.
Click(t, nu, choice, relayed) ==
    /\ MayClick(t)
    /\ keys < MaxVotes
    /\ LET m == [poll |-> nu[1], voter |-> nu[2], choice |-> choice,
                 revotingKeyOld |-> map[t][nu],
                 revotingKeyNew |-> FreshKey(map[t][nu]), nonce |-> keys]
           task == [tab |-> t, message |-> m, relayed |-> relayed,
                    base |-> map[t], submitted |-> FALSE]
       IN  /\ tasks' = tasks \union {task}
           /\ busy' = [busy EXCEPT ![t] = m]
    /\ keys' = keys + 1
    /\ disturbed' = disturbed \union
         (IF Endangered(t) # {} THEN Endangered(t) \union {nu} ELSE {}) \union
         {n \in {nu} : \E m \in network : Nullifier(m) = n}
    /\ UNCHANGED <<idb, map, opening, deleting, network, log, shown, sent>>

\* The function returns; its component, if still mounted, is idle again.
Return(task) ==
    busy' = [busy EXCEPT ![task.tab] = IF @ = task.message THEN NoTask ELSE @]

\* The account is found in the census file, the proof is made, and the vote is
\* posted to the relayer or handed to the wallet.
Submit(task) ==
    /\ task \in tasks
    /\ ~task.submitted
    /\ task.message.voter \in Census[task.message.poll]
    /\ tasks' = (tasks \ {task}) \union {[task EXCEPT !.submitted = TRUE]}
    /\ network' = network \union {task.message}
    /\ sent' = sent \union {task.message}
    /\ UNCHANGED <<idb, map, opening, deleting, busy, log, shown, keys, disturbed>>

\* An exception: nothing was sent, or it was and nobody knows what became of
\* it (no answer of the relayer or of the RPC node).
Fail(task) ==
    /\ task \in tasks
    /\ tasks' = tasks \ {task}
    /\ Return(task)
    /\ disturbed' = disturbed \union NullifiersOf(Unstored({task}))
    /\ UNCHANGED <<idb, map, opening, deleting, network, log, shown, keys, sent>>

\* The relayer refuses.
Refuse(task) ==
    /\ task \in tasks
    /\ task.submitted /\ task.relayed
    /\ task.message \in network
    /\ network' = network \ {task.message}
    /\ tasks' = tasks \ {task}
    /\ Return(task)
    /\ UNCHANGED <<idb, map, opening, deleting, log, shown, keys, sent, disturbed>>

\* The relayer answers when the transaction has succeeded; the wallet answers
\* when it has sent it.
AnsweredOk(task) ==
    task.relayed => \E i \in DOMAIN log : log[i] = task.message

\* The key is saved and the vote reported as sent.
Done(task) ==
    /\ task \in tasks
    /\ task.submitted
    /\ AnsweredOk(task)
    /\ idb' = Stored(task.base, task.message)
    /\ map' = [map EXCEPT ![task.tab] = Stored(task.base, task.message)]
    /\ tasks' = tasks \ {task}
    /\ Return(task)
    /\ shown' = [shown EXCEPT ![Nullifier(task.message)] = task.message]
    /\ UNCHANGED <<opening, deleting, network, log, keys, sent, disturbed>>

\* The re-voting keys that the account drawer lists, each with its button.
RevoListed(t) == {nu \in Nullifiers : t \in loaded /\ map[t][nu] # NoKey}

\* The user deletes one of them, and confirms: removeForPoll takes the map of
\* this moment.
ClickRemove(t, nu) ==
    /\ nu \in RevoListed(t)
    /\ removes < MaxRemoves
    /\ removes' = removes + 1
    /\ removals' = removals \union
         {[tab |-> t, nu |-> nu, next |-> [map[t] EXCEPT ![nu] = NoKey], n |-> removes]}
    /\ disturbed' = disturbed \union Endangered(t) \union {nu}
    /\ UNCHANGED <<idb, map, opening, busy, tasks, network, log, shown, keys, sent>>

\* persist has encrypted the map and writes it, or fails.
Removed(r) ==
    /\ r \in removals
    /\ removals' = removals \ {r}
    /\ \/ idb' = r.next /\ map' = [map EXCEPT ![r.tab] = r.next]
       \/ UNCHANGED <<idb, map>>
    /\ UNCHANGED <<opening, busy, tasks, removes, network, log, shown, keys, sent,
                   disturbed>>

-----------------------------------------------------------------------------
(* The chain *)

Accept(m) ==
    /\ m \in network
    /\ VoteCircuit(m, RelayerNuHash(m, NoTask, NoTask), Census[m.poll], m.poll,
                   N_CHOICES, NoTask, NoTask)
    /\ log' = Append(log, m)
    /\ network' = network \ {m}
    /\ UNCHANGED <<idb, map, opening, deleting, busy, tasks, shown, keys, sent,
                   disturbed>>

\* A transaction sent by the wallet is lost, expires, fails, or comes too late;
\* a relayed one is lost together with its answer.
Lose(m) ==
    /\ m \in network
    /\ \A task \in tasks : task.message = m => ~task.relayed
    /\ network' = network \ {m}
    /\ disturbed' = disturbed \union {Nullifier(m)}
    /\ UNCHANGED <<idb, map, opening, deleting, busy, tasks, log, shown, keys, sent>>

-----------------------------------------------------------------------------

VoterNext ==
    \/ \E t \in Tabs :
          Unlock(t) \/ ReadStored(t) \/ Reloaded(t) \/ Leave(t) \/ Close(t)
    \/ \E t \in Tabs, nu \in Nullifiers, choice \in 1..N_CHOICES,
          relayed \in BOOLEAN : Click(t, nu, choice, relayed)
    \/ \E t \in Tabs, nu \in Nullifiers : ClickRemove(t, nu)
    \/ \E r \in removals : Removed(r)
    \/ \E task \in tasks : Submit(task) \/ Fail(task) \/ Refuse(task) \/ Done(task)
    \/ \E m \in network : Accept(m) \/ Lose(m)

VoterSpec == VoterInit /\ [][VoterNext]_vars

-----------------------------------------------------------------------------
(* Properties *)

\* Votes, stores and tabs have their shapes; a component waits for nothing but
\* a vote (Vote and RevoKeysProvider).
VoterTypeOK ==
    /\ idb \in KeyMaps
    /\ map \in [Tabs -> KeyMaps]
    /\ read \in [Tabs -> KeyMaps \union {NoTask}]
    /\ loaded \subseteq unlocked /\ unlocked \subseteq Tabs
    /\ \A t \in Tabs : read[t] # NoTask => t \in unlocked
    /\ removals \subseteq RemovalType /\ removes \in Nat
    /\ busy \in [Tabs -> MessageType \union {NoTask}]
    /\ tasks \subseteq TaskType
    /\ network \subseteq MessageType
    /\ log \in Seq(MessageType)
    /\ shown \in [Nullifiers -> MessageType \union {NoTask}]
    /\ keys \in Nat
    /\ sent \subseteq MessageType
    /\ disturbed \subseteq Nullifiers

Settled(nu) ==
    /\ nu \notin NullifiersOf(tasks)
    /\ \A m \in network : Nullifier(m) # nu

BallotOf(m) == [choice |-> m.choice, key |-> m.revotingKeyNew]

\* As long as no answer or transaction of a poll was lost, no two votes ran at
\* the same time and no tab wrote from an outdated map, the last vote shown as
\* sent is the ballot the tally will count, and its key is stored, so that the
\* next vote will count too (onVoteClick with setForPoll).
LastSentCounts ==
    \A nu \in Nullifiers \ disturbed : Settled(nu) =>
        /\ Ballots(log)[nu] =
             IF shown[nu] = NoTask THEN EmptyLeaf ELSE BallotOf(shown[nu])
        /\ idb[nu] = Ballots(log)[nu].key

\* Whatever is lost or overwritten, a key is stored for a poll only after the
\* message that introduces it for that account and poll was sent (onVoteClick
\* saves last).
StoredKeyWasSent ==
    \A nu \in Nullifiers : idb[nu] # NoKey =>
        \E m \in sent : Nullifier(m) = nu /\ m.revotingKeyNew = idb[nu]

\* Nobody in the browser and nothing under way knows the key of the ballot; a
\* reload that has read the old keys, or a deletion that will write them, does.
KeyForgotten(nu) ==
    LET key == Ballots(log)[nu].key
    IN  /\ key # NoKey
        /\ idb[nu] # key
        /\ \A t \in Tabs :
             map[t][nu] # key /\ (read[t] # NoTask => read[t][nu] # key)
        /\ \A r \in removals : r.next[nu] # key
        /\ \A task \in tasks :
             /\ task.base[nu] # key
             /\ Nullifier(task.message) = nu =>
                  key \notin {task.message.revotingKeyOld, task.message.revotingKeyNew}
        /\ \A m \in network : Nullifier(m) = nu => m.revotingKeyOld # key

\* A voter whose client has lost the key of her ballot can never change the
\* ballot again, whatever she sends, nor will she learn the key: there is no
\* way back from an overwritten, deleted or never stored key (onVoteClick with
\* removeForPoll, "you may be unable to re-vote").
ForgottenIsFinal ==
    [][\A nu \in Nullifiers : KeyForgotten(nu) =>
          /\ KeyForgotten(nu)'
          /\ Ballots(log)'[nu] = Ballots(log)[nu]]_vars
=============================================================================
