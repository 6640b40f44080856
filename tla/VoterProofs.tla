---------------------------- MODULE VoterProofs ----------------------------
(***************************************************************************)
(* Machine-checked proofs about VoterClient, for every number of tabs,     *)
(* accounts, polls and votes.                                              *)
(***************************************************************************)
EXTENDS VoterClient, CircuitsProofs

\* Groups of variables are always unfolded.
USE DEF opening, deleting

-----------------------------------------------------------------------------
(* Types *)

\* A message has the nullifier of a voter.
LEMMA NullifierType ==
    ASSUME NEW m \in MessageType
    PROVE  Nullifier(m) \in Nullifiers
BY DEF MessageType, Nullifier, Nullifiers

\* Storing a key keeps the map of keys one.
LEMMA StoredType ==
    ASSUME NEW base \in KeyMaps, NEW m \in MessageType
    PROVE  Stored(base, m) \in KeyMaps
BY NullifierType DEF Stored, KeyMaps, MessageType

\* The empty map of keys is one.
LEMMA NoKeysType == NoKeys \in KeyMaps
BY DEF NoKeys, KeyMaps, NoKey

\* The initial tabs are well typed.
LEMMA TypeInit == VoterInit => VoterTypeOK
BY NoKeysType DEF VoterInit, VoterTypeOK

\* The message and the task of a click.
NewMessage(t, nu, choice) ==
    [poll |-> nu[1], voter |-> nu[2], choice |-> choice,
     revotingKeyOld |-> map[t][nu],
     revotingKeyNew |-> FreshKey(map[t][nu]), nonce |-> keys]

NewTask(t, nu, choice, relayed) ==
    [tab |-> t, message |-> NewMessage(t, nu, choice), relayed |-> relayed,
     base |-> map[t], submitted |-> FALSE]

\* What Vote.tsx builds from the map of the tab when the voter clicks.
LEMMA ClickFacts ==
    ASSUME VoterTypeOK, VoterConstants, NEW t \in Tabs, NEW nu \in Nullifiers,
           NEW choice \in 1..N_CHOICES, NEW relayed \in BOOLEAN
    PROVE  /\ NewMessage(t, nu, choice) \in MessageType
           /\ Nullifier(NewMessage(t, nu, choice)) = nu
           /\ NewMessage(t, nu, choice).revotingKeyOld = map[t][nu]
           /\ NewMessage(t, nu, choice).revotingKeyNew = keys + 1
           /\ NewMessage(t, nu, choice).nonce = keys
           /\ NewTask(t, nu, choice, relayed) \in TaskType
           /\ NewTask(t, nu, choice, relayed).message = NewMessage(t, nu, choice)
           /\ NewTask(t, nu, choice, relayed).base = map[t]
           /\ NewTask(t, nu, choice, relayed).submitted = FALSE
<1>1. map[t] \in KeyMaps /\ map[t][nu] \in Nat /\ keys \in Nat /\ choice \in Nat
  BY DEF VoterTypeOK, KeyMaps, VoterConstants
<1>2. nu[1] \in PollIds /\ nu[2] \in Voters /\ nu = <<nu[1], nu[2]>>
  BY DEF Nullifiers
<1>3. NewMessage(t, nu, choice) \in MessageType
  BY <1>1, <1>2 DEF NewMessage, MessageType, FreshKey
<1> QED
  BY <1>1, <1>2, <1>3 DEF NewMessage, NewTask, TaskType, Nullifier, FreshKey

\* What a write may overwrite are keys of accounts and polls.
LEMMA EndangeredType ==
    ASSUME VoterTypeOK, NEW t \in Tabs
    PROVE  Endangered(t) \subseteq Nullifiers
BY NullifierType DEF Endangered, NullifiersOf, VoterTypeOK, TaskType, RemovalType

\* Every step keeps the types.
LEMMA TypeStep ==
    ASSUME VoterTypeOK, VoterConstants, [VoterNext]_vars
    PROVE  VoterTypeOK'
<1>1. ASSUME NEW t \in Tabs, Unlock(t) \/ ReadStored(t) \/ Leave(t)
      PROVE  VoterTypeOK'
  BY <1>1 DEF Unlock, ReadStored, Leave, VoterTypeOK
<1>12. ASSUME NEW t \in Tabs, Reloaded(t) PROVE VoterTypeOK'
  <2>1. map' \in [Tabs -> KeyMaps]
    BY <1>12, NoKeysType DEF Reloaded, VoterTypeOK
  <2> QED
    BY <1>12, <2>1 DEF Reloaded, VoterTypeOK
<1>2. ASSUME NEW t \in Tabs, Close(t) PROVE VoterTypeOK'
  <2>1. disturbed' \subseteq Nullifiers
    BY <1>2, NullifierType DEF Close, VoterTypeOK, NullifiersOf, Unstored, TaskType
  <2>2. map' \in [Tabs -> KeyMaps] /\ read' \in [Tabs -> KeyMaps \union {NoTask}]
    BY <1>2, NoKeysType DEF Close, VoterTypeOK
  <2>3. \A s \in Tabs : read'[s] # NoTask => s \in unlocked'
    BY <1>2 DEF Close, VoterTypeOK
  <2>4. tasks' \subseteq TaskType /\ removals' \subseteq RemovalType
    BY <1>2 DEF Close, VoterTypeOK
  <2> QED
    BY <1>2, <2>1, <2>2, <2>3, <2>4 DEF Close, VoterTypeOK
<1>3. ASSUME NEW t \in Tabs, NEW nu \in Nullifiers, NEW choice \in 1..N_CHOICES,
             NEW relayed \in BOOLEAN, Click(t, nu, choice, relayed)
      PROVE  VoterTypeOK'
  <2>1. /\ tasks' = tasks \union {NewTask(t, nu, choice, relayed)}
        /\ busy' = [busy EXCEPT ![t] = NewMessage(t, nu, choice)]
        /\ keys' = keys + 1
        /\ UNCHANGED <<idb, map, opening, deleting, network, log, shown, sent>>
    BY <1>3 DEF Click, MayClick, NewTask, NewMessage
  <2>2. disturbed' \subseteq Nullifiers
    <3>1. Endangered(t) \subseteq Nullifiers
      BY EndangeredType
    <3> QED
      BY <1>3, <3>1 DEF Click, MayClick, VoterTypeOK
  <2>3. /\ NewTask(t, nu, choice, relayed) \in TaskType
        /\ NewMessage(t, nu, choice) \in MessageType
    BY ClickFacts
  <2>4. tasks' \subseteq TaskType /\ busy' \in [Tabs -> MessageType \union {NoTask}]
    BY <2>1, <2>3 DEF VoterTypeOK
  <2>5. keys' \in Nat
    BY <2>1 DEF VoterTypeOK
  <2> QED
    BY <2>1, <2>2, <2>4, <2>5 DEF VoterTypeOK
<1>4. ASSUME NEW t \in Tabs, NEW nu \in Nullifiers, ClickRemove(t, nu)
      PROVE  VoterTypeOK'
  <2>1. disturbed' \subseteq Nullifiers
    <3>1. Endangered(t) \subseteq Nullifiers
      BY EndangeredType
    <3> QED
      BY <1>4, <3>1 DEF ClickRemove, VoterTypeOK
  <2>2. PICK next : next = [map[t] EXCEPT ![nu] = NoKey]
    OBVIOUS
  <2>3. next \in KeyMaps
    BY <2>2 DEF VoterTypeOK, KeyMaps, NoKey
  <2>4. [tab |-> t, nu |-> nu, next |-> next, n |-> removes] \in RemovalType
    BY <2>3 DEF RemovalType, VoterTypeOK
  <2>5. removals' \subseteq RemovalType /\ removes' \in Nat
    BY <1>4, <2>2, <2>4 DEF ClickRemove, VoterTypeOK
  <2> QED
    BY <1>4, <2>1, <2>5 DEF ClickRemove, VoterTypeOK
<1>13. ASSUME NEW r \in removals, Removed(r) PROVE VoterTypeOK'
  <2>1. r.next \in KeyMaps /\ r.tab \in Tabs
    BY DEF VoterTypeOK, RemovalType
  <2>2. idb' \in KeyMaps /\ map' \in [Tabs -> KeyMaps]
    BY <1>13, <2>1 DEF Removed, VoterTypeOK
  <2> QED
    BY <1>13, <2>2 DEF Removed, VoterTypeOK
<1>5. ASSUME NEW task \in tasks, Submit(task) PROVE VoterTypeOK'
  BY <1>5 DEF Submit, VoterTypeOK, TaskType
<1>6. ASSUME NEW task \in tasks, Fail(task) PROVE VoterTypeOK'
  BY <1>6, NullifierType DEF Fail, Return, VoterTypeOK, NullifiersOf, Unstored, TaskType
<1>7. ASSUME NEW task \in tasks, Refuse(task) PROVE VoterTypeOK'
  BY <1>7 DEF Refuse, Return, VoterTypeOK, TaskType
<1>8. ASSUME NEW task \in tasks, Done(task) PROVE VoterTypeOK'
  <2>1. task \in TaskType /\ task.message \in MessageType /\ task.base \in KeyMaps
        /\ task.tab \in Tabs
    BY DEF VoterTypeOK, TaskType
  <2>2. Stored(task.base, task.message) \in KeyMaps
    BY <2>1, StoredType
  <2> QED
    BY <1>8, <2>1, <2>2 DEF Done, Return, VoterTypeOK
<1>9. ASSUME NEW m \in network, Accept(m) PROVE VoterTypeOK'
  BY <1>9 DEF Accept, VoterTypeOK
<1>10. ASSUME NEW m \in network, Lose(m) PROVE VoterTypeOK'
  BY <1>10, NullifierType DEF Lose, VoterTypeOK
<1>11. CASE UNCHANGED vars
  BY <1>11 DEF vars, VoterTypeOK
<1> QED
  BY <1>1, <1>2, <1>3, <1>4, <1>5, <1>6, <1>7, <1>8, <1>9, <1>10, <1>11, <1>12, <1>13
     DEF VoterNext

\* Every step of VoterSpec keeps the shapes of its state (VoterTypeOK).
THEOREM VoterTypes == VoterSpec => []VoterTypeOK
<1>1. VoterTypeOK /\ [VoterNext]_vars => VoterTypeOK'
  BY VoterConstants, TypeStep
<1> QED
  BY <1>1, TypeInit, PTL DEF VoterSpec

-----------------------------------------------------------------------------
(* What a step does *)

\* Every map of keys in memory: of the tabs, read, of votes and of deletions.
Held ==
    {map[t] : t \in Tabs} \union {read[t] : t \in {s \in Tabs : read[s] # NoTask}}
        \union {task.base : task \in tasks} \union {r.next : r \in removals}

\* They are maps of keys.
LEMMA HeldType == ASSUME VoterTypeOK PROVE Held \subseteq KeyMaps
BY DEF Held, VoterTypeOK, TaskType, RemovalType

\* What a step can make of the maps there are: the stored one, an empty one,
\* one without a key, and one with the key of a vote that was sent.
Derived(store) ==
    \/ store \in Held \union {idb, NoKeys}
    \/ \E known \in Held, nu \in Nullifiers : store = [known EXCEPT ![nu] = NoKey]
    \/ \E task \in tasks : task.submitted /\ store = Stored(task.base, task.message)

\* After a step every map in memory and the store are derived in this way.
LEMMA HeldStep ==
    ASSUME VoterTypeOK, [VoterNext]_vars, NEW store \in Held' \union {idb'}
    PROVE  Derived(store)
<1> DEFINE OfTabs == \A t \in Tabs : Derived(map'[t])
           OfReads == \A t \in Tabs : read'[t] # NoTask => Derived(read'[t])
           OfTasks == \A task \in tasks' : Derived(task.base)
           OfRemovals == \A r \in removals' : Derived(r.next)
           Goal == OfTabs /\ OfReads /\ OfTasks /\ OfRemovals /\ Derived(idb')
<1>2. /\ \A t \in Tabs : Derived(map[t]) /\ (read[t] # NoTask => Derived(read[t]))
      /\ \A task \in tasks : Derived(task.base)
      /\ \A r \in removals : Derived(r.next)
      /\ Derived(idb) /\ Derived(NoKeys)
  BY DEF Derived, Held
<1>3. ASSUME NEW t \in Tabs, Unlock(t) \/ Leave(t) PROVE Goal
  BY <1>2, <1>3 DEF Unlock, Leave
<1>4. ASSUME NEW t \in Tabs, ReadStored(t) PROVE Goal
  <2>1. \A s \in Tabs : read'[s] = IF s = t THEN idb ELSE read[s]
    BY <1>4 DEF ReadStored, VoterTypeOK
  <2> HIDE DEF Derived
  <2> QED
    BY <1>2, <1>4, <2>1 DEF ReadStored
<1>5. ASSUME NEW t \in Tabs, Reloaded(t) PROVE Goal
  <2>1. /\ \A s \in Tabs : map'[s] = map[s] \/ (s = t /\ map'[s] \in {read[t], NoKeys})
        /\ read[t] # NoTask
        /\ \A s \in Tabs : read'[s] = IF s = t THEN NoTask ELSE read[s]
    BY <1>5 DEF Reloaded, VoterTypeOK
  <2> QED
    BY <1>2, <1>5, <2>1 DEF Reloaded
<1>6. ASSUME NEW t \in Tabs, Close(t) PROVE Goal
  <2>1. \A s \in Tabs : map'[s] = IF s = t THEN NoKeys ELSE map[s]
    BY <1>6 DEF Close, VoterTypeOK
  <2>2. \A s \in Tabs : read'[s] = IF s = t THEN NoTask ELSE read[s]
    BY <1>6 DEF Close, VoterTypeOK
  <2>3. tasks' \subseteq tasks /\ removals' \subseteq removals /\ idb' = idb
    BY <1>6 DEF Close
  <2> QED
    BY <1>2, <2>1, <2>2, <2>3
<1>7. ASSUME NEW t \in Tabs, NEW nu \in Nullifiers, NEW choice \in 1..N_CHOICES,
             NEW relayed \in BOOLEAN, Click(t, nu, choice, relayed)
      PROVE  Goal
  <2> DEFINE new == NewTask(t, nu, choice, relayed)
  <2>1. tasks' = tasks \union {new} /\ new.base = map[t]
    BY <1>7 DEF Click, NewTask, NewMessage
  <2> HIDE DEF new
  <2>2. UNCHANGED <<idb, map, read, removals>>
    BY <1>7 DEF Click
  <2> QED
    BY <1>2, <2>1, <2>2
<1>8. ASSUME NEW t \in Tabs, NEW nu \in Nullifiers, ClickRemove(t, nu) PROVE Goal
  <2> DEFINE next == [map[t] EXCEPT ![nu] = NoKey]
             new == [tab |-> t, nu |-> nu, next |-> next, n |-> removes]
  <2>1. removals' = removals \union {new} /\ new.next = next
    BY <1>8 DEF ClickRemove
  <2>2. map[t] \in Held
    BY DEF Held
  <2>3. Derived(next)
    BY <2>2 DEF Derived
  <2> HIDE DEF new
  <2>4. UNCHANGED <<idb, map, read, tasks>>
    BY <1>8 DEF ClickRemove
  <2> QED
    BY <1>2, <2>1, <2>3, <2>4
<1>9. ASSUME NEW r \in removals, Removed(r) PROVE Goal
  <2>1. /\ idb' \in {idb, r.next}
        /\ \A s \in Tabs : map'[s] \in {map[s], r.next}
        /\ removals' \subseteq removals
        /\ UNCHANGED <<read, tasks>>
    BY <1>9 DEF Removed, VoterTypeOK
  <2> QED
    BY <1>2, <2>1
<1>10. ASSUME NEW task \in tasks, Submit(task) PROVE Goal
  <2>1. task \in TaskType
    BY DEF VoterTypeOK
  <2>2. [task EXCEPT !.submitted = TRUE].base = task.base
    BY <2>1 DEF TaskType
  <2>3. \A x \in tasks' : \E y \in tasks : x.base = y.base
    BY <1>10, <2>2 DEF Submit
  <2>4. UNCHANGED <<idb, map, read, removals>>
    BY <1>10 DEF Submit
  <2> QED
    BY <1>2, <2>3, <2>4
<1>11. ASSUME NEW task \in tasks, Fail(task) \/ Refuse(task) PROVE Goal
  BY <1>2, <1>11 DEF Fail, Refuse
<1>12. ASSUME NEW task \in tasks, Done(task) PROVE Goal
  <2>1. PICK stored : stored = Stored(task.base, task.message)
    OBVIOUS
  <2>2. Derived(stored)
    BY <1>12, <2>1 DEF Done, Derived
  <2>3. /\ idb' = stored
        /\ \A s \in Tabs : map'[s] \in {map[s], stored}
        /\ tasks' \subseteq tasks
        /\ UNCHANGED <<read, removals>>
    BY <1>12, <2>1 DEF Done, VoterTypeOK
  <2> QED
    BY <1>2, <2>2, <2>3
<1>13. ASSUME NEW m \in network, Accept(m) \/ Lose(m) PROVE Goal
  BY <1>2, <1>13 DEF Accept, Lose
<1>14. ASSUME UNCHANGED vars PROVE Goal
  BY <1>2, <1>14 DEF vars
<1> HIDE DEF Goal
<1>15. Goal
  BY <1>3, <1>4, <1>5, <1>6, <1>7, <1>8, <1>9, <1>10, <1>11, <1>12, <1>13, <1>14
     DEF VoterNext
<1> HIDE DEF Derived
<1>16. \A known \in Held' : Derived(known)
  BY <1>15 DEF Held, Goal
<1> QED
  BY <1>15, <1>16 DEF Goal

\* Votes only end, except at a click and when one is sent.
VotesEnd ==
    /\ tasks' \subseteq tasks /\ network' \subseteq network
    /\ UNCHANGED <<sent, keys>>

\* A step is a click, sends a vote, or starts none; the log grows by accepting.
LEMMA StepKinds ==
    ASSUME [VoterNext]_vars
    PROVE  /\ \/ \E t \in Tabs, nu \in Nullifiers, choice \in 1..N_CHOICES,
                    relayed \in BOOLEAN : Click(t, nu, choice, relayed)
              \/ \E task \in tasks : Submit(task)
              \/ VotesEnd
           /\ log' = log \/ \E m \in network : Accept(m)
<1>1. CASE \E t \in Tabs : Unlock(t) \/ ReadStored(t) \/ Reloaded(t) \/ Leave(t) \/ Close(t)
  BY <1>1 DEF Unlock, ReadStored, Reloaded, Leave, Close, VotesEnd
<1>2. CASE \E t \in Tabs, nu \in Nullifiers, choice \in 1..N_CHOICES,
              relayed \in BOOLEAN : Click(t, nu, choice, relayed)
  BY <1>2 DEF Click
<1>3. CASE \E t \in Tabs, nu \in Nullifiers : ClickRemove(t, nu)
  BY <1>3 DEF ClickRemove, VotesEnd
<1>4. CASE \E r \in removals : Removed(r)
  BY <1>4 DEF Removed, VotesEnd
<1>5. CASE \E task \in tasks : Submit(task)
  BY <1>5 DEF Submit
<1>6. CASE \E task \in tasks : Fail(task) \/ Refuse(task) \/ Done(task)
  BY <1>6 DEF Fail, Refuse, Done, VotesEnd
<1>7. CASE \E m \in network : Accept(m)
  BY <1>7 DEF Accept, VotesEnd
<1>8. CASE \E m \in network : Lose(m)
  BY <1>8 DEF Lose, VotesEnd
<1>9. CASE UNCHANGED vars
  BY <1>9 DEF vars, VotesEnd
<1> QED
  BY <1>1, <1>2, <1>3, <1>4, <1>5, <1>6, <1>7, <1>8, <1>9 DEF VoterNext

-----------------------------------------------------------------------------
(* Where keys come from *)

\* Every key of a store was introduced by a message that was sent.
Introduced(store) ==
    \A nu \in Nullifiers : store[nu] # NoKey =>
        \E m \in sent : Nullifier(m) = nu /\ m.revotingKeyNew = store[nu]

BallotKeys == [nu \in Nullifiers |-> Ballots(log)[nu].key]

Generated(m) == m.revotingKeyNew \in 1..keys

\* A key is in a store, in memory or in a ballot only after its message was
\* sent, and nobody can hold a key that was not generated yet.
KeyInv ==
    /\ VoterTypeOK
    /\ Ballots(log) \in Trees
    /\ Introduced(idb)
    /\ \A store \in Held : Introduced(store)
    /\ Introduced(BallotKeys)
    /\ \A task \in tasks : task.submitted => task.message \in sent
    /\ network \subseteq sent
    /\ \A task \in tasks : Generated(task.message)
    /\ \A m \in sent : Generated(m)

\* The empty map holds no key at all.
LEMMA NoKeysIntroduced == Introduced(NoKeys)
BY DEF Introduced, NoKeys

\* At first nobody knows a key and no ballot has one.
LEMMA KeyInvInit == VoterInit => KeyInv
<1> SUFFICES ASSUME VoterInit PROVE KeyInv
  OBVIOUS
<1>1. VoterTypeOK
  BY TypeInit
<1>2. Ballots(log) = EmptyTree
  BY BallotsEmpty DEF VoterInit
<1>3. Ballots(log) \in Trees
  BY <1>2, EmptyTreeHistogram
<1>4. BallotKeys = NoKeys
  BY <1>2 DEF BallotKeys, NoKeys, EmptyTree, EmptyLeaf
<1>5. \A store \in Held : store = NoKeys
  BY DEF Held, VoterInit
<1> QED
  BY <1>1, <1>3, <1>4, <1>5, NoKeysIntroduced DEF VoterInit, KeyInv

\* A map that stores the key of a sent message holds keys of sent messages.
LEMMA StoredIntroduced ==
    ASSUME NEW base \in KeyMaps, NEW m \in MessageType, Introduced(base), m \in sent
    PROVE  Introduced(Stored(base, m))
BY NullifierType DEF Introduced, Stored, KeyMaps

\* Applying a message replaces at most the ballot of its nullifier.
LEMMA ApplyFacts ==
    ASSUME NEW tree \in Trees, NEW m \in MessageType
    PROVE  /\ ApplyMessage(tree, m) \in Trees
           /\ \A nu \in Nullifiers :
                \/ ApplyMessage(tree, m)[nu] = tree[nu]
                \/ /\ nu = Nullifier(m)
                   /\ m.revotingKeyOld = tree[nu].key
                   /\ ApplyMessage(tree, m)[nu].key = m.revotingKeyNew
BY NullifierType DEF ApplyMessage, Trees, MessageType

\* The votes of the next state come from votes of this one, or from a click.
LEMMA TasksStep ==
    ASSUME VoterTypeOK, VoterConstants, [VoterNext]_vars, NEW x \in tasks'
    PROVE  \/ \E y \in tasks :
                /\ x.message = y.message
                /\ x.submitted => y.submitted \/ x.message \in sent'
           \/ /\ ~x.submitted
              /\ x.message.revotingKeyNew = keys + 1
              /\ keys' = keys + 1
              /\ \E t \in Tabs :
                    x.message.revotingKeyOld = map[t][Nullifier(x.message)]
<1>1. CASE VotesEnd
  BY <1>1 DEF VotesEnd
<1>2. ASSUME NEW task \in tasks, Submit(task)
      PROVE  \E y \in tasks : /\ x.message = y.message
                              /\ x.submitted => y.submitted \/ x.message \in sent'
  <2>1. task \in TaskType
    BY DEF VoterTypeOK
  <2>2. [task EXCEPT !.submitted = TRUE].message = task.message
    BY <2>1 DEF TaskType
  <2>3. /\ tasks' = (tasks \ {task}) \union {[task EXCEPT !.submitted = TRUE]}
        /\ task.message \in sent'
    BY <1>2 DEF Submit
  <2> QED
    BY <2>2, <2>3
<1>3. ASSUME NEW t \in Tabs, NEW nu \in Nullifiers, NEW choice \in 1..N_CHOICES,
             NEW relayed \in BOOLEAN, Click(t, nu, choice, relayed), x \notin tasks
      PROVE  /\ ~x.submitted
             /\ x.message.revotingKeyNew = keys + 1
             /\ keys' = keys + 1
             /\ x.message.revotingKeyOld = map[t][Nullifier(x.message)]
  <2>1. tasks' = tasks \union {NewTask(t, nu, choice, relayed)} /\ keys' = keys + 1
    BY <1>3 DEF Click, MayClick, NewTask, NewMessage
  <2>2. x = NewTask(t, nu, choice, relayed)
    BY <1>3, <2>1
  <2>3. /\ NewTask(t, nu, choice, relayed).message = NewMessage(t, nu, choice)
        /\ ~NewTask(t, nu, choice, relayed).submitted
        /\ NewMessage(t, nu, choice).revotingKeyNew = keys + 1
        /\ NewMessage(t, nu, choice).revotingKeyOld = map[t][nu]
    BY DEF NewTask, NewMessage, FreshKey
  <2>4. Nullifier(NewMessage(t, nu, choice)) = nu
    BY VoterConstants, ClickFacts
  <2> QED
    BY <2>1, <2>2, <2>3, <2>4
<1> QED
  BY <1>1, <1>2, <1>3, StepKinds

\* Every message under way or sent was so before, or is that of a vote.
LEMMA MessagesStep ==
    ASSUME [VoterNext]_vars
    PROVE  /\ sent \subseteq sent'
           /\ network' \subseteq network \union {task.message : task \in tasks}
           /\ sent' \subseteq sent \union {task.message : task \in tasks}
           /\ network \subseteq sent => network' \subseteq sent'
           /\ keys' = keys \/ keys' = keys + 1
<1>1. CASE VotesEnd
  BY <1>1 DEF VotesEnd
<1>2. CASE \E task \in tasks : Submit(task)
  BY <1>2 DEF Submit
<1>3. CASE \E t \in Tabs, nu \in Nullifiers, choice \in 1..N_CHOICES,
              relayed \in BOOLEAN : Click(t, nu, choice, relayed)
  BY <1>3 DEF Click
<1> QED
  BY <1>1, <1>2, <1>3, StepKinds

\* Every step keeps the origin of all keys.
LEMMA KeyInvStep ==
    ASSUME KeyInv, [VoterNext]_vars
    PROVE  KeyInv'
<1> USE DEF KeyInv
<1>1. VoterTypeOK'
  BY VoterConstants, TypeStep
<1>2. ASSUME NEW store, Derived(store) PROVE Introduced(store)
  <2>1. CASE store \in Held \union {idb, NoKeys}
    BY <2>1, NoKeysIntroduced
  <2>2. ASSUME NEW known \in Held, NEW nu \in Nullifiers,
               store = [known EXCEPT ![nu] = NoKey]
        PROVE  Introduced(store)
    <3>1. known \in KeyMaps /\ Introduced(known)
      BY HeldType
    <3> QED
      BY <2>2, <3>1 DEF Introduced, KeyMaps
  <2>3. ASSUME NEW task \in tasks, task.submitted,
               store = Stored(task.base, task.message)
        PROVE  Introduced(store)
    <3>1. /\ task.base \in KeyMaps /\ task.message \in MessageType
          /\ task.message \in sent
      BY <2>3 DEF VoterTypeOK, TaskType
    <3>2. Introduced(task.base)
      BY DEF Held
    <3> QED
      BY <2>3, <3>1, <3>2, StoredIntroduced
  <2> QED
    BY <1>2, <2>1, <2>2, <2>3 DEF Derived
<1>3. \A store \in Held' \union {idb'} : Introduced(store)
  BY <1>2, HeldStep
<1>4. sent \subseteq sent'
  BY MessagesStep
<1>5. Introduced(idb)' /\ (\A store \in Held : Introduced(store))'
  BY <1>3, <1>4 DEF Introduced
<1>6. (Ballots(log) \in Trees)' /\ Introduced(BallotKeys)'
  <2>1. CASE log' = log
    BY <1>4, <2>1 DEF Introduced, BallotKeys
  <2>2. ASSUME NEW m \in network, Accept(m)
        PROVE  (Ballots(log) \in Trees)' /\ Introduced(BallotKeys)'
    <3>1. m \in MessageType /\ log \in Seq(MessageType) /\ m \in sent
      BY DEF VoterTypeOK
    <3>2. Ballots(log)' = ApplyMessage(Ballots(log), m)
      BY <2>2, <3>1, BallotsAppend DEF Accept
    <3>3. (Ballots(log) \in Trees)'
      BY <3>1, <3>2, ApplyFacts
    <3>4. \A nu \in Nullifiers :
            \/ Ballots(log)'[nu].key = Ballots(log)[nu].key
            \/ nu = Nullifier(m) /\ Ballots(log)'[nu].key = m.revotingKeyNew
      BY <3>1, <3>2, ApplyFacts
    <3>5. Introduced(BallotKeys)'
      BY <1>4, <3>1, <3>4 DEF Introduced, BallotKeys
    <3> QED
      BY <3>3, <3>5
  <2> QED
    BY <2>1, <2>2, StepKinds
<1>7. (\A task \in tasks : task.submitted => task.message \in sent)'
  BY <1>4, TasksStep, VoterConstants
<1>8. keys \in Nat /\ (keys' = keys \/ keys' = keys + 1)
  BY MessagesStep DEF VoterTypeOK
<1>9. (\A task \in tasks : Generated(task.message))'
  BY <1>8, TasksStep, VoterConstants DEF Generated
<1>10. (\A m \in sent : Generated(m))'
  BY <1>8, MessagesStep DEF Generated
<1>11. (network \subseteq sent)'
  BY MessagesStep
<1> QED
  BY <1>1, <1>5, <1>6, <1>7, <1>9, <1>10, <1>11

\* Every key in a map, a task or a ballot was introduced by a sent message.
LEMMA KeyInvariant == VoterSpec => []KeyInv
<1>1. KeyInv /\ [VoterNext]_vars => KeyInv'
  BY KeyInvStep
<1> QED
  BY <1>1, KeyInvInit, PTL DEF VoterSpec

\* A key is stored for an account and poll only after the message that
\* introduces it was sent, however votes, tabs and losses interleave
\* (StoredKeyWasSent; onVoteClick saves last).
THEOREM StoredKeysWereSent == VoterSpec => []StoredKeyWasSent
<1>1. KeyInv => StoredKeyWasSent
  BY DEF KeyInv, Introduced, StoredKeyWasSent
<1> QED
  BY <1>1, KeyInvariant, PTL

-----------------------------------------------------------------------------
(* A forgotten key *)

\* A key that nobody knows is never learnt again, and the ballot that has it
\* stays: every map of the next state is derived from maps without the key.
LEMMA ForgottenStep ==
    ASSUME KeyInv, [VoterNext]_vars, NEW nu \in Nullifiers, KeyForgotten(nu)
    PROVE  /\ KeyForgotten(nu)'
           /\ Ballots(log)'[nu] = Ballots(log)[nu]
<1> DEFINE key == Ballots(log)[nu].key
<1>1. key # NoKey /\ key \in 1..keys
  <2>1. key # NoKey
    BY DEF KeyForgotten
  <2>2. PICK m \in sent : m.revotingKeyNew = key
    BY <2>1 DEF KeyInv, Introduced, BallotKeys
  <2> QED
    BY <2>1, <2>2 DEF KeyInv, Generated
<1>2. /\ \A store \in Held \union {idb} : store[nu] # key
      /\ \A task \in tasks : Nullifier(task.message) = nu =>
            key \notin {task.message.revotingKeyOld, task.message.revotingKeyNew}
      /\ \A m \in network : Nullifier(m) = nu => m.revotingKeyOld # key
  BY DEF KeyForgotten, Held
<1>3. VoterTypeOK /\ keys \in Nat
  BY DEF KeyInv, VoterTypeOK
<1>4. Ballots(log)'[nu] = Ballots(log)[nu]
  <2>1. CASE log' = log
    BY <2>1
  <2>2. ASSUME NEW m \in network, Accept(m)
        PROVE  Ballots(log)'[nu] = Ballots(log)[nu]
    <3>1. m \in MessageType /\ log \in Seq(MessageType) /\ Ballots(log) \in Trees
      BY <1>3 DEF VoterTypeOK, KeyInv
    <3>2. Ballots(log)' = ApplyMessage(Ballots(log), m)
      BY <2>2, <3>1, BallotsAppend DEF Accept
    <3>3. ~ (nu = Nullifier(m) /\ m.revotingKeyOld = Ballots(log)[nu].key)
      BY <1>2
    <3> QED
      BY <3>1, <3>2, <3>3, ApplyFacts
  <2> QED
    BY <2>1, <2>2, StepKinds
<1> HIDE DEF key
<1>5. ASSUME NEW store, Derived(store) PROVE store[nu] # key
  <2>1. CASE store \in Held \union {idb, NoKeys}
    BY <1>1, <1>2, <2>1 DEF NoKeys
  <2>2. ASSUME NEW known \in Held, NEW n \in Nullifiers,
               store = [known EXCEPT ![n] = NoKey]
        PROVE  store[nu] # key
    <3>1. known \in KeyMaps
      BY <1>3, HeldType
    <3> QED
      BY <1>1, <1>2, <2>2, <3>1 DEF KeyMaps
  <2>3. ASSUME NEW task \in tasks, store = Stored(task.base, task.message)
        PROVE  store[nu] # key
    <3>1. task.base \in KeyMaps /\ task.base \in Held
      BY <1>3 DEF VoterTypeOK, TaskType, Held
    <3> QED
      BY <1>2, <2>3, <3>1 DEF Stored, KeyMaps
  <2> QED
    BY <1>5, <2>1, <2>2, <2>3 DEF Derived
<1>6. \A store \in Held' \union {idb'} : store[nu] # key
  BY <1>3, <1>5, HeldStep
<1>7. \A x \in tasks' : Nullifier(x.message) = nu =>
         key \notin {x.message.revotingKeyOld, x.message.revotingKeyNew}
  <2> SUFFICES ASSUME NEW x \in tasks', Nullifier(x.message) = nu
               PROVE  key \notin {x.message.revotingKeyOld, x.message.revotingKeyNew}
    OBVIOUS
  <2>1. CASE \E y \in tasks : x.message = y.message
    BY <1>2, <2>1
  <2>2. ASSUME NEW t \in Tabs, x.message.revotingKeyOld = map[t][nu],
               x.message.revotingKeyNew = keys + 1
        PROVE  key \notin {x.message.revotingKeyOld, x.message.revotingKeyNew}
    <3>1. map[t] \in Held
      BY DEF Held
    <3> QED
      BY <1>1, <1>2, <1>3, <2>2, <3>1
  <2> QED
    BY <1>3, <2>1, <2>2, TasksStep, VoterConstants
<1>8. \A m \in network' : Nullifier(m) = nu => m.revotingKeyOld # key
  BY <1>2, MessagesStep
<1>9. /\ \A t \in Tabs : map'[t] \in Held' /\ (read'[t] # NoTask => read'[t] \in Held')
      /\ \A task \in tasks' : task.base \in Held'
      /\ \A r \in removals' : r.next \in Held'
  BY DEF Held
<1>10. Ballots(log)'[nu].key = key
  BY <1>4 DEF key
<1>11. KeyForgotten(nu)'
  BY <1>1, <1>6, <1>7, <1>8, <1>9, <1>10 DEF KeyForgotten
<1> QED
  BY <1>4, <1>11

\* Once no store, tab, vote or message of a voter names the key of her ballot,
\* her ballot and that loss are final (ForgottenIsFinal; removeForPoll).
THEOREM ForgottenStaysForgotten == VoterSpec => ForgottenIsFinal
<1>1. KeyInv /\ [VoterNext]_vars =>
        [\A nu \in Nullifiers : KeyForgotten(nu) =>
            /\ KeyForgotten(nu)'
            /\ Ballots(log)'[nu] = Ballots(log)[nu]]_vars
  BY ForgottenStep
<1> QED
  BY <1>1, KeyInvariant, PTL DEF VoterSpec, ForgottenIsFinal
-----------------------------------------------------------------------------
(* The last vote counts *)

ShownBallot(nu) == IF shown[nu] = NoTask THEN EmptyLeaf ELSE BallotOf(shown[nu])

\* Chain, page and store agree on the vote of nu.
Agreed(nu) ==
    /\ Ballots(log)[nu] = ShownBallot(nu)
    /\ idb[nu] = Ballots(log)[nu].key

NoMessage(nu) == \A m \in network : Nullifier(m) # nu

OnlyMessage(nu, m) ==
    /\ m \in network
    /\ Nullifier(m) = nu
    /\ \A x \in network : Nullifier(x) = nu => x = m

\* The phases of an undisturbed vote: none; being proved; under way, with its
\* task or, when the wallet has reported it, without; accepted, but not stored.
Idle(nu) == nu \notin NullifiersOf(tasks) /\ NoMessage(nu) /\ Agreed(nu)

Proving(nu, task) ==
    /\ ~task.submitted
    /\ NoMessage(nu)
    /\ Agreed(nu)
    /\ task.message \notin sent
    /\ task.message.revotingKeyOld = idb[nu]

Pending(nu, task) ==
    /\ task.submitted
    /\ OnlyMessage(nu, task.message)
    /\ \A i \in DOMAIN log : log[i] # task.message
    /\ Agreed(nu)
    /\ task.message.revotingKeyOld = idb[nu]

Accepted(nu, task) ==
    /\ task.submitted
    /\ NoMessage(nu)
    /\ Ballots(log)[nu] = BallotOf(task.message)

Running(nu) ==
    \E task \in tasks :
        /\ Nullifier(task.message) = nu
        /\ tasks = {task} /\ removals = {}
        /\ Proving(nu, task) \/ Pending(nu, task) \/ Accepted(nu, task)

Trusted(nu) ==
    /\ nu \notin NullifiersOf(tasks)
    /\ \E m \in network :
         /\ OnlyMessage(nu, m)
         /\ shown[nu] = m
         /\ idb[nu] = m.revotingKeyNew
         /\ m.revotingKeyOld = Ballots(log)[nu].key

\* An undisturbed voter is in one of these phases, and no running vote or
\* deletion can overwrite her key with another one.
Undisturbed(nu) ==
    /\ \A task \in tasks : task.base[nu] = idb[nu]
    /\ \A r \in removals : r.next[nu] = idb[nu]
    /\ Idle(nu) \/ Running(nu) \/ Trusted(nu)

LastSentInv ==
    /\ KeyInv
    /\ \A i \in DOMAIN log : log[i] \in sent
    /\ \A nu \in Nullifiers \ disturbed : Undisturbed(nu)

\* A voter who has not voted is undisturbed and idle.
LEMMA LastSentInvInit == VoterInit => LastSentInv
<1> SUFFICES ASSUME VoterInit PROVE LastSentInv
  OBVIOUS
<1>1. Ballots(log) = EmptyTree
  BY BallotsEmpty DEF VoterInit
<1>2. ASSUME NEW nu \in Nullifiers PROVE Undisturbed(nu)
  <2>1. Agreed(nu)
    BY <1>1 DEF VoterInit, Agreed, ShownBallot, NoKeys, EmptyTree, EmptyLeaf
  <2>2. Idle(nu)
    BY <2>1 DEF VoterInit, Idle, NoMessage, NullifiersOf
  <2> QED
    BY <2>2 DEF VoterInit, Undisturbed
<1> QED
  BY <1>2, KeyInvInit DEF VoterInit, LastSentInv

\* A message that names the key of its voter's ballot replaces the ballot.
LEMMA ApplyMatching ==
    ASSUME NEW tree \in Trees, NEW m \in MessageType,
           m.revotingKeyOld = tree[Nullifier(m)].key
    PROVE  ApplyMessage(tree, m)[Nullifier(m)] = BallotOf(m)
BY NullifierType DEF ApplyMessage, Trees, BallotOf

\* A step that touches nothing of nu leaves its phase alone.
LEMMA Untouched ==
    ASSUME NEW nu \in Nullifiers, Undisturbed(nu),
           \A task \in tasks' : task.base[nu] = idb'[nu],
           \A r \in removals' : r.next[nu] = idb'[nu],
           \/ tasks' = tasks /\ removals' \subseteq removals
           \/ nu \notin NullifiersOf(tasks) /\ nu \notin NullifiersOf(tasks)',
           \A m : Nullifier(m) = nu => (m \in network' <=> m \in network),
           Ballots(log)'[nu] = Ballots(log)[nu],
           \A i \in DOMAIN log' :
              (i \in DOMAIN log /\ log'[i] = log[i]) \/ Nullifier(log'[i]) # nu,
           \A m \in sent' : m \in sent \/ Nullifier(m) # nu,
           idb'[nu] = idb[nu], shown'[nu] = shown[nu]
    PROVE  Undisturbed(nu)'
<1>1. NoMessage(nu) => NoMessage(nu)'
  BY DEF NoMessage
<1>2. Agreed(nu) => Agreed(nu)'
  BY DEF Agreed, ShownBallot
<1>3. ASSUME NEW m, OnlyMessage(nu, m) PROVE OnlyMessage(nu, m)'
  BY <1>3 DEF OnlyMessage
<1>4. nu \notin NullifiersOf(tasks) => nu \notin NullifiersOf(tasks)'
  BY DEF NullifiersOf
<1>5. CASE Idle(nu)
  <2>1. Idle(nu)'
    BY <1>1, <1>2, <1>4, <1>5 DEF Idle
  <2> QED
    BY <2>1 DEF Undisturbed
<1>6. CASE Running(nu)
  <2>1. PICK task \in tasks :
          /\ Nullifier(task.message) = nu
          /\ tasks = {task} /\ removals = {}
          /\ Proving(nu, task) \/ Pending(nu, task) \/ Accepted(nu, task)
    BY <1>6 DEF Running
  <2>2. nu \in NullifiersOf(tasks)
    BY <2>1 DEF NullifiersOf
  <2>3. tasks' = tasks /\ removals' = {}
    BY <2>1, <2>2
  <2>4. Proving(nu, task) => Proving(nu, task)'
    BY <1>1, <1>2, <2>1 DEF Proving
  <2>5. Pending(nu, task) => Pending(nu, task)'
    BY <1>2, <1>3, <2>1 DEF Pending
  <2>6. Accepted(nu, task) => Accepted(nu, task)'
    BY <1>1, <2>1 DEF Accepted
  <2>7. Running(nu)'
    BY <2>1, <2>3, <2>4, <2>5, <2>6 DEF Running
  <2> QED
    BY <2>7 DEF Undisturbed
<1>7. CASE Trusted(nu)
  <2>1. PICK m \in network :
          /\ OnlyMessage(nu, m)
          /\ shown[nu] = m
          /\ idb[nu] = m.revotingKeyNew
          /\ m.revotingKeyOld = Ballots(log)[nu].key
    BY <1>7 DEF Trusted
  <2>2. OnlyMessage(nu, m)'
    BY <1>3, <2>1
  <2>3. m \in network'
    BY <2>2 DEF OnlyMessage
  <2>4. Trusted(nu)'
    BY <1>4, <1>7, <2>1, <2>2, <2>3 DEF Trusted
  <2> QED
    BY <2>4 DEF Undisturbed
<1> QED
  BY <1>5, <1>6, <1>7 DEF Undisturbed

\* The only running vote of an undisturbed voter is the only one at all.
LEMMA OnlyTask ==
    ASSUME NEW nu \in Nullifiers, Undisturbed(nu), NEW task \in tasks,
           Nullifier(task.message) = nu
    PROVE  /\ tasks = {task} /\ removals = {}
           /\ Proving(nu, task) \/ Pending(nu, task) \/ Accepted(nu, task)
<1>1. nu \in NullifiersOf(tasks)
  BY DEF NullifiersOf
<1>2. Running(nu)
  BY <1>1 DEF Undisturbed, Idle, Trusted
<1> QED
  BY <1>2 DEF Running

\* A vote of somebody else is not a vote of an undisturbed voter, nor runs
\* beside one.
LEMMA OtherTask ==
    ASSUME NEW nu \in Nullifiers, Undisturbed(nu), NEW task \in tasks,
           Nullifier(task.message) # nu
    PROVE  nu \notin NullifiersOf(tasks)
<1>1. SUFFICES ASSUME NEW other \in tasks, Nullifier(other.message) = nu PROVE FALSE
  BY DEF NullifiersOf
<1>2. tasks = {other}
  BY <1>1, OnlyTask
<1> QED
  BY <1>1, <1>2

\* A voter whom no step disturbed keeps the phase her last vote is in.
LEMMA UndisturbedStep ==
    ASSUME LastSentInv, [VoterNext]_vars, NEW nu \in Nullifiers, nu \notin disturbed'
    PROVE  Undisturbed(nu)'
<1>1. /\ VoterTypeOK
      /\ Ballots(log) \in Trees
      /\ network \subseteq sent
      /\ \A i \in DOMAIN log : log[i] \in sent
      /\ \A m \in sent : Generated(m)
  BY DEF LastSentInv, KeyInv
<1>2. disturbed \subseteq disturbed'
  BY DEF VoterNext, vars, Unlock, ReadStored, Reloaded, Leave, Close, Click, ClickRemove,
         Removed, Submit, Fail, Refuse, Done, Accept, Lose
<1>3. Undisturbed(nu)
  BY <1>2 DEF LastSentInv
<1>4. /\ \A task \in tasks : task.base[nu] = idb[nu]
      /\ \A r \in removals : r.next[nu] = idb[nu]
  BY <1>3 DEF Undisturbed
<1>5. CASE UNCHANGED <<idb, tasks, removals, network, log, shown, sent>>
  BY <1>3, <1>4, <1>5, Untouched
<1>6. ASSUME NEW t \in Tabs, Unlock(t) \/ ReadStored(t) \/ Reloaded(t) \/ Leave(t)
      PROVE  Undisturbed(nu)'
  BY <1>5, <1>6 DEF Unlock, ReadStored, Reloaded, Leave
<1>7. ASSUME NEW t \in Tabs, Close(t) PROVE Undisturbed(nu)'
  <2>1. /\ tasks' = tasks \ {task \in tasks : task.tab = t}
        /\ \A task \in tasks : task.tab = t /\ task.submitted =>
              Nullifier(task.message) \in disturbed'
        /\ removals' \subseteq removals
        /\ UNCHANGED <<idb, network, log, shown, sent>>
    BY <1>7 DEF Close, NullifiersOf, Unstored
  <2>2. CASE nu \notin NullifiersOf(tasks) \/ tasks' = tasks
    <3>1. tasks' = tasks \/ (nu \notin NullifiersOf(tasks) /\ nu \notin NullifiersOf(tasks)')
      BY <2>1, <2>2 DEF NullifiersOf
    <3>2. /\ \A task \in tasks' : task.base[nu] = idb'[nu]
          /\ \A r \in removals' : r.next[nu] = idb'[nu]
      BY <1>4, <2>1
    <3> QED
      BY <1>3, <2>1, <3>1, <3>2, Untouched
  <2>3. ASSUME NEW task \in tasks, Nullifier(task.message) = nu, tasks' # tasks
        PROVE  Undisturbed(nu)'
    <3>1. /\ tasks = {task}
          /\ Proving(nu, task) \/ Pending(nu, task) \/ Accepted(nu, task)
      BY <1>3, <2>3, OnlyTask
    <3>2. tasks' = {} /\ task.tab = t
      BY <2>1, <2>3, <3>1
    <3>3. ~task.submitted
      BY <2>1, <2>3, <3>2
    <3>4. Proving(nu, task)
      BY <3>1, <3>3 DEF Pending, Accepted
    <3>5. Idle(nu)'
      BY <2>1, <3>2, <3>4 DEF Proving, Idle, NullifiersOf, NoMessage, Agreed, ShownBallot
    <3> QED
      BY <1>4, <2>1, <3>2, <3>5 DEF Undisturbed
  <2> QED
    BY <2>2, <2>3 DEF NullifiersOf
<1>8. ASSUME NEW t \in Tabs, NEW n \in Nullifiers, NEW choice \in 1..N_CHOICES,
             NEW relayed \in BOOLEAN, Click(t, n, choice, relayed)
      PROVE  Undisturbed(nu)'
  <2>0. PICK new : new = NewTask(t, n, choice, relayed)
    OBVIOUS
  <2>1. /\ tasks' = tasks \union {new}
        /\ UNCHANGED <<idb, map, removals, network, log, shown, sent>>
    BY <1>8, <2>0 DEF Click, MayClick, NewTask, NewMessage
  <2>2. /\ Endangered(t) \subseteq disturbed'
        /\ Endangered(t) # {} => n \in disturbed'
        /\ (\E m \in network : Nullifier(m) = n) => n \in disturbed'
    BY <1>8 DEF Click, MayClick
  <2>3. nu \notin NullifiersOf(tasks) /\ map[t][nu] = idb[nu]
    BY <2>2 DEF Endangered
  <2>4. /\ new.base = map[t]
        /\ ~new.submitted
        /\ Nullifier(new.message) = n
        /\ new.message.revotingKeyOld = map[t][n]
        /\ new.message.revotingKeyNew = keys + 1
    <3>1. n = <<n[1], n[2]>>
      BY DEF Nullifiers
    <3> QED
      BY <2>0, <3>1 DEF NewTask, NewMessage, FreshKey, Nullifier
  <2>5. /\ \A task \in tasks' : task.base[nu] = idb'[nu]
        /\ \A r \in removals' : r.next[nu] = idb'[nu]
    BY <1>4, <2>1, <2>3, <2>4
  <2>6. CASE n # nu
    <3>1. nu \notin NullifiersOf(tasks)'
      BY <2>1, <2>3, <2>4, <2>6 DEF NullifiersOf
    <3> QED
      BY <1>3, <2>1, <2>3, <2>5, <3>1, Untouched
  <2>7. CASE n = nu
    <3>1. tasks = {} /\ removals = {} /\ NoMessage(nu)
      BY <2>2, <2>7 DEF Endangered, NullifiersOf, NoMessage
    <3>2. Idle(nu)
      BY <1>3, <3>1 DEF Undisturbed, Running, Trusted, OnlyMessage, NoMessage
    <3>3. new.message \notin sent
      BY <1>1, <2>4 DEF Generated, VoterTypeOK
    <3>4. Proving(nu, new)'
      BY <2>1, <2>3, <2>4, <2>7, <3>2, <3>3 DEF Proving, Idle, NoMessage, Agreed, ShownBallot
    <3>5. tasks' = {new} /\ removals' = {}
      BY <2>1, <3>1
    <3>6. Running(nu)'
      BY <2>4, <2>7, <3>4, <3>5 DEF Running
    <3> QED
      BY <2>5, <3>6 DEF Undisturbed
  <2> QED
    BY <2>6, <2>7
<1>9. ASSUME NEW t \in Tabs, NEW n \in Nullifiers, ClickRemove(t, n)
      PROVE  Undisturbed(nu)'
  <2> DEFINE next == [map[t] EXCEPT ![n] = NoKey]
             new == [tab |-> t, nu |-> n, next |-> next, n |-> removes]
  <2>1. removals' = removals \union {new} /\ new.next = next
    BY <1>9 DEF ClickRemove
  <2>2. /\ disturbed' = disturbed \union Endangered(t) \union {n}
        /\ UNCHANGED <<idb, tasks, network, log, shown, sent>>
    BY <1>9 DEF ClickRemove
  <2>3. nu # n /\ nu \notin NullifiersOf(tasks) /\ map[t][nu] = idb[nu]
    BY <2>2 DEF Endangered
  <2>4. new.next[nu] = idb[nu]
    BY <1>1, <2>1, <2>3 DEF VoterTypeOK, KeyMaps
  <2> HIDE DEF new
  <2>5. \A r \in removals' : r.next[nu] = idb'[nu]
    BY <1>4, <2>1, <2>2, <2>4
  <2>6. nu \notin NullifiersOf(tasks)'
    BY <2>2, <2>3 DEF NullifiersOf
  <2> QED
    BY <1>3, <1>4, <2>2, <2>3, <2>5, <2>6, Untouched
<1>16. ASSUME NEW r \in removals, Removed(r) PROVE Undisturbed(nu)'
  <2>1. /\ idb' \in {idb, r.next}
        /\ removals' \subseteq removals
        /\ UNCHANGED <<tasks, network, log, shown, sent>>
    BY <1>16 DEF Removed
  <2>2. idb'[nu] = idb[nu]
    BY <1>4, <2>1
  <2>3. \A x \in removals' : x.next[nu] = idb'[nu]
    BY <1>4, <2>1, <2>2
  <2> QED
    BY <1>3, <1>4, <2>1, <2>2, <2>3, Untouched
<1>10. ASSUME NEW task \in tasks, Submit(task) PROVE Undisturbed(nu)'
  <2> DEFINE done == [task EXCEPT !.submitted = TRUE]
  <2>1. /\ tasks' = (tasks \ {task}) \union {done}
        /\ network' = network \union {task.message}
        /\ sent' = sent \union {task.message}
        /\ ~task.submitted
        /\ UNCHANGED <<idb, removals, log, shown>>
    BY <1>10 DEF Submit
  <2>2. task \in TaskType
    BY <1>1 DEF VoterTypeOK
  <2>3. done.message = task.message /\ done.base = task.base /\ done.submitted
    BY <2>2 DEF TaskType
  <2> HIDE DEF done
  <2>4. /\ \A x \in tasks' : x.base[nu] = idb'[nu]
        /\ \A r \in removals' : r.next[nu] = idb'[nu]
    BY <1>4, <2>1, <2>3
  <2>5. CASE Nullifier(task.message) # nu
    <3>1. nu \notin NullifiersOf(tasks)
      BY <1>3, <2>5, OtherTask
    <3>2. nu \notin NullifiersOf(tasks)'
      BY <2>1, <2>3, <2>5, <3>1 DEF NullifiersOf
    <3>3. \A m : Nullifier(m) = nu => (m \in network' <=> m \in network)
      BY <2>1, <2>5
    <3> QED
      BY <1>3, <2>1, <2>4, <2>5, <3>1, <3>2, <3>3, Untouched
  <2>6. CASE Nullifier(task.message) = nu
    <3>1. tasks = {task} /\ removals = {} /\ Proving(nu, task)
      BY <1>3, <2>1, <2>6, OnlyTask DEF Pending, Accepted
    <3>2. tasks' = {done} /\ removals' = {}
      BY <2>1, <3>1
    <3>3. OnlyMessage(nu, done.message)'
      BY <2>1, <2>3, <2>6, <3>1 DEF OnlyMessage, Proving, NoMessage
    <3>4. \A i \in DOMAIN log' : log'[i] # done.message
      BY <1>1, <2>1, <2>3, <3>1 DEF Proving
    <3>5. Agreed(nu)' /\ done.message.revotingKeyOld = idb'[nu]
      BY <2>1, <2>3, <3>1 DEF Proving, Agreed, ShownBallot
    <3>6. Pending(nu, done)'
      BY <2>1, <2>3, <3>3, <3>4, <3>5 DEF Pending
    <3>7. Running(nu)'
      BY <2>3, <2>6, <3>2, <3>6 DEF Running
    <3> QED
      BY <2>4, <3>7 DEF Undisturbed
  <2> QED
    BY <2>5, <2>6
<1>11. ASSUME NEW task \in tasks, Fail(task) PROVE Undisturbed(nu)'
  <2>1. /\ tasks' = tasks \ {task}
        /\ task.submitted => Nullifier(task.message) \in disturbed'
        /\ UNCHANGED <<idb, removals, network, log, shown, sent>>
    BY <1>11 DEF Fail, NullifiersOf, Unstored
  <2>2. CASE Nullifier(task.message) # nu
    <3>1. nu \notin NullifiersOf(tasks) /\ nu \notin NullifiersOf(tasks)'
      BY <1>3, <2>1, <2>2, OtherTask DEF NullifiersOf
    <3>2. /\ \A x \in tasks' : x.base[nu] = idb'[nu]
          /\ \A r \in removals' : r.next[nu] = idb'[nu]
      BY <1>4, <2>1
    <3> QED
      BY <1>3, <2>1, <3>1, <3>2, Untouched
  <2>3. CASE Nullifier(task.message) = nu
    <3>1. tasks = {task} /\ removals = {} /\ Proving(nu, task)
      BY <1>3, <2>1, <2>3, OnlyTask DEF Pending, Accepted
    <3>2. tasks' = {}
      BY <2>1, <3>1
    <3>3. Idle(nu)'
      BY <2>1, <3>1, <3>2 DEF Proving, Idle, NullifiersOf, NoMessage, Agreed, ShownBallot
    <3> QED
      BY <1>4, <2>1, <3>2, <3>3 DEF Undisturbed
  <2> QED
    BY <2>2, <2>3
<1>12. ASSUME NEW task \in tasks, Refuse(task) PROVE Undisturbed(nu)'
  <2>1. /\ tasks' = tasks \ {task}
        /\ network' = network \ {task.message}
        /\ task.submitted /\ task.message \in network
        /\ UNCHANGED <<idb, removals, log, shown, sent>>
    BY <1>12 DEF Refuse
  <2>2. CASE Nullifier(task.message) # nu
    <3>1. nu \notin NullifiersOf(tasks) /\ nu \notin NullifiersOf(tasks)'
      BY <1>3, <2>1, <2>2, OtherTask DEF NullifiersOf
    <3>2. /\ \A x \in tasks' : x.base[nu] = idb'[nu]
          /\ \A r \in removals' : r.next[nu] = idb'[nu]
      BY <1>4, <2>1
    <3>3. \A m : Nullifier(m) = nu => (m \in network' <=> m \in network)
      BY <2>1, <2>2
    <3> QED
      BY <1>3, <2>1, <3>1, <3>2, <3>3, Untouched
  <2>3. CASE Nullifier(task.message) = nu
    <3>1. tasks = {task} /\ removals = {} /\ Pending(nu, task)
      BY <1>3, <2>1, <2>3, OnlyTask DEF Proving, Accepted, NoMessage
    <3>2. tasks' = {} /\ NoMessage(nu)'
      BY <2>1, <3>1 DEF Pending, OnlyMessage, NoMessage
    <3>3. Idle(nu)'
      BY <2>1, <3>1, <3>2 DEF Pending, Idle, NullifiersOf, Agreed, ShownBallot
    <3> QED
      BY <1>4, <2>1, <3>2, <3>3 DEF Undisturbed
  <2> QED
    BY <2>2, <2>3
<1>13. ASSUME NEW task \in tasks, Done(task) PROVE Undisturbed(nu)'
  <2> DEFINE m == task.message
  <2>1. /\ tasks' = tasks \ {task}
        /\ idb' = Stored(task.base, m)
        /\ shown' = [shown EXCEPT ![Nullifier(m)] = m]
        /\ task.submitted
        /\ task.relayed => \E i \in DOMAIN log : log[i] = m
        /\ UNCHANGED <<removals, network, log, sent>>
    BY <1>13 DEF Done, AnsweredOk
  <2>2. task.base \in KeyMaps /\ m \in MessageType /\ Nullifier(m) \in Nullifiers
        /\ shown \in [Nullifiers -> MessageType \union {NoTask}]
    BY <1>1, NullifierType DEF VoterTypeOK, TaskType
  <2> HIDE DEF m
  <2>3. CASE Nullifier(m) # nu
    <3>1. nu \notin NullifiersOf(tasks) /\ nu \notin NullifiersOf(tasks)'
      BY <1>3, <2>1, <2>3, OtherTask DEF NullifiersOf, m
    <3>2. idb'[nu] = idb[nu] /\ shown'[nu] = shown[nu]
      BY <1>4, <2>1, <2>2, <2>3 DEF Stored, KeyMaps
    <3>3. /\ \A x \in tasks' : x.base[nu] = idb'[nu]
          /\ \A r \in removals' : r.next[nu] = idb'[nu]
      BY <1>4, <2>1, <3>2
    <3> QED
      BY <1>3, <2>1, <3>1, <3>2, <3>3, Untouched
  <2>4. CASE Nullifier(m) = nu
    <3>1. /\ tasks = {task} /\ removals = {}
          /\ Pending(nu, task) \/ Accepted(nu, task)
      BY <1>3, <2>1, <2>4, OnlyTask DEF Proving, m
    <3>2. tasks' = {} /\ removals' = {} /\ nu \notin NullifiersOf(tasks)'
      BY <2>1, <3>1 DEF NullifiersOf
    <3>3. idb'[nu] = m.revotingKeyNew /\ shown'[nu] = m /\ m # NoTask
      BY <2>1, <2>2, <2>4, VoterConstants DEF Stored, KeyMaps
    <3>4. CASE Pending(nu, task)
      <4>1. OnlyMessage(nu, m)' /\ m \in network'
        BY <2>1, <3>4 DEF Pending, OnlyMessage, m
      <4>2. m.revotingKeyOld = Ballots(log)'[nu].key
        BY <2>1, <3>4 DEF Pending, Agreed, m
      <4>3. Trusted(nu)'
        BY <3>2, <3>3, <4>1, <4>2 DEF Trusted
      <4> QED
        BY <3>2, <4>3 DEF Undisturbed
    <3>5. CASE Accepted(nu, task)
      <4>1. NoMessage(nu)'
        BY <2>1, <3>5 DEF Accepted, NoMessage
      <4>2. Ballots(log)'[nu] = BallotOf(m)
        BY <2>1, <3>5 DEF Accepted, m
      <4>3. Agreed(nu)'
        BY <3>3, <4>2 DEF Agreed, ShownBallot, BallotOf
      <4>4. Idle(nu)'
        BY <3>2, <4>1, <4>3 DEF Idle
      <4> QED
        BY <3>2, <4>4 DEF Undisturbed
    <3> QED
      BY <3>1, <3>4, <3>5
  <2> QED
    BY <2>3, <2>4
<1>14. ASSUME NEW m \in network, Accept(m) PROVE Undisturbed(nu)'
  <2>1. /\ log' = Append(log, m)
        /\ network' = network \ {m}
        /\ UNCHANGED <<idb, tasks, removals, shown, sent>>
    BY <1>14 DEF Accept
  <2>2. m \in MessageType /\ log \in Seq(MessageType)
    BY <1>1 DEF VoterTypeOK
  <2>3. Ballots(log)' = ApplyMessage(Ballots(log), m)
    BY <2>1, <2>2, BallotsAppend
  <2>4. \A i \in DOMAIN log' : (i \in DOMAIN log /\ log'[i] = log[i]) \/ log'[i] = m
    BY <2>1, <2>2
  <2>5. CASE Nullifier(m) # nu
    <3>1. Ballots(log)'[nu] = Ballots(log)[nu]
      BY <1>1, <2>2, <2>3, <2>5, ApplyFacts
    <3>2. \A x : Nullifier(x) = nu => (x \in network' <=> x \in network)
      BY <2>1, <2>5
    <3>3. \A i \in DOMAIN log' :
            (i \in DOMAIN log /\ log'[i] = log[i]) \/ Nullifier(log'[i]) # nu
      BY <2>4, <2>5
    <3> QED
      BY <1>3, <1>4, <2>1, <3>1, <3>2, <3>3, Untouched
  <2>6. CASE Nullifier(m) = nu
    <3>1. ~NoMessage(nu)
      BY <2>6 DEF NoMessage
    <3>2. m.revotingKeyOld = Ballots(log)[nu].key => Ballots(log)'[nu] = BallotOf(m)
      BY <1>1, <2>2, <2>3, <2>6, ApplyMatching
    <3>3. ASSUME NEW x, OnlyMessage(nu, x) PROVE x = m /\ NoMessage(nu)'
      BY <2>1, <2>6, <3>3 DEF OnlyMessage, NoMessage
    <3>4. CASE Running(nu)
      <4>1. PICK task \in tasks :
              /\ Nullifier(task.message) = nu
              /\ tasks = {task} /\ removals = {}
              /\ Proving(nu, task) \/ Pending(nu, task) \/ Accepted(nu, task)
        BY <3>4 DEF Running
      <4>2. Pending(nu, task)
        BY <3>1, <4>1 DEF Proving, Accepted
      <4>3. task.message = m /\ NoMessage(nu)' /\ task.submitted
        BY <3>3, <4>2 DEF Pending
      <4>4. Ballots(log)'[nu] = BallotOf(m)
        BY <3>2, <4>2, <4>3 DEF Pending, Agreed
      <4>5. Accepted(nu, task)'
        BY <4>3, <4>4 DEF Accepted
      <4>6. Running(nu)'
        BY <2>1, <4>1, <4>5 DEF Running
      <4> QED
        BY <1>4, <2>1, <4>6 DEF Undisturbed
    <3>5. CASE Trusted(nu)
      <4>1. /\ NoMessage(nu)'
            /\ shown[nu] = m
            /\ idb[nu] = m.revotingKeyNew
            /\ m.revotingKeyOld = Ballots(log)[nu].key
        BY <3>3, <3>5 DEF Trusted
      <4>2. m # NoTask
        BY <2>2, VoterConstants
      <4>3. Agreed(nu)'
        BY <2>1, <3>2, <4>1, <4>2 DEF Agreed, ShownBallot, BallotOf
      <4>4. Idle(nu)'
        BY <2>1, <3>5, <4>1, <4>3 DEF Idle, Trusted, NullifiersOf
      <4> QED
        BY <1>4, <2>1, <4>4 DEF Undisturbed
    <3> QED
      BY <1>3, <3>1, <3>4, <3>5 DEF Undisturbed, Idle
  <2> QED
    BY <2>5, <2>6
<1>15. ASSUME NEW m \in network, Lose(m) PROVE Undisturbed(nu)'
  <2>1. /\ network' = network \ {m}
        /\ Nullifier(m) \in disturbed'
        /\ UNCHANGED <<idb, tasks, removals, log, shown, sent>>
    BY <1>15 DEF Lose
  <2>2. \A x : Nullifier(x) = nu => (x \in network' <=> x \in network)
    BY <2>1
  <2> QED
    BY <1>3, <1>4, <2>1, <2>2, Untouched
<1> QED
  BY <1>5, <1>6, <1>7, <1>8, <1>9, <1>10, <1>11, <1>12, <1>13, <1>14, <1>15, <1>16
     DEF VoterNext, vars

\* Every step keeps all undisturbed voters in a phase.
LEMMA LastSentInvStep ==
    ASSUME LastSentInv, [VoterNext]_vars
    PROVE  LastSentInv'
<1>1. KeyInv'
  BY KeyInvStep DEF LastSentInv
<1>2. \A i \in DOMAIN log' : log'[i] \in sent'
  <2>1. sent \subseteq sent' /\ \A i \in DOMAIN log : log[i] \in sent
    BY MessagesStep DEF LastSentInv
  <2>2. ASSUME NEW m \in network, Accept(m) PROVE \A i \in DOMAIN log' : log'[i] \in sent'
    <3>1. m \in sent /\ m \in MessageType /\ log \in Seq(MessageType)
      BY DEF LastSentInv, KeyInv, VoterTypeOK
    <3>2. log' = Append(log, m)
      BY <2>2 DEF Accept
    <3>3. \A i \in DOMAIN log' : (i \in DOMAIN log /\ log'[i] = log[i]) \/ log'[i] = m
      BY <3>1, <3>2
    <3> QED
      BY <2>1, <3>1, <3>3
  <2>3. CASE log' = log
    BY <2>1, <2>3
  <2> QED
    BY <2>2, <2>3, StepKinds
<1>3. \A nu \in Nullifiers \ disturbed' : Undisturbed(nu)'
  BY UndisturbedStep
<1> QED
  BY <1>1, <1>2, <1>3 DEF LastSentInv

\* As long as nothing of a voter's votes in a poll is lost, runs beside another
\* vote or writes from an outdated map, the last vote shown as sent is her
\* ballot, and the key of that ballot is stored (LastSentCounts; onVoteClick).
THEOREM LastSentVoteCounts == VoterSpec => []LastSentCounts
<1>1. LastSentInv => LastSentCounts
  <2> SUFFICES ASSUME LastSentInv, NEW nu \in Nullifiers \ disturbed, Settled(nu)
               PROVE  Agreed(nu)
    BY DEF LastSentCounts, Agreed, ShownBallot
  <2>1. Undisturbed(nu)
    BY DEF LastSentInv
  <2>2. ~Running(nu)
    BY DEF Settled, Running, NullifiersOf
  <2>3. ~Trusted(nu)
    BY DEF Settled, Trusted, OnlyMessage
  <2> QED
    BY <2>1, <2>2, <2>3 DEF Undisturbed, Idle
<1>2. LastSentInv /\ [VoterNext]_vars => LastSentInv'
  BY LastSentInvStep
<1> QED
  BY <1>1, <1>2, LastSentInvInit, PTL DEF VoterSpec
=============================================================================
