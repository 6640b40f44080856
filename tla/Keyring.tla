------------------------------- MODULE Keyring -------------------------------
(***************************************************************************)
(* The ZK accounts of a browser: one list, encrypted under a passphrase in *)
(* IndexedDB, and decrypted in the memory of every tab of the profile.     *)
(* Unlocking and every change of the list are asynchronous functions that  *)
(* keep the passphrase and the list of the moment they were called, and    *)
(* write the whole list back when they have encrypted it.  No tab notices  *)
(* what another one writes.  An account is its private key; the index of   *)
(* the active one counts from 1.                                           *)
(***************************************************************************)
EXTENDS Naturals, Sequences, FiniteSets, SequencesExt

CONSTANTS
    Tabs,      \* browser tabs of one profile
    Passes,    \* passphrases a user may choose
    NoPass,    \* the empty passphrase field
    None,      \* nothing in IndexedDB; no key or account
    MaxKeys,   \* bound: keys generated
    MaxCalls   \* bound: functions started

BlobType == [pass : Passes \union {NoPass}, list : Seq(Nat)]

ASSUME KeyringConstants ==
    /\ NoPass \notin Passes
    /\ None \notin BlobType \union Nat
    /\ MaxKeys \in Nat /\ MaxCalls \in Nat

VARIABLES
    store,    \* KEYRING_DB_KEY: the encrypted list
    saved,    \* ACTIVE_IDX_KEY in localStorage
    found,    \* hasKeyring of a tab: "unknown" until it has looked
    unlocked, \* tabs that are not locked
    pass,     \* the passphrase field of a tab
    accounts, \* the decrypted list of a tab
    active,   \* index of its active account
    opening,  \* running unlock functions, with the blob they found
    writing,  \* running functions that encrypt a list to store it
    made,     \* keys generated so far
    calls,    \* functions started so far
    kept,     \* history: keys stored once and not deleted by the user since
    exposed,  \* history: keys in danger from an outdated or overlapping write
    muddled,  \* history: a keyring was created over another one, or opened
              \* with another passphrase than its tab goes on with
    hurried   \* history: tabs that did not wait for their writes

stored == <<store, saved>>
tabVars == <<found, unlocked, pass, accounts, active>>
history == <<kept, exposed, muddled, hurried>>
keyringVars == <<stored, tabVars, opening, writing, made, calls, history>>

KeyringInit ==
    /\ store = None
    /\ saved = 1
    /\ found = [t \in Tabs |-> "unknown"]
    /\ unlocked = {}
    /\ pass = [t \in Tabs |-> NoPass]
    /\ accounts = [t \in Tabs |-> <<>>]
    /\ active = [t \in Tabs |-> 1]
    /\ opening = {} /\ writing = {}
    /\ made = 0 /\ calls = 0
    /\ kept = {} /\ exposed = {}
    /\ muddled = FALSE
    /\ hurried = {}

-----------------------------------------------------------------------------
(* Blobs, keys and indices *)

Encrypted(p, list) == [pass |-> p, list |-> list]

\* AES-GCM under a key that PBKDF2 derives: no other passphrase opens it.
Opens(p, blob) == blob.pass = p

\* genBabyJubKeypair: random bytes.
FreshKey == made + 1

\* Faulty variant: an index is only checked at its lower end.
UnclampedIndex(i, list) == IF list = <<>> THEN 1 ELSE i

ClampedIndex(i, list) ==
    IF list = <<>> THEN 1 ELSE IF i > Len(list) THEN Len(list) ELSE i

WritesOf(t) == {w \in writing : w.tab = t}

\* The account that signs and tallies in a tab.
Acting(t) ==
    IF t \in unlocked /\ active[t] \in DOMAIN accounts[t]
    THEN accounts[t][active[t]] ELSE None

\* The one the button in the header names, and a vote is cast with.
Named(t) ==
    IF t \in unlocked /\ accounts[t] # <<>>
    THEN IF active[t] \in DOMAIN accounts[t] THEN accounts[t][active[t]]
                                           ELSE accounts[t][1]
    ELSE None

-----------------------------------------------------------------------------
(* Opening a tab and its keyring *)

\* The effect of useKeyring.
Look(t) ==
    /\ found[t] = "unknown"
    /\ found' = [found EXCEPT ![t] = IF store = None THEN "none" ELSE "some"]
    /\ UNCHANGED <<stored, unlocked, pass, accounts, active, opening, writing,
                   made, calls, history>>

\* The field is shown as long as the keyring is locked.
TypePass(t, p) ==
    /\ t \notin unlocked
    /\ pass' = [pass EXCEPT ![t] = p]
    /\ UNCHANGED <<stored, found, unlocked, accounts, active, opening, writing,
                   made, calls, history>>

\* The panel of a locked keyring: a new passphrase must be long enough and
\* typed twice.
MayUnlock(t) ==
    /\ t \notin unlocked
    /\ found[t] = "none" => pass[t] # NoPass

\* A function starts that will store a list.  Exposed: the keys its tab does
\* not know of, and those added while another function is to store a list.
Write(t, list, added, index, left) ==
    LET w == [call |-> calls, tab |-> t, pass |-> pass[t], list |-> list,
              added |-> added, index |-> index, create |-> t \notin unlocked]
    IN  /\ writing' = writing \union {w}
        /\ exposed' = exposed \union (left \ ToSet(accounts[t]))
                              \union IF writing = {} THEN {}
                                     ELSE UNION {x.added : x \in writing'}
        /\ hurried' = IF WritesOf(t) = {} THEN hurried ELSE hurried \union {t}

\* unlock reads IndexedDB: with nothing there it creates a keyring.
Unlock(t) ==
    /\ MayUnlock(t)
    /\ IF store = None
       THEN /\ Write(t, <<>>, {}, 0, kept)
            /\ UNCHANGED opening
       ELSE /\ opening' = opening \union
                   {[call |-> calls, tab |-> t, pass |-> pass[t], blob |-> store]}
            /\ UNCHANGED <<writing, exposed, hurried>>
    /\ UNCHANGED <<stored, tabVars, made, kept, muddled>>

\* Faulty variant: what a wrong passphrase yields is taken for a keyring.
DecryptedAnyway(o) ==
    /\ unlocked' = unlocked \union {o.tab}
    /\ accounts' = [accounts EXCEPT ![o.tab] =
                       IF Opens(o.pass, o.blob) THEN o.blob.list ELSE <<>>]
    /\ active' = [active EXCEPT ![o.tab] = ClampedIndex(saved, accounts'[o.tab])]
    /\ saved' = active'[o.tab]

\* The list is shown, with the index last used in any tab.
Decrypted(o) ==
    /\ Opens(o.pass, o.blob)
    /\ unlocked' = unlocked \union {o.tab}
    /\ accounts' = [accounts EXCEPT ![o.tab] = o.blob.list]
    /\ active' = [active EXCEPT ![o.tab] = ClampedIndex(saved, o.blob.list)]
    /\ saved' = active'[o.tab]

Opened(o) ==
    /\ o \in opening
    /\ Decrypted(o)
    /\ opening' = opening \ {o}
    /\ muddled' = (muddled \/ pass[o.tab] # o.pass)
    /\ hurried' = IF WritesOf(o.tab) = {} THEN hurried ELSE hurried \union {o.tab}
    /\ UNCHANGED <<store, found, pass, writing, made, calls, kept, exposed>>

\* "Wrong passphrase or corrupted keyring".
Refused(o) ==
    /\ o \in opening
    /\ ~Opens(o.pass, o.blob)
    /\ opening' = opening \ {o}
    /\ UNCHANGED <<stored, tabVars, writing, made, calls, history>>

Created(w) ==
    /\ w \in writing
    /\ w.create
    /\ writing' = writing \ {w}
    /\ store' = Encrypted(w.pass, w.list)
    /\ saved' = 1
    /\ found' = [found EXCEPT ![w.tab] = "some"]
    /\ unlocked' = unlocked \union {w.tab}
    /\ accounts' = [accounts EXCEPT ![w.tab] = w.list]
    /\ active' = [active EXCEPT ![w.tab] = 1]
    /\ muddled' = (muddled \/ pass[w.tab] # w.pass \/ store # None)
    /\ UNCHANGED <<pass, opening, made, calls, kept, exposed, hurried>>

\* The tab is closed, or its page reloaded: its memory is lost.
Close(t) ==
    /\ found[t] # "unknown"
    /\ found' = [found EXCEPT ![t] = "unknown"]
    /\ unlocked' = unlocked \ {t}
    /\ pass' = [pass EXCEPT ![t] = NoPass]
    /\ accounts' = [accounts EXCEPT ![t] = <<>>]
    /\ active' = [active EXCEPT ![t] = 1]
    /\ opening' = {o \in opening : o.tab # t}
    /\ writing' = writing \ WritesOf(t)
    /\ UNCHANGED <<stored, made, calls, history>>

-----------------------------------------------------------------------------
(* The list of accounts *)

\* The panel of an unlocked keyring, and the accounts it lists with "Use" and
\* "Delete".
MayAdd(t) == t \in unlocked
Listed(t) == IF t \in unlocked THEN DOMAIN accounts[t] ELSE {}

AddNew(t) ==
    /\ MayAdd(t)
    /\ Write(t, Append(accounts[t], FreshKey), {FreshKey}, 0, kept)
    /\ made' = made + 1
    /\ UNCHANGED <<stored, tabVars, opening, kept, muddled>>

\* Faulty variant: the name is compared and the key is not.
ImportableByName(t, k) == Len(accounts[t]) < MaxKeys

\* importPrv refuses a key of the list it knows.
Importable(t, k) == k \notin ToSet(accounts[t])

\* A key that this browser made, exported and perhaps lost; one from elsewhere
\* is like a new one.
ImportPrv(t, k) ==
    /\ MayAdd(t)
    /\ Importable(t, k)
    /\ Write(t, Append(accounts[t], k), {k}, 0, kept)
    /\ UNCHANGED <<stored, tabVars, opening, made, kept, muddled>>

\* Faulty variant: one further account goes with it.
RemovedUpTo(list, i) == SubSeq(list, i + 1, Len(list))

Removed(list, i) == RemoveAt(list, i)

\* The user confirms; the index to be checked is that of this moment.
RemoveAccount(t, i) ==
    /\ i \in Listed(t)
    /\ kept' = kept \ {accounts[t][i]}
    /\ Write(t, Removed(accounts[t], i), {}, active[t], kept')
    /\ UNCHANGED <<stored, tabVars, opening, made, muddled>>

\* persist: encrypted and stored as a whole.  A removal then checks the index.
Persisted(w) ==
    /\ w \in writing
    /\ ~w.create
    /\ writing' = writing \ {w}
    /\ store' = Encrypted(w.pass, w.list)
    /\ accounts' = [accounts EXCEPT ![w.tab] = w.list]
    /\ kept' = kept \union w.added
    /\ IF w.index > Len(w.list)
       THEN /\ active' = [active EXCEPT ![w.tab] = ClampedIndex(w.index, w.list)]
            /\ saved' = ClampedIndex(w.index, w.list)
       ELSE UNCHANGED <<active, saved>>
    /\ UNCHANGED <<found, unlocked, pass, opening, made, calls, exposed, muddled,
                   hurried>>

\* The button "Use" of an account.
Use(t, i) ==
    /\ i \in Listed(t)
    /\ active' = [active EXCEPT ![t] = i]
    /\ saved' = i
    /\ hurried' = IF WritesOf(t) = {} THEN hurried ELSE hurried \union {t}
    /\ UNCHANGED <<store, found, unlocked, pass, accounts, opening, writing,
                   made, calls, kept, exposed, muddled>>

-----------------------------------------------------------------------------

KeyringNext ==
    \/ \E t \in Tabs :
          \/ Look(t)
          \/ \E p \in Passes : TypePass(t, p)
          \/ Close(t)
          \/ \E i \in Listed(t) : Use(t, i)
    \/ /\ calls < MaxCalls
       /\ calls' = calls + 1
       /\ \E t \in Tabs :
             \/ Unlock(t)
             \/ made < MaxKeys /\ AddNew(t)
             \/ \E k \in 1..made : ImportPrv(t, k)
             \/ \E i \in Listed(t) : RemoveAccount(t, i)
    \/ \E o \in opening : Opened(o) \/ Refused(o)
    \/ \E w \in writing : Created(w) \/ Persisted(w)

KeyringSpec == KeyringInit /\ [][KeyringNext]_keyringVars

-----------------------------------------------------------------------------
(* Properties *)

WriteType ==
    [call : Nat, tab : Tabs, pass : Passes \union {NoPass}, list : Seq(Nat),
     added : SUBSET Nat, index : Nat, create : BOOLEAN]

OpeningType ==
    [call : Nat, tab : Tabs, pass : Passes \union {NoPass}, blob : BlobType]

\* Tables, tabs and running functions have their shapes (useKeyring).
KeyringTypeOK ==
    /\ store \in BlobType \union {None}
    /\ saved \in Nat \ {0}
    /\ found \in [Tabs -> {"unknown", "none", "some"}]
    /\ unlocked \subseteq Tabs
    /\ pass \in [Tabs -> Passes \union {NoPass}]
    /\ accounts \in [Tabs -> Seq(Nat)]
    /\ active \in [Tabs -> Nat \ {0}]
    /\ opening \subseteq OpeningType
    /\ writing \subseteq WriteType
    /\ made \in Nat /\ calls \in Nat
    /\ kept \subseteq Nat /\ exposed \subseteq Nat
    /\ muddled \in BOOLEAN
    /\ hurried \subseteq Tabs

\* An account that was stored, and that the user did not delete, is lost only
\* where a tab wrote that did not know of it, or when another function was
\* still to store its list while it was being added: no other order of calls,
\* answers, wrong passphrases and closed tabs loses one (unlock, persist).
AccountsKept ==
    \A k \in kept \ exposed : store # None /\ k \in ToSet(store.list)

\* What is stored opens with the passphrase of every unlocked tab, whatever
\* was typed, refused and written in between, unless the passphrase was edited
\* while it was being used, or two keyrings were created at once (unlock with
\* persist, both under the field's value of their own time).
PassphraseOpens ==
    ~muddled => \A t \in unlocked : store # None /\ Opens(pass[t], store)

\* The account whose name the header shows, which votes, is also the one that
\* signs and tallies, in every tab that waits for a write before the next click,
\* however the other tabs move the index they share (unlock, removeAt,
\* ZkAccountsButton).
NamedIsActing == \A t \in Tabs \ hurried : Named(t) = Acting(t)

\* No list, stored, shown or about to be stored, has a key twice, so that no
\* key is left when the user has deleted it and confirmed (importPrv).
NoKeyTwice ==
    /\ store # None => IsInjective(store.list)
    /\ \A t \in Tabs : IsInjective(accounts[t])
    /\ \A w \in writing : IsInjective(w.list)
=============================================================================
