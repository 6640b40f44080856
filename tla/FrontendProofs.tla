--------------------------- MODULE FrontendProofs ---------------------------
(***************************************************************************)
(* Machine-checked proofs about Keyring, for every number of tabs, keys,   *)
(* passphrases and running functions, and about ListPages, for every       *)
(* length of the lists and of the pages, and every number of requests.     *)
(***************************************************************************)
EXTENDS Keyring, ListPages, SequenceTheorems, FiniteSetTheorems,
        WellFoundedInduction, TLAPS

-----------------------------------------------------------------------------
(* Lists of keys *)

\* Appending a key to a list of other keys.
LEMMA AppendKey ==
    ASSUME NEW list \in Seq(Nat), NEW k \in Nat
    PROVE  /\ Append(list, k) \in Seq(Nat)
           /\ Len(Append(list, k)) = Len(list) + 1
           /\ ToSet(Append(list, k)) = ToSet(list) \union {k}
           /\ IsInjective(list) /\ k \notin ToSet(list)
                => IsInjective(Append(list, k))
<1>1. /\ Append(list, k) \in Seq(Nat)
      /\ Len(Append(list, k)) = Len(list) + 1
      /\ \A j \in 1..Len(list) : Append(list, k)[j] = list[j]
      /\ Append(list, k)[Len(list) + 1] = k
  OBVIOUS
<1>2. /\ DOMAIN list = 1..Len(list)
      /\ DOMAIN Append(list, k) = 1..(Len(list) + 1)
  BY <1>1
<1>3. 1..(Len(list) + 1) = 1..Len(list) \union {Len(list) + 1}
  OBVIOUS
<1>4. ToSet(Append(list, k)) = ToSet(list) \union {k}
  BY <1>1, <1>2, <1>3 DEF ToSet
<1>5. ASSUME IsInjective(list), k \notin ToSet(list)
      PROVE  IsInjective(Append(list, k))
  BY <1>1, <1>2, <1>3, <1>5 DEF ToSet, IsInjective
<1> QED
  BY <1>1, <1>4, <1>5

\* removeAt takes out the key at an index, and nothing else.
LEMMA RemoveKeyAt ==
    ASSUME NEW S, NEW list \in Seq(S), NEW i \in DOMAIN list
    PROVE  /\ Removed(list, i) \in Seq(S)
           /\ Len(Removed(list, i)) = Len(list) - 1
           /\ ToSet(Removed(list, i)) \subseteq ToSet(list)
           /\ ToSet(list) \ {list[i]} \subseteq ToSet(Removed(list, i))
           /\ IsInjective(list) => IsInjective(Removed(list, i))
<1> DEFINE r == Removed(list, i)
           low == SubSeq(list, 1, i - 1)
           high == SubSeq(list, i + 1, Len(list))
<1>1. /\ i \in 1..Len(list) /\ DOMAIN list = 1..Len(list) /\ Len(list) \in Nat
      /\ \A j \in 1..Len(list) : list[j] \in S
  OBVIOUS
<1>2. r = low \o high
  BY DEF Removed, RemoveAt
<1>3. /\ low \in Seq(S)
      /\ Len(low) = i - 1
      /\ \A j \in 1..(i - 1) : low[j] = list[j]
  <2>1. i - 1 \in Int /\ \A j \in 1..(i - 1) : list[j] \in S
    BY <1>1
  <2>2. /\ low \in Seq(S)
        /\ Len(low) = IF 1 <= i - 1 THEN (i - 1) - 1 + 1 ELSE 0
        /\ \A j \in 1..((i - 1) - 1 + 1) : low[j] = list[1 + j - 1]
    BY <2>1, SubSeqProperties
  <2> HIDE DEF low
  <2> QED
    BY <2>2, <1>1
<1>4. /\ high \in Seq(S)
      /\ Len(high) = Len(list) - i
      /\ \A j \in 1..(Len(list) - i) : high[j] = list[j + i]
  <2>1. /\ i + 1 \in Int /\ Len(list) \in Int
        /\ \A j \in (i + 1)..Len(list) : list[j] \in S
    BY <1>1
  <2>2. /\ high \in Seq(S)
        /\ Len(high) = IF i + 1 <= Len(list) THEN Len(list) - (i + 1) + 1 ELSE 0
        /\ \A j \in 1..(Len(list) - (i + 1) + 1) : high[j] = list[(i + 1) + j - 1]
    BY <2>1, SubSeqProperties
  <2> HIDE DEF high
  <2>3. /\ Len(list) \in Nat /\ i \in Nat /\ i <= Len(list)
        /\ Len(list) - (i + 1) + 1 = Len(list) - i
    BY <1>1
  <2>4. Len(high) = Len(list) - i
    BY <2>2, <2>3
  <2>5. ASSUME NEW j \in 1..(Len(list) - i) PROVE high[j] = list[j + i]
    <3>1. (i + 1) + j - 1 = j + i
      BY <2>3
    <3> QED
      BY <2>2, <2>3, <3>1
  <2> QED
    BY <2>2, <2>4, <2>5
<1>5. /\ r \in Seq(S)
      /\ Len(r) = Len(low) + Len(high)
      /\ \A j \in 1..(Len(low) + Len(high)) :
            r[j] = IF j <= Len(low) THEN low[j] ELSE high[j - Len(low)]
  <2> HIDE DEF low, high, r
  <2> QED
    BY <1>2, <1>3, <1>4, ConcatProperties
<1> HIDE DEF low, high, r
<1>6. Len(r) = Len(list) - 1
  BY <1>1, <1>3, <1>4, <1>5
<1>11. \A j \in 1..(Len(list) - 1) : r[j] = IF j < i THEN list[j] ELSE list[j + 1]
  <2> TAKE j \in 1..(Len(list) - 1)
  <2>1. CASE j < i
    <3>1. /\ j \in 1..(i - 1)
          /\ j \in 1..(Len(low) + Len(high)) /\ j <= Len(low)
      BY <2>1, <1>1, <1>3, <1>4
    <3>2. r[j] = low[j]
      BY <3>1, <1>5
    <3>3. r[j] = list[j]
      BY <3>1, <3>2, <1>3
    <3> QED
      BY <2>1, <3>3
  <2>2. CASE ~(j < i)
    <3>1. j - (i - 1) \in 1..(Len(list) - i) /\ (j - (i - 1)) + i = j + 1
      BY <2>2, <1>1
    <3>2. high[j - (i - 1)] = list[(j - (i - 1)) + i]
      BY <3>1, <1>4
    <3>3. j \in 1..(Len(low) + Len(high)) /\ ~(j <= Len(low))
      BY <2>2, <1>1, <1>3, <1>4
    <3>4. r[j] = high[j - Len(low)]
      BY <3>3, <1>5
    <3>5. r[j] = list[j + 1]
      BY <3>1, <3>2, <3>4, <1>3
    <3> QED
      BY <2>2, <3>5
  <2> QED
    BY <2>1, <2>2
<1>7. DOMAIN r = 1..(Len(list) - 1)
  BY <1>5, <1>6
<1>8. ToSet(r) \subseteq ToSet(list)
  BY <1>1, <1>11, <1>7 DEF ToSet
<1>9. ToSet(list) \ {list[i]} \subseteq ToSet(r)
  <2> SUFFICES ASSUME NEW j \in 1..Len(list), list[j] # list[i]
               PROVE  \E n \in DOMAIN r : r[n] = list[j]
    BY <1>1 DEF ToSet
  <2>1. CASE j < i
    BY <2>1, <1>1, <1>11, <1>7
  <2>2. CASE j > i
    <3>1. j - 1 \in DOMAIN r /\ ~(j - 1 < i) /\ (j - 1) + 1 = j
      BY <2>2, <1>1, <1>7
    <3> QED
      BY <3>1, <1>11, <1>7
  <2> QED
    BY <2>1, <2>2, <1>1
<1>10. ASSUME IsInjective(list) PROVE IsInjective(r)
  BY <1>1, <1>11, <1>7, <1>10 DEF IsInjective
<1> QED
  BY <1>5, <1>6, <1>8, <1>9, <1>10 DEF r

-----------------------------------------------------------------------------
(* Types *)

\* What importPrv and addNew may add to a list, and how the others change it.
LEMMA ListTypes ==
    ASSUME KeyringTypeOK, NEW t \in Tabs
    PROVE  /\ accounts[t] \in Seq(Nat)
           /\ FreshKey \in Nat
           /\ \A k \in Nat : Append(accounts[t], k) \in Seq(Nat)
           /\ \A i \in Listed(t) : /\ i \in DOMAIN accounts[t] /\ i \in Nat \ {0}
                                  /\ Removed(accounts[t], i) \in Seq(Nat)
<1>1. accounts[t] \in Seq(Nat) /\ FreshKey \in Nat
  BY DEF KeyringTypeOK, FreshKey
<1>2. \A k \in Nat : Append(accounts[t], k) \in Seq(Nat)
  BY <1>1
<1>3. ASSUME NEW i \in Listed(t)
      PROVE  i \in DOMAIN accounts[t] /\ i \in Nat \ {0}
  <2>1. i \in DOMAIN accounts[t]
    BY DEF Listed
  <2> QED
    BY <2>1, <1>1
<1>4. \A i \in Listed(t) : Removed(accounts[t], i) \in Seq(Nat)
  BY <1>1, <1>3, RemoveKeyAt
<1> QED
  BY <1>1, <1>2, <1>3, <1>4

\* A clamped index is one of the list, or 1.
LEMMA ClampedIndexFits ==
    ASSUME NEW list \in Seq(Nat), NEW i \in Nat \ {0}
    PROVE  /\ ClampedIndex(i, list) \in Nat \ {0}
           /\ list = <<>> => ClampedIndex(i, list) = 1
           /\ list # <<>> => ClampedIndex(i, list) <= Len(list)
<1>1. Len(list) \in Nat /\ (list # <<>> => Len(list) # 0)
  OBVIOUS
<1> QED
  BY <1>1 DEF ClampedIndex

\* A function that starts has the shape of one.
LEMMA WriteTypes ==
    ASSUME KeyringTypeOK, NEW t \in Tabs, NEW list \in Seq(Nat),
           NEW added \in SUBSET Nat, NEW index \in Nat, NEW left \in SUBSET Nat,
           Write(t, list, added, index, left)
    PROVE  /\ writing' \subseteq WriteType
           /\ exposed' \subseteq Nat
           /\ hurried' \subseteq Tabs
<1> DEFINE w == [call |-> calls, tab |-> t, pass |-> pass[t], list |-> list,
                 added |-> added, index |-> index, create |-> t \notin unlocked]
<1>1. writing' = writing \union {w}
  BY DEF Write
<1>2. w \in WriteType
  BY DEF KeyringTypeOK, WriteType
<1>3. writing' \subseteq WriteType
  BY <1>1, <1>2 DEF KeyringTypeOK
<1>4. UNION {x.added : x \in writing'} \subseteq Nat
  BY <1>3 DEF WriteType
<1>5. exposed' \subseteq Nat
  BY <1>4 DEF Write, KeyringTypeOK
<1>6. hurried' \subseteq Tabs
  BY DEF Write, KeyringTypeOK
<1> QED
  BY <1>3, <1>5, <1>6

\* Every step keeps the shapes.
LEMMA TypeStep ==
    ASSUME KeyringTypeOK, [KeyringNext]_keyringVars
    PROVE  KeyringTypeOK'
<1> USE DEF stored, tabVars, history
<1>1. ASSUME NEW t \in Tabs, Look(t) PROVE KeyringTypeOK'
  BY <1>1 DEF Look, KeyringTypeOK
<1>2. ASSUME NEW t \in Tabs, NEW p \in Passes, TypePass(t, p) PROVE KeyringTypeOK'
  BY <1>2 DEF TypePass, KeyringTypeOK
<1>3. ASSUME NEW t \in Tabs, Close(t) PROVE KeyringTypeOK'
  BY <1>3 DEF Close, KeyringTypeOK, WritesOf
<1>4. ASSUME NEW t \in Tabs, NEW i \in Listed(t), Use(t, i) PROVE KeyringTypeOK'
  <2>1. i \in Nat \ {0}
    BY ListTypes
  <2> QED
    BY <1>4, <2>1 DEF Use, KeyringTypeOK
<1>5. ASSUME NEW t \in Tabs, Unlock(t), calls' = calls + 1 PROVE KeyringTypeOK'
  <2>1. CASE store = None
    <3>1. Write(t, <<>>, {}, 0, kept)
      BY <1>5, <2>1 DEF Unlock
    <3>2. /\ writing' \subseteq WriteType
          /\ exposed' \subseteq Nat /\ hurried' \subseteq Tabs
      <4>1. <<>> \in Seq(Nat) /\ {} \in SUBSET Nat /\ 0 \in Nat /\ kept \in SUBSET Nat
        BY DEF KeyringTypeOK
      <4> QED
        BY <3>1, <4>1, WriteTypes
    <3> QED
      BY <1>5, <2>1, <3>2 DEF Unlock, KeyringTypeOK
  <2>2. CASE store # None
    <3>1. [call |-> calls, tab |-> t, pass |-> pass[t], blob |-> store]
             \in OpeningType
      BY <2>2 DEF KeyringTypeOK, OpeningType
    <3>2. opening' \subseteq OpeningType
      BY <1>5, <2>2, <3>1 DEF Unlock, KeyringTypeOK
    <3>3. /\ UNCHANGED <<store, saved, found, unlocked, pass, accounts, active,
                         writing, made, kept, exposed, muddled, hurried>>
          /\ calls' \in Nat
      BY <1>5, <2>2 DEF Unlock, KeyringTypeOK
    <3> QED
      BY <3>2, <3>3 DEF KeyringTypeOK
  <2> QED
    BY <2>1, <2>2
<1>6. ASSUME NEW t \in Tabs, AddNew(t), calls' = calls + 1 PROVE KeyringTypeOK'
  <2>1. /\ writing' \subseteq WriteType
        /\ exposed' \subseteq Nat /\ hurried' \subseteq Tabs
    BY <1>6, ListTypes, WriteTypes DEF AddNew, KeyringTypeOK
  <2> QED
    BY <1>6, <2>1 DEF AddNew, KeyringTypeOK
<1>7. ASSUME NEW t \in Tabs, NEW k \in 1..made, ImportPrv(t, k), calls' = calls + 1
      PROVE  KeyringTypeOK'
  <2>1. k \in Nat
    BY DEF KeyringTypeOK
  <2>2. /\ writing' \subseteq WriteType
        /\ exposed' \subseteq Nat /\ hurried' \subseteq Tabs
    BY <1>7, <2>1, ListTypes, WriteTypes DEF ImportPrv, KeyringTypeOK
  <2> QED
    BY <1>7, <2>2 DEF ImportPrv, KeyringTypeOK
<1>8. ASSUME NEW t \in Tabs, NEW i \in Listed(t), RemoveAccount(t, i),
             calls' = calls + 1
      PROVE  KeyringTypeOK'
  <2>1. kept' \subseteq Nat /\ active[t] \in Nat
    BY <1>8 DEF RemoveAccount, KeyringTypeOK
  <2>2. /\ writing' \subseteq WriteType
        /\ exposed' \subseteq Nat /\ hurried' \subseteq Tabs
    BY <1>8, <2>1, ListTypes, WriteTypes DEF RemoveAccount
  <2> QED
    BY <1>8, <2>1, <2>2 DEF RemoveAccount, KeyringTypeOK
<1>9. ASSUME NEW o \in opening, Opened(o) PROVE KeyringTypeOK'
  <2>1. o.tab \in Tabs /\ o.blob.list \in Seq(Nat)
    BY DEF KeyringTypeOK, OpeningType, BlobType
  <2>2. ClampedIndex(saved, o.blob.list) \in Nat \ {0}
    BY <2>1, ClampedIndexFits DEF KeyringTypeOK
  <2> QED
    BY <1>9, <2>1, <2>2 DEF Opened, Decrypted, KeyringTypeOK
<1>10. ASSUME NEW o \in opening, Refused(o) PROVE KeyringTypeOK'
  BY <1>10 DEF Refused, KeyringTypeOK
<1>11. ASSUME NEW w \in writing, Created(w) PROVE KeyringTypeOK'
  <2>1. w.tab \in Tabs /\ Encrypted(w.pass, w.list) \in BlobType /\ w.list \in Seq(Nat)
    BY DEF KeyringTypeOK, WriteType, BlobType, Encrypted
  <2> QED
    BY <1>11, <2>1 DEF Created, KeyringTypeOK
<1>12. ASSUME NEW w \in writing, Persisted(w) PROVE KeyringTypeOK'
  <2>1. /\ w.tab \in Tabs /\ Encrypted(w.pass, w.list) \in BlobType
        /\ w.list \in Seq(Nat) /\ w.added \in SUBSET Nat /\ w.index \in Nat
    BY DEF KeyringTypeOK, WriteType, BlobType, Encrypted
  <2>2. w.index > Len(w.list) => ClampedIndex(w.index, w.list) \in Nat \ {0}
    BY <2>1, ClampedIndexFits
  <2> QED
    BY <1>12, <2>1, <2>2 DEF Persisted, KeyringTypeOK
<1>13. CASE UNCHANGED keyringVars
  BY <1>13 DEF keyringVars, KeyringTypeOK
<1> QED
  BY <1>1, <1>2, <1>3, <1>4, <1>5, <1>6, <1>7, <1>8, <1>9, <1>10, <1>11, <1>12, <1>13
  DEF KeyringNext

\* A browser that never stored a keyring.
LEMMA InitTypes ==
    ASSUME KeyringInit
    PROVE  KeyringTypeOK
<1>1. <<>> \in Seq(Nat)
  OBVIOUS
<1>2. accounts \in [Tabs -> Seq(Nat)]
  BY <1>1 DEF KeyringInit
<1>3. active \in [Tabs -> Nat \ {0}] /\ pass \in [Tabs -> Passes \union {NoPass}]
  BY DEF KeyringInit
<1>4. found \in [Tabs -> {"unknown", "none", "some"}] /\ muddled \in BOOLEAN
  BY DEF KeyringInit
<1>5. /\ store \in BlobType \union {None} /\ saved \in Nat \ {0}
      /\ unlocked = {} /\ opening = {} /\ writing = {}
      /\ made \in Nat /\ calls \in Nat /\ kept = {} /\ exposed = {} /\ hurried = {}
  BY DEF KeyringInit
<1> QED
  BY <1>2, <1>3, <1>4, <1>5 DEF KeyringTypeOK

\* Tables, tabs and running functions keep their shapes (useKeyring).
THEOREM KeyringTypes == KeyringSpec => []KeyringTypeOK
<1>1. KeyringInit => KeyringTypeOK
  BY InitTypes
<1>2. KeyringTypeOK /\ [KeyringNext]_keyringVars => KeyringTypeOK'
  BY TypeStep
<1> QED
  BY <1>1, <1>2, PTL DEF KeyringSpec

-----------------------------------------------------------------------------
(* No account is lost *)

\* What every function under way would store has the accounts that are kept,
\* and the ones it adds; if another one is under way, those are exposed.
KeptInv ==
    /\ KeyringTypeOK
    /\ \A t \in Tabs \ unlocked : accounts[t] = <<>>
    /\ \A w \in writing : w.create \/ w.tab \in unlocked
    /\ AccountsKept
    /\ \A w \in writing : \A k \in kept \ exposed : k \in ToSet(w.list)
    /\ \A w \in writing : w.added \subseteq ToSet(w.list)
    /\ \A w, x \in writing : x = w \/ w.added \subseteq exposed

\* A function that starts with its tab's list, and with what it adds, keeps
\* them.
LEMMA KeptWrite ==
    ASSUME KeptInv, KeyringTypeOK', NEW t \in Tabs, NEW list, NEW added, NEW index,
           Write(t, list, added, index, kept'),
           kept' \subseteq kept,
           added \subseteq ToSet(list),
           ToSet(accounts[t]) \intersect kept' \subseteq ToSet(list),
           UNCHANGED <<store, unlocked, accounts>>
    PROVE  KeptInv'
<1> DEFINE new == [call |-> calls, tab |-> t, pass |-> pass[t], list |-> list,
                   added |-> added, index |-> index, create |-> t \notin unlocked]
<1>1. writing' = writing \union {new}
  BY DEF Write
<1>2. /\ new.list = list /\ new.added = added /\ new.tab = t
      /\ new.create = (t \notin unlocked)
  OBVIOUS
<1>3. /\ exposed \subseteq exposed'
      /\ kept' \ exposed' \subseteq ToSet(accounts[t])
      /\ writing # {} => UNION {x.added : x \in writing'} \subseteq exposed'
  BY DEF Write
<1> HIDE DEF new
<1>4. AccountsKept'
  BY <1>3 DEF KeptInv, AccountsKept
<1>5. \A w \in writing' : \A k \in kept' \ exposed' : k \in ToSet(w.list)
  BY <1>1, <1>2, <1>3 DEF KeptInv
<1>6. \A w \in writing' : w.added \subseteq ToSet(w.list)
  BY <1>1, <1>2 DEF KeptInv
<1>7. ASSUME NEW w \in writing', NEW x \in writing', x # w
      PROVE  w.added \subseteq exposed'
  <2>1. writing # {}
    BY <1>1, <1>7
  <2> QED
    BY <2>1, <1>3
<1>8. \A w \in writing' : w.create \/ w.tab \in unlocked'
  BY <1>1, <1>2 DEF KeptInv
<1> QED
  BY <1>4, <1>5, <1>6, <1>7, <1>8 DEF KeptInv

LEMMA KeptStep ==
    ASSUME KeptInv, [KeyringNext]_keyringVars
    PROVE  KeptInv'
<1> USE DEF stored, tabVars, history
<1>0. KeyringTypeOK /\ KeyringTypeOK'
  BY TypeStep DEF KeptInv
<1>1. ASSUME NEW t \in Tabs, \/ Look(t)
                             \/ \E p \in Passes : TypePass(t, p)
                             \/ \E i \in Listed(t) : Use(t, i)
      PROVE  KeptInv'
  BY <1>0, <1>1 DEF Look, TypePass, Use, KeptInv, AccountsKept
<1>2. ASSUME NEW t \in Tabs, Close(t) PROVE KeptInv'
  <2>1. /\ unlocked' = unlocked \ {t}
        /\ accounts' = [accounts EXCEPT ![t] = <<>>]
        /\ writing' = {w \in writing : w.tab # t}
        /\ UNCHANGED <<store, kept, exposed>>
    BY <1>2 DEF Close, WritesOf
  <2>2. \A u \in Tabs \ unlocked' : accounts'[u] = <<>>
    BY <1>0, <2>1 DEF KeptInv, KeyringTypeOK
  <2>3. \A w \in writing' : w.create \/ w.tab \in unlocked'
    BY <2>1 DEF KeptInv
  <2> QED
    BY <1>0, <2>1, <2>2, <2>3 DEF KeptInv, AccountsKept
<1>3. ASSUME NEW t \in Tabs, Unlock(t) PROVE KeptInv'
  <2>1. CASE store = None
    <3>1. accounts[t] = <<>> /\ ToSet(accounts[t]) = {}
      BY <1>3 DEF Unlock, MayUnlock, KeptInv, ToSet
    <3>2. /\ Write(t, <<>>, {}, 0, kept') /\ kept' = kept
          /\ UNCHANGED <<store, unlocked, accounts>>
      BY <1>3, <2>1 DEF Unlock
    <3> QED
      BY <1>0, <3>1, <3>2, KeptWrite
  <2>2. CASE store # None
    BY <1>0, <1>3, <2>2 DEF Unlock, KeptInv, AccountsKept
  <2> QED
    BY <2>1, <2>2
<1>4. ASSUME NEW t \in Tabs, AddNew(t) PROVE KeptInv'
  <2>1. ToSet(Append(accounts[t], FreshKey)) = ToSet(accounts[t]) \union {FreshKey}
    BY <1>0, ListTypes, AppendKey
  <2>2. /\ Write(t, Append(accounts[t], FreshKey), {FreshKey}, 0, kept')
        /\ kept' = kept /\ UNCHANGED <<store, unlocked, accounts>>
    BY <1>4 DEF AddNew
  <2> QED
    BY <1>0, <2>1, <2>2, KeptWrite
<1>5. ASSUME NEW t \in Tabs, NEW k \in 1..made, ImportPrv(t, k) PROVE KeptInv'
  <2>1. k \in Nat
    BY <1>0 DEF KeyringTypeOK
  <2>2. ToSet(Append(accounts[t], k)) = ToSet(accounts[t]) \union {k}
    BY <1>0, <2>1, ListTypes, AppendKey
  <2>3. /\ Write(t, Append(accounts[t], k), {k}, 0, kept')
        /\ kept' = kept /\ UNCHANGED <<store, unlocked, accounts>>
    BY <1>5 DEF ImportPrv
  <2> QED
    BY <1>0, <2>2, <2>3, KeptWrite
<1>6. ASSUME NEW t \in Tabs, NEW i \in Listed(t), RemoveAccount(t, i) PROVE KeptInv'
  <2>1. i \in DOMAIN accounts[t] /\ accounts[t] \in Seq(Nat)
    BY <1>0, ListTypes
  <2>2. ToSet(accounts[t]) \ {accounts[t][i]} \subseteq ToSet(Removed(accounts[t], i))
    BY <2>1, RemoveKeyAt
  <2>3. /\ Write(t, Removed(accounts[t], i), {}, active[t], kept')
        /\ kept' = kept \ {accounts[t][i]} /\ UNCHANGED <<store, unlocked, accounts>>
    BY <1>6 DEF RemoveAccount
  <2> QED
    BY <1>0, <2>2, <2>3, KeptWrite
<1>7. ASSUME NEW o \in opening, Opened(o) PROVE KeptInv'
  <2>1. o.tab \in Tabs
    BY <1>0 DEF KeyringTypeOK, OpeningType
  <2>2. /\ unlocked' = unlocked \union {o.tab}
        /\ accounts' = [accounts EXCEPT ![o.tab] = o.blob.list]
        /\ UNCHANGED <<store, writing, kept, exposed>>
    BY <1>7 DEF Opened, Decrypted
  <2>3. \A u \in Tabs \ unlocked' : accounts'[u] = <<>>
    BY <1>0, <2>1, <2>2 DEF KeptInv, KeyringTypeOK
  <2> QED
    BY <1>0, <2>2, <2>3 DEF KeptInv, AccountsKept
<1>8. ASSUME NEW o \in opening, Refused(o) PROVE KeptInv'
  BY <1>0, <1>8 DEF Refused, KeptInv, AccountsKept
<1>9. ASSUME NEW w \in writing, Created(w) PROVE KeptInv'
  <2>1. w.tab \in Tabs
    BY <1>0 DEF KeyringTypeOK, WriteType
  <2>2. /\ unlocked' = unlocked \union {w.tab}
        /\ accounts' = [accounts EXCEPT ![w.tab] = w.list]
        /\ store' = Encrypted(w.pass, w.list)
        /\ writing' = writing \ {w}
        /\ UNCHANGED <<kept, exposed>>
    BY <1>9 DEF Created
  <2>3. \A u \in Tabs \ unlocked' : accounts'[u] = <<>>
    BY <1>0, <2>1, <2>2 DEF KeptInv, KeyringTypeOK
  <2>4. AccountsKept'
    <3>1. store' # None /\ store'.list = w.list
      BY <1>0, <2>2, KeyringConstants
         DEF Encrypted, BlobType, KeyringTypeOK, WriteType
    <3> QED
      BY <2>2, <3>1 DEF KeptInv, AccountsKept
  <2> QED
    BY <1>0, <2>2, <2>3, <2>4 DEF KeptInv
<1>10. ASSUME NEW w \in writing, Persisted(w) PROVE KeptInv'
  <2>1. w.tab \in Tabs /\ w.tab \in unlocked
    BY <1>0, <1>10 DEF KeyringTypeOK, WriteType, Persisted, KeptInv
  <2>2. /\ accounts' = [accounts EXCEPT ![w.tab] = w.list]
        /\ store' = Encrypted(w.pass, w.list)
        /\ writing' = writing \ {w}
        /\ kept' = kept \union w.added
        /\ UNCHANGED <<unlocked, exposed>>
    BY <1>10 DEF Persisted
  <2>3. \A u \in Tabs \ unlocked' : accounts'[u] = <<>>
    BY <1>0, <2>1, <2>2 DEF KeptInv, KeyringTypeOK
  <2>4. AccountsKept'
    <3>1. store' # None /\ store'.list = w.list
      BY <1>0, <2>2, KeyringConstants
         DEF Encrypted, BlobType, KeyringTypeOK, WriteType
    <3> QED
      BY <2>2, <3>1 DEF KeptInv, AccountsKept
  <2>5. ASSUME NEW x \in writing', NEW k \in kept' \ exposed' PROVE k \in ToSet(x.list)
    <3>1. CASE k \in kept
      BY <2>2, <2>5, <3>1 DEF KeptInv
    <3>2. CASE k \in w.added
      <4>1. x \in writing /\ x # w
        BY <2>2
      <4>2. w.added \subseteq exposed
        BY <4>1 DEF KeptInv
      <4> QED
        BY <2>2, <3>2, <4>2
    <3> QED
      BY <2>2, <3>1, <3>2
  <2> QED
    BY <1>0, <2>2, <2>3, <2>4, <2>5 DEF KeptInv
<1>11. CASE UNCHANGED keyringVars
  BY <1>0, <1>11 DEF keyringVars, KeptInv, AccountsKept
<1> QED
  BY <1>1, <1>2, <1>3, <1>4, <1>5, <1>6, <1>7, <1>8, <1>9, <1>10, <1>11 DEF KeyringNext

\* No order of unlocks, changes of the list, answers, wrong passphrases and
\* closed tabs loses an account that was stored, other than by a write of a tab
\* that did not know of it or that overlapped its addition (AccountsKept;
\* unlock, persist).
THEOREM AccountsAreKept == KeyringSpec => []AccountsKept
<1>1. KeyringInit => KeptInv
  <2>1. KeyringInit => KeyringTypeOK
    BY InitTypes
  <2>2. KeyringInit => \A t \in Tabs : accounts[t] = <<>>
    BY DEF KeyringInit
  <2> QED
    BY <2>1, <2>2 DEF KeyringInit, KeptInv, AccountsKept
<1>2. KeptInv /\ [KeyringNext]_keyringVars => KeptInv'
  BY KeptStep
<1>3. KeptInv => AccountsKept
  BY DEF KeptInv
<1> QED
  BY <1>1, <1>2, <1>3, PTL DEF KeyringSpec

-----------------------------------------------------------------------------
(* No key is listed twice *)

\* A list without repetition of the first n keys generated.
Proper(list, n) == IsInjective(list) /\ ToSet(list) \subseteq 1..n

OnceInv ==
    /\ KeyringTypeOK
    /\ store # None => Proper(store.list, made)
    /\ \A t \in Tabs : Proper(accounts[t], made)
    /\ \A w \in writing : Proper(w.list, made)
    /\ \A o \in opening : Proper(o.blob.list, made)

LEMMA OnceStep ==
    ASSUME OnceInv, [KeyringNext]_keyringVars
    PROVE  OnceInv'
<1> USE DEF stored, tabVars, history
<1>0. KeyringTypeOK /\ KeyringTypeOK'
  BY TypeStep DEF OnceInv
<1> DEFINE Grown == made' \in {made, made + 1}
<1>1. ASSUME NEW list, Proper(list, made), Grown PROVE Proper(list, made')
  BY <1>0, <1>1 DEF Proper, KeyringTypeOK
<1> HIDE DEF Grown
<1>3. \A n : Proper(<<>>, n)
  BY DEF Proper, IsInjective, ToSet
<1>4. ASSUME NEW t \in Tabs, \/ Look(t)
                             \/ \E p \in Passes : TypePass(t, p)
                             \/ \E i \in Listed(t) : Use(t, i)
      PROVE  OnceInv'
  BY <1>0, <1>4 DEF Look, TypePass, Use, OnceInv, Proper
<1>5. ASSUME NEW t \in Tabs, Close(t) PROVE OnceInv'
  <2>1. /\ accounts' = [accounts EXCEPT ![t] = <<>>]
        /\ writing' \subseteq writing /\ opening' \subseteq opening
        /\ UNCHANGED <<store, made>>
    BY <1>5 DEF Close, WritesOf
  <2>2. \A u \in Tabs : Proper(accounts'[u], made)
    BY <1>0, <1>3, <2>1 DEF OnceInv, KeyringTypeOK
  <2> QED
    BY <1>0, <2>1, <2>2 DEF OnceInv, Proper
<1>6. ASSUME NEW t \in Tabs, NEW list, NEW added, NEW index, NEW left,
             Write(t, list, added, index, left), Proper(list, made'), Grown,
             UNCHANGED <<store, accounts, opening>>
      PROVE  OnceInv'
  <2>1. \A w \in writing' : w \in writing \/ w.list = list
    BY <1>6 DEF Write
  <2>2. \A w \in writing' : Proper(w.list, made')
    BY <1>1, <1>6, <2>1 DEF OnceInv
  <2>3. store' # None => Proper(store'.list, made')
    BY <1>1, <1>6 DEF OnceInv
  <2>4. \A u \in Tabs : Proper(accounts'[u], made')
    BY <1>1, <1>6 DEF OnceInv
  <2>5. \A o \in opening' : Proper(o.blob.list, made')
    BY <1>1, <1>6 DEF OnceInv
  <2> QED
    BY <1>0, <2>2, <2>3, <2>4, <2>5 DEF OnceInv
<1>7. ASSUME NEW t \in Tabs, Unlock(t) PROVE OnceInv'
  <2>1. CASE store = None
    <3>1. /\ Write(t, <<>>, {}, 0, kept)
          /\ UNCHANGED <<store, accounts, opening, made>>
      BY <1>7, <2>1 DEF Unlock
    <3>2. Proper(<<>>, made') /\ Grown
      BY <1>3, <3>1 DEF Grown
    <3> QED
      BY <1>6, <3>1, <3>2
  <2>2. CASE store # None
    <3>1. /\ UNCHANGED <<store, accounts, writing, made>>
          /\ \A o \in opening' : o \in opening \/ o.blob = store
      BY <1>7, <2>2 DEF Unlock
    <3> QED
      BY <1>0, <2>2, <3>1 DEF OnceInv, Proper
  <2> QED
    BY <2>1, <2>2
<1>8. ASSUME NEW t \in Tabs, AddNew(t) PROVE OnceInv'
  <2> DEFINE list == Append(accounts[t], FreshKey)
  <2>1. /\ Write(t, list, {FreshKey}, 0, kept) /\ made' = made + 1
        /\ UNCHANGED <<store, accounts, opening>>
    BY <1>8 DEF AddNew
  <2>2. /\ FreshKey \notin ToSet(accounts[t]) /\ ToSet(accounts[t]) \subseteq 1..made
        /\ IsInjective(accounts[t])
    BY <1>0 DEF OnceInv, Proper, FreshKey, KeyringTypeOK
  <2>3. ToSet(list) = ToSet(accounts[t]) \union {FreshKey} /\ IsInjective(list)
    BY <1>0, <2>2, ListTypes, AppendKey
  <2> HIDE DEF list
  <2>4. ToSet(list) \subseteq 1..made'
    BY <1>0, <2>1, <2>2, <2>3 DEF FreshKey, KeyringTypeOK
  <2>5. Proper(list, made') /\ Grown
    BY <2>1, <2>3, <2>4 DEF Proper, Grown
  <2> QED
    BY <1>6, <2>1, <2>5
<1>9. ASSUME NEW t \in Tabs, NEW k \in 1..made, ImportPrv(t, k) PROVE OnceInv'
  <2> DEFINE list == Append(accounts[t], k)
  <2>1. /\ Write(t, list, {k}, 0, kept) /\ k \notin ToSet(accounts[t])
        /\ UNCHANGED <<store, accounts, opening, made>>
    BY <1>9 DEF ImportPrv, Importable
  <2>2. k \in Nat /\ accounts[t] \in Seq(Nat)
    BY <1>0 DEF KeyringTypeOK
  <2>3. ToSet(list) = ToSet(accounts[t]) \union {k} /\ IsInjective(list)
    BY <2>1, <2>2, AppendKey DEF OnceInv, Proper
  <2> HIDE DEF list
  <2>4. Proper(list, made') /\ Grown
    BY <2>1, <2>3 DEF OnceInv, Proper, Grown
  <2> QED
    BY <1>6, <2>1, <2>4
<1>10. ASSUME NEW t \in Tabs, NEW i \in Listed(t), RemoveAccount(t, i) PROVE OnceInv'
  <2> DEFINE list == Removed(accounts[t], i)
  <2>1. /\ Write(t, list, {}, active[t], kept')
        /\ UNCHANGED <<store, accounts, opening, made>>
    BY <1>10 DEF RemoveAccount
  <2>2. i \in DOMAIN accounts[t] /\ accounts[t] \in Seq(Nat)
    BY <1>0, ListTypes
  <2>3. ToSet(list) \subseteq ToSet(accounts[t]) /\ IsInjective(list)
    BY <2>2, RemoveKeyAt DEF OnceInv, Proper
  <2> HIDE DEF list
  <2>4. Proper(list, made') /\ Grown
    BY <2>1, <2>3 DEF OnceInv, Proper, Grown
  <2> QED
    BY <1>6, <2>1, <2>4
<1>11. ASSUME NEW o \in opening, Opened(o) PROVE OnceInv'
  <2>1. /\ accounts' = [accounts EXCEPT ![o.tab] = o.blob.list]
        /\ opening' \subseteq opening
        /\ UNCHANGED <<store, writing, made>>
    BY <1>11 DEF Opened, Decrypted
  <2>2. \A u \in Tabs : Proper(accounts'[u], made)
    BY <1>0, <2>1 DEF OnceInv, KeyringTypeOK
  <2> QED
    BY <1>0, <2>1, <2>2 DEF OnceInv, Proper
<1>12. ASSUME NEW o \in opening, Refused(o) PROVE OnceInv'
  BY <1>0, <1>12 DEF Refused, OnceInv, Proper
<1>13. ASSUME NEW w \in writing, Created(w) \/ Persisted(w) PROVE OnceInv'
  <2>1. /\ accounts' = [accounts EXCEPT ![w.tab] = w.list]
        /\ store' = Encrypted(w.pass, w.list)
        /\ writing' \subseteq writing
        /\ UNCHANGED <<opening, made>>
    BY <1>13 DEF Created, Persisted
  <2>2. \A u \in Tabs : Proper(accounts'[u], made)
    BY <1>0, <2>1 DEF OnceInv, KeyringTypeOK
  <2>3. Proper(store'.list, made)
    BY <2>1 DEF OnceInv, Encrypted
  <2> QED
    BY <1>0, <2>1, <2>2, <2>3 DEF OnceInv, Proper
<1>14. CASE UNCHANGED keyringVars
  BY <1>0, <1>14 DEF keyringVars, OnceInv, Proper
<1> QED
  BY <1>4, <1>5, <1>7, <1>8, <1>9, <1>10, <1>11, <1>12, <1>13, <1>14 DEF KeyringNext

\* No list has a key twice, whatever is generated, imported and removed in
\* whatever tabs at a time (NoKeyTwice; addNew, importPrv, removeAt).
THEOREM KeysAreListedOnce == KeyringSpec => []NoKeyTwice
<1>1. KeyringInit => OnceInv
  <2> SUFFICES ASSUME KeyringInit PROVE OnceInv
    OBVIOUS
  <2>1. Proper(<<>>, made)
    BY DEF Proper, IsInjective, ToSet
  <2>2. \A t \in Tabs : accounts[t] = <<>>
    BY DEF KeyringInit
  <2> QED
    BY <2>1, <2>2, InitTypes DEF KeyringInit, OnceInv
<1>2. OnceInv /\ [KeyringNext]_keyringVars => OnceInv'
  BY OnceStep
<1>3. OnceInv => NoKeyTwice
  BY DEF OnceInv, NoKeyTwice, Proper
<1> QED
  BY <1>1, <1>2, <1>3, PTL DEF KeyringSpec

-----------------------------------------------------------------------------
(* One passphrase *)

\* Unless something was muddled, all passphrases in use are the stored one.
PassInv ==
    /\ KeyringTypeOK
    /\ PassphraseOpens
    /\ ~muddled =>
         /\ \A w \in writing :
               w.create \/ (w.tab \in unlocked /\ w.pass = pass[w.tab])
         /\ \A o \in opening : store # None /\ o.blob.pass = store.pass

LEMMA PassStep ==
    ASSUME PassInv, [KeyringNext]_keyringVars
    PROVE  PassInv'
<1> USE DEF stored, tabVars, history
<1>0. KeyringTypeOK /\ KeyringTypeOK'
  BY TypeStep DEF PassInv
<1>1. ASSUME NEW t \in Tabs, Look(t) \/ \E i \in Listed(t) : Use(t, i)
      PROVE  PassInv'
  BY <1>0, <1>1 DEF Look, Use, PassInv, PassphraseOpens
<1>2. ASSUME NEW t \in Tabs, NEW p \in Passes, TypePass(t, p) PROVE PassInv'
  <2>1. /\ t \notin unlocked
        /\ \A u \in Tabs \ {t} : pass'[u] = pass[u]
        /\ UNCHANGED <<store, unlocked, writing, opening, muddled>>
    BY <1>0, <1>2 DEF TypePass, KeyringTypeOK
  <2>2. unlocked \subseteq Tabs \ {t}
    BY <1>0, <2>1 DEF KeyringTypeOK
  <2> QED
    BY <1>0, <2>1, <2>2 DEF PassInv, PassphraseOpens, Opens
<1>3. ASSUME NEW t \in Tabs, Close(t) PROVE PassInv'
  <2>1. /\ unlocked' = unlocked \ {t}
        /\ \A u \in Tabs \ {t} : pass'[u] = pass[u]
        /\ writing' = {w \in writing : w.tab # t} /\ opening' \subseteq opening
        /\ UNCHANGED <<store, muddled>>
    BY <1>0, <1>3 DEF Close, WritesOf, KeyringTypeOK
  <2>2. unlocked \ {t} \subseteq Tabs \ {t}
    BY <1>0 DEF KeyringTypeOK
  <2> QED
    BY <1>0, <2>1, <2>2 DEF PassInv, PassphraseOpens, Opens
<1>4. ASSUME NEW t \in Tabs, NEW list, NEW added, NEW index, NEW left,
             Write(t, list, added, index, left),
             UNCHANGED <<store, unlocked, pass, opening, muddled>>
      PROVE  PassInv'
  <2>1. \A w \in writing' : \/ w \in writing
                            \/ w.create = (t \notin unlocked) /\ w.tab = t
                               /\ w.pass = pass[t]
    BY <1>4 DEF Write
  <2>2. ~muddled => \A w \in writing' :
                       w.create \/ (w.tab \in unlocked /\ w.pass = pass[w.tab])
    BY <2>1 DEF PassInv
  <2> QED
    BY <1>0, <1>4, <2>2 DEF PassInv, PassphraseOpens
<1>5. ASSUME NEW t \in Tabs, Unlock(t) PROVE PassInv'
  <2>1. CASE store = None
    <3>1. /\ Write(t, <<>>, {}, 0, kept)
          /\ UNCHANGED <<store, unlocked, pass, opening, muddled>>
      BY <1>5, <2>1 DEF Unlock
    <3> QED
      BY <1>4, <3>1
  <2>2. CASE store # None
    <3>1. /\ UNCHANGED <<store, unlocked, pass, writing, muddled>>
          /\ \A o \in opening' : o \in opening \/ o.blob = store
      BY <1>5, <2>2 DEF Unlock
    <3> QED
      BY <1>0, <2>2, <3>1 DEF PassInv, PassphraseOpens
  <2> QED
    BY <2>1, <2>2
<1>6. ASSUME NEW t \in Tabs, AddNew(t) PROVE PassInv'
  <2>1. /\ Write(t, Append(accounts[t], FreshKey), {FreshKey}, 0, kept)
        /\ UNCHANGED <<store, unlocked, pass, opening, muddled>>
    BY <1>6 DEF AddNew
  <2> QED
    BY <1>4, <2>1
<1>7. ASSUME NEW t \in Tabs, NEW k \in 1..made, ImportPrv(t, k) PROVE PassInv'
  <2>1. /\ Write(t, Append(accounts[t], k), {k}, 0, kept)
        /\ UNCHANGED <<store, unlocked, pass, opening, muddled>>
    BY <1>7 DEF ImportPrv
  <2> QED
    BY <1>4, <2>1
<1>8. ASSUME NEW t \in Tabs, NEW i \in Listed(t), RemoveAccount(t, i) PROVE PassInv'
  <2>1. /\ Write(t, Removed(accounts[t], i), {}, active[t], kept')
        /\ UNCHANGED <<store, unlocked, pass, opening, muddled>>
    BY <1>8 DEF RemoveAccount
  <2> QED
    BY <1>4, <2>1
<1>9. ASSUME NEW o \in opening, Opened(o) PROVE PassInv'
  <2>1. /\ Opens(o.pass, o.blob)
        /\ unlocked' = unlocked \union {o.tab}
        /\ opening' \subseteq opening
        /\ muddled' = (muddled \/ pass[o.tab] # o.pass)
        /\ UNCHANGED <<store, pass, writing>>
    BY <1>9 DEF Opened, Decrypted
  <2>2. SUFFICES ASSUME ~muddled' PROVE PassInv'
    BY <1>0, <2>2 DEF PassInv, PassphraseOpens
  <2>3. ~muddled /\ pass[o.tab] = o.pass
    BY <2>1, <2>2
  <2>4. store # None /\ Opens(pass[o.tab], store)
    BY <2>1, <2>3 DEF PassInv, Opens
  <2> QED
    BY <1>0, <2>1, <2>3, <2>4 DEF PassInv, PassphraseOpens
<1>10. ASSUME NEW o \in opening, Refused(o) PROVE PassInv'
  BY <1>0, <1>10 DEF Refused, PassInv, PassphraseOpens
<1>11. ASSUME NEW w \in writing, Created(w) PROVE PassInv'
  <2>1. /\ unlocked' = unlocked \union {w.tab}
        /\ store' = Encrypted(w.pass, w.list)
        /\ writing' \subseteq writing
        /\ muddled' = (muddled \/ pass[w.tab] # w.pass \/ store # None)
        /\ UNCHANGED <<pass, opening>>
    BY <1>11 DEF Created
  <2>2. SUFFICES ASSUME ~muddled' PROVE PassInv'
    BY <1>0, <2>2 DEF PassInv, PassphraseOpens
  <2>3. ~muddled /\ pass[w.tab] = w.pass /\ store = None
    BY <2>1, <2>2
  <2>4. unlocked = {} /\ opening = {}
    BY <2>3 DEF PassInv, PassphraseOpens
  <2>5. store' # None /\ store'.pass = w.pass
    BY <1>0, <2>1, KeyringConstants DEF Encrypted, BlobType, KeyringTypeOK, WriteType
  <2>6. \A x \in writing' : x.create
    BY <2>1, <2>3, <2>4 DEF PassInv
  <2> QED
    BY <1>0, <2>1, <2>3, <2>4, <2>5, <2>6 DEF PassInv, PassphraseOpens, Opens
<1>12. ASSUME NEW w \in writing, Persisted(w) PROVE PassInv'
  <2>1. /\ ~w.create
        /\ store' = Encrypted(w.pass, w.list)
        /\ writing' \subseteq writing
        /\ UNCHANGED <<pass, unlocked, opening, muddled>>
    BY <1>12 DEF Persisted
  <2>2. SUFFICES ASSUME ~muddled PROVE PassInv'
    BY <1>0, <2>1, <2>2 DEF PassInv, PassphraseOpens
  <2>3. /\ store # None
        /\ store.pass = w.pass
    BY <2>1, <2>2 DEF PassInv, PassphraseOpens, Opens
  <2>4. store' # None /\ store'.pass = store.pass
    BY <1>0, <2>1, <2>3, KeyringConstants
       DEF Encrypted, BlobType, KeyringTypeOK, WriteType
  <2> QED
    BY <1>0, <2>1, <2>2, <2>4 DEF PassInv, PassphraseOpens, Opens
<1>13. CASE UNCHANGED keyringVars
  BY <1>0, <1>13 DEF keyringVars, PassInv, PassphraseOpens
<1> QED
  BY <1>1, <1>2, <1>3, <1>5, <1>6, <1>7, <1>8, <1>9, <1>10, <1>11, <1>12, <1>13
  DEF KeyringNext

\* Unless a passphrase was edited while it was used, or two keyrings were
\* created at once, what is stored opens with the passphrase of every unlocked
\* tab (PassphraseOpens; unlock, persist).
THEOREM StoredListOpens == KeyringSpec => []PassphraseOpens
<1>1. KeyringInit => PassInv
  BY InitTypes DEF KeyringInit, PassInv, PassphraseOpens
<1>2. PassInv /\ [KeyringNext]_keyringVars => PassInv'
  BY PassStep
<1>3. PassInv => PassphraseOpens
  BY DEF PassInv
<1> QED
  BY <1>1, <1>2, <1>3, PTL DEF KeyringSpec

-----------------------------------------------------------------------------
(* One active account *)

\* The index of a tab is within its list, or 1.
Fits(i, list) == i = 1 \/ i <= Len(list)

\* In a tab that waits, one function is under way at most, and its list either
\* grows or is checked against the index the tab still has.
ActingInv ==
    /\ KeyringTypeOK
    /\ \A t \in Tabs \ hurried : Fits(active[t], accounts[t])
    /\ \A w, x \in writing : w.tab = x.tab /\ w.tab \notin hurried => w = x
    /\ \A w \in writing : w.tab \notin hurried =>
          \/ w.create
          \/ w.index = active[w.tab]
          \/ Len(w.list) > Len(accounts[w.tab])

\* The header and the signature use the same account where the index fits.
LEMMA FittingIndexNamesActing ==
    ASSUME KeyringTypeOK, NEW t \in Tabs, Fits(active[t], accounts[t])
    PROVE  Named(t) = Acting(t)
<1>1. /\ accounts[t] \in Seq(Nat) /\ active[t] \in Nat \ {0}
      /\ DOMAIN accounts[t] = 1..Len(accounts[t]) /\ Len(accounts[t]) \in Nat
  BY DEF KeyringTypeOK
<1>2. CASE accounts[t] = <<>>
  BY <1>1, <1>2 DEF Named, Acting
<1>3. CASE accounts[t] # <<>>
  <2>1. active[t] \in DOMAIN accounts[t]
    BY <1>1, <1>3 DEF Fits
  <2> QED
    BY <1>3, <2>1 DEF Named, Acting
<1> QED
  BY <1>2, <1>3

\* A function that starts.
LEMMA ActingWrite ==
    ASSUME ActingInv, KeyringTypeOK', NEW t \in Tabs, NEW list, NEW added, NEW index,
           NEW left, Write(t, list, added, index, left),
           \/ t \notin unlocked
           \/ index = active[t]
           \/ Len(list) > Len(accounts[t]),
           UNCHANGED <<active, accounts>>
    PROVE  ActingInv'
<1>1. \A w \in writing' : \/ w \in writing
                          \/ /\ w.tab = t /\ w.list = list /\ w.index = index
                             /\ w.create = (t \notin unlocked)
  BY DEF Write
<1>2. \A w, x \in writing' : w = x \/ w \in writing \/ x \in writing
  BY DEF Write
<1>3. /\ hurried \subseteq hurried'
      /\ t \notin hurried' => \A w \in writing : w.tab # t
  BY DEF Write, WritesOf
<1>4. \A w, x \in writing' : w.tab = x.tab /\ w.tab \notin hurried' => w = x
  BY <1>1, <1>2, <1>3 DEF ActingInv
<1>5. ASSUME NEW w \in writing', w.tab \notin hurried'
      PROVE  \/ w.create
             \/ w.index = active'[w.tab]
             \/ Len(w.list) > Len(accounts'[w.tab])
  BY <1>1, <1>3, <1>5 DEF ActingInv
<1> QED
  BY <1>3, <1>4, <1>5 DEF ActingInv

LEMMA ActingStep ==
    ASSUME ActingInv, [KeyringNext]_keyringVars
    PROVE  ActingInv'
<1> USE DEF stored, tabVars, history
<1>0. KeyringTypeOK /\ KeyringTypeOK'
  BY TypeStep DEF ActingInv
<1>1. ASSUME NEW t \in Tabs, Look(t) \/ \E p \in Passes : TypePass(t, p)
      PROVE  ActingInv'
  BY <1>0, <1>1 DEF Look, TypePass, ActingInv
<1>2. ASSUME NEW t \in Tabs, Close(t) PROVE ActingInv'
  <2>1. /\ active' = [active EXCEPT ![t] = 1]
        /\ accounts' = [accounts EXCEPT ![t] = <<>>]
        /\ writing' = {w \in writing : w.tab # t}
        /\ UNCHANGED hurried
    BY <1>2 DEF Close, WritesOf
  <2>2. \A u \in Tabs \ hurried : Fits(active'[u], accounts'[u])
    BY <1>0, <2>1 DEF ActingInv, KeyringTypeOK, Fits
  <2>3. \A w \in writing' : /\ w.tab \in Tabs /\ w.tab # t
                            /\ active'[w.tab] = active[w.tab]
                            /\ accounts'[w.tab] = accounts[w.tab]
    BY <1>0, <2>1 DEF KeyringTypeOK, WriteType
  <2> QED
    BY <1>0, <2>1, <2>2, <2>3 DEF ActingInv
<1>3. ASSUME NEW t \in Tabs, NEW i \in Listed(t), Use(t, i) PROVE ActingInv'
  <2>1. /\ active' = [active EXCEPT ![t] = i]
        /\ hurried \subseteq hurried'
        /\ t \notin hurried' => \A w \in writing : w.tab # t
        /\ UNCHANGED <<accounts, writing>>
    BY <1>3 DEF Use, WritesOf
  <2>2. i <= Len(accounts[t])
    BY <1>0, ListTypes
  <2>3. \A u \in Tabs \ hurried' : Fits(active'[u], accounts'[u])
    BY <1>0, <2>1, <2>2 DEF ActingInv, KeyringTypeOK, Fits
  <2>4. ASSUME NEW w \in writing', w.tab \notin hurried'
        PROVE  active'[w.tab] = active[w.tab]
    BY <1>0, <2>1, <2>4 DEF KeyringTypeOK, WriteType
  <2> QED
    BY <1>0, <2>1, <2>3, <2>4 DEF ActingInv
<1>4. ASSUME NEW t \in Tabs, Unlock(t) PROVE ActingInv'
  <2>1. CASE store = None
    <3>1. /\ Write(t, <<>>, {}, 0, kept) /\ t \notin unlocked
          /\ UNCHANGED <<active, accounts>>
      BY <1>4, <2>1 DEF Unlock, MayUnlock
    <3> QED
      BY <1>0, <3>1, ActingWrite
  <2>2. CASE store # None
    BY <1>0, <1>4, <2>2 DEF Unlock, ActingInv
  <2> QED
    BY <2>1, <2>2
<1>5. ASSUME NEW t \in Tabs, AddNew(t) PROVE ActingInv'
  <2>1. /\ accounts[t] \in Seq(Nat)
        /\ Len(Append(accounts[t], FreshKey)) > Len(accounts[t])
    BY <1>0, ListTypes, AppendKey
  <2>2. /\ Write(t, Append(accounts[t], FreshKey), {FreshKey}, 0, kept)
        /\ UNCHANGED <<active, accounts>>
    BY <1>5 DEF AddNew
  <2> QED
    BY <1>0, <2>1, <2>2, ActingWrite
<1>6. ASSUME NEW t \in Tabs, NEW k \in 1..made, ImportPrv(t, k) PROVE ActingInv'
  <2>1. k \in Nat /\ accounts[t] \in Seq(Nat)
    BY <1>0 DEF KeyringTypeOK
  <2>2. Len(Append(accounts[t], k)) > Len(accounts[t])
    BY <2>1, AppendKey
  <2>3. /\ Write(t, Append(accounts[t], k), {k}, 0, kept)
        /\ UNCHANGED <<active, accounts>>
    BY <1>6 DEF ImportPrv
  <2> QED
    BY <1>0, <2>2, <2>3, ActingWrite
<1>7. ASSUME NEW t \in Tabs, NEW i \in Listed(t), RemoveAccount(t, i)
      PROVE  ActingInv'
  <2>1. /\ Write(t, Removed(accounts[t], i), {}, active[t], kept')
        /\ UNCHANGED <<active, accounts>>
    BY <1>7 DEF RemoveAccount
  <2> QED
    BY <1>0, <2>1, ActingWrite
<1>8. ASSUME NEW o \in opening, Opened(o) PROVE ActingInv'
  <2>1. /\ accounts' = [accounts EXCEPT ![o.tab] = o.blob.list]
        /\ active' = [active EXCEPT ![o.tab] = ClampedIndex(saved, o.blob.list)]
        /\ hurried \subseteq hurried'
        /\ o.tab \notin hurried' => \A w \in writing : w.tab # o.tab
        /\ UNCHANGED writing
    BY <1>8 DEF Opened, Decrypted, WritesOf
  <2>2. /\ o.tab \in Tabs /\ o.blob.list \in Seq(Nat) /\ saved \in Nat \ {0}
    BY <1>0 DEF KeyringTypeOK, OpeningType, BlobType
  <2>3. Fits(ClampedIndex(saved, o.blob.list), o.blob.list)
    BY <2>2, ClampedIndexFits DEF Fits
  <2>4. \A u \in Tabs \ hurried' : Fits(active'[u], accounts'[u])
    BY <1>0, <2>1, <2>2, <2>3 DEF ActingInv, KeyringTypeOK
  <2>5. ASSUME NEW w \in writing', w.tab \notin hurried'
        PROVE  active'[w.tab] = active[w.tab] /\ accounts'[w.tab] = accounts[w.tab]
    BY <1>0, <2>1, <2>5 DEF KeyringTypeOK, WriteType
  <2> QED
    BY <1>0, <2>1, <2>4, <2>5 DEF ActingInv
<1>9. ASSUME NEW o \in opening, Refused(o) PROVE ActingInv'
  BY <1>0, <1>9 DEF Refused, ActingInv
<1>10. ASSUME NEW w \in writing, NEW i,
              Fits(i, w.list),
              accounts' = [accounts EXCEPT ![w.tab] = w.list],
              active' = [active EXCEPT ![w.tab] = i] \/ w.tab \in hurried,
              \A u \in Tabs \ {w.tab} : active'[u] = active[u],
              writing' = writing \ {w},
              UNCHANGED hurried
       PROVE  ActingInv'
  <2>1. w.tab \in Tabs
    BY <1>0 DEF KeyringTypeOK, WriteType
  <2>2. \A u \in Tabs \ hurried : Fits(active'[u], accounts'[u])
    BY <1>0, <1>10, <2>1 DEF ActingInv, KeyringTypeOK
  <2>3. ASSUME NEW x \in writing', x.tab \notin hurried
        PROVE  x.tab \in Tabs \ {w.tab}
    BY <1>0, <1>10, <2>3 DEF ActingInv, KeyringTypeOK, WriteType
  <2>4. ASSUME NEW x \in writing', x.tab \notin hurried
        PROVE  active'[x.tab] = active[x.tab] /\ accounts'[x.tab] = accounts[x.tab]
    BY <1>0, <1>10, <2>3, <2>4 DEF KeyringTypeOK
  <2> QED
    BY <1>0, <1>10, <2>2, <2>4 DEF ActingInv
<1>11. ASSUME NEW w \in writing, Created(w) PROVE ActingInv'
  <2>1. /\ accounts' = [accounts EXCEPT ![w.tab] = w.list]
        /\ active' = [active EXCEPT ![w.tab] = 1]
        /\ writing' = writing \ {w}
        /\ UNCHANGED hurried
    BY <1>11 DEF Created
  <2>2. Fits(1, w.list) /\ \A u \in Tabs \ {w.tab} : active'[u] = active[u]
    BY <1>0, <2>1 DEF Fits, KeyringTypeOK
  <2> QED
    BY <1>10, <2>1, <2>2
<1>12. ASSUME NEW w \in writing, Persisted(w) PROVE ActingInv'
  <2>1. /\ accounts' = [accounts EXCEPT ![w.tab] = w.list]
        /\ writing' = writing \ {w}
        /\ ~w.create
        /\ UNCHANGED hurried
    BY <1>12 DEF Persisted
  <2>2. /\ w.tab \in Tabs /\ w.list \in Seq(Nat) /\ w.index \in Nat
        /\ active[w.tab] \in Nat \ {0} /\ Len(accounts[w.tab]) \in Nat
        /\ active = [active EXCEPT ![w.tab] = active[w.tab]]
    BY <1>0 DEF KeyringTypeOK, WriteType
  <2>3. CASE w.index > Len(w.list)
    <3>1. active' = [active EXCEPT ![w.tab] = ClampedIndex(w.index, w.list)]
      BY <1>12, <2>3 DEF Persisted
    <3>2. Fits(ClampedIndex(w.index, w.list), w.list)
      BY <2>2, <2>3, ClampedIndexFits DEF Fits
    <3>3. \A u \in Tabs \ {w.tab} : active'[u] = active[u]
      BY <1>0, <3>1 DEF KeyringTypeOK
    <3> QED
      BY <1>10, <2>1, <3>1, <3>2, <3>3
  <2>4. CASE ~(w.index > Len(w.list))
    <3>1. active' = active
      BY <1>12, <2>4 DEF Persisted
    <3>2. CASE w.tab \notin hurried
      <4>1. /\ Fits(active[w.tab], accounts[w.tab])
            /\ w.index = active[w.tab] \/ Len(w.list) > Len(accounts[w.tab])
        BY <2>1, <2>2, <3>2 DEF ActingInv
      <4>2. Fits(active[w.tab], w.list)
        BY <2>2, <2>4, <4>1 DEF Fits
      <4> QED
        BY <1>10, <2>1, <2>2, <3>1, <4>2
    <3>3. CASE w.tab \in hurried
      <4>1. Fits(1, w.list)
        BY DEF Fits
      <4> QED
        BY <1>10, <2>1, <3>1, <3>3, <4>1
    <3> QED
      BY <3>2, <3>3
  <2> QED
    BY <2>3, <2>4
<1>13. CASE UNCHANGED keyringVars
  BY <1>0, <1>13 DEF keyringVars, ActingInv
<1> QED
  BY <1>1, <1>2, <1>3, <1>4, <1>5, <1>6, <1>7, <1>8, <1>9, <1>11, <1>12, <1>13
  DEF KeyringNext

\* In every tab that waits for its writes, the account named in the header is
\* the one that signs, however the other tabs move the index they share
\* (NamedIsActing; unlock, removeAt).
THEOREM NamedAccountActs == KeyringSpec => []NamedIsActing
<1>1. KeyringInit => ActingInv
  <2> SUFFICES ASSUME KeyringInit PROVE ActingInv
    OBVIOUS
  <2>1. \A t \in Tabs : active[t] = 1
    BY DEF KeyringInit
  <2> QED
    BY <2>1, InitTypes DEF KeyringInit, ActingInv, Fits
<1>2. ActingInv /\ [KeyringNext]_keyringVars => ActingInv'
  BY ActingStep
<1>3. ActingInv => NamedIsActing
  BY FittingIndexNamesActing DEF ActingInv, NamedIsActing
<1> QED
  BY <1>1, <1>2, <1>3, PTL DEF KeyringSpec

-----------------------------------------------------------------------------
(* Rows and pages *)

\* A nonempty set of naturals has a smallest member.
LEMMA SmallestRow ==
    ASSUME NEW S, S \subseteq Nat, S # {}
    PROVE  \E m \in S : \A j \in S : m <= j
<1>1. IsWellFoundedOn(OpToRel(<, Nat), Nat)
  BY NatLessThanWellFounded
<1>2. PICK m \in S : \A j \in S : ~ (<<j, m>> \in OpToRel(<, Nat))
  BY <1>1, WFMin
<1>3. ASSUME NEW j \in S PROVE m <= j
  <2>1. ~ (j < m)
    BY <1>2 DEF OpToRel
  <2> QED
    BY <2>1
<1> QED
  BY <1>3

\* A finite nonempty set of naturals has a largest member, its Max.
LEMMA LargestRow ==
    ASSUME NEW S, S \subseteq Nat, IsFiniteSet(S), S # {}
    PROVE  Max(S) \in S /\ \A j \in S : j <= Max(S)
<1> DEFINE UpTo(p) == {q \in S : q <= p}
           Gaps == {Cardinality(S) - Cardinality(UpTo(p)) : p \in S}
<1>1. ASSUME NEW p \in S
      PROVE  /\ IsFiniteSet(UpTo(p)) /\ Cardinality(UpTo(p)) \in Nat
             /\ Cardinality(S) \in Nat /\ Cardinality(UpTo(p)) <= Cardinality(S)
  <2>1. UpTo(p) \in SUBSET S
    OBVIOUS
  <2>2. IsFiniteSet(UpTo(p)) /\ Cardinality(UpTo(p)) <= Cardinality(S)
    BY <2>1, FS_Subset
  <2> QED
    BY <2>2, FS_CardinalityType
<1>2. Gaps \subseteq Nat /\ Gaps # {}
  <2>1. \A p \in S : Cardinality(S) - Cardinality(UpTo(p)) \in Nat
    BY <1>1
  <2> QED
    BY <2>1
<1>3. PICK g \in Gaps : \A h \in Gaps : g <= h
  BY <1>2, SmallestRow
<1>4. PICK p \in S : g = Cardinality(S) - Cardinality(UpTo(p))
  OBVIOUS
<1>5. ASSUME NEW j \in S PROVE j <= p
  <2> SUFFICES ASSUME p < j PROVE FALSE
    OBVIOUS
  <2>1. UpTo(p) \in SUBSET UpTo(j) /\ j \in UpTo(j) /\ j \notin UpTo(p)
    <3>1. p \in Nat /\ j \in Nat /\ \A q \in S : q \in Nat
      OBVIOUS
    <3>2. \A q \in S : q <= p => q <= j
      BY <3>1
    <3>3. UpTo(p) \in SUBSET UpTo(j)
      BY <3>2
    <3>4. j \in UpTo(j) /\ ~(j <= p)
      BY <3>1
    <3> QED
      BY <3>3, <3>4
  <2>2. IsFiniteSet(UpTo(j))
    BY <1>1
  <2>3. /\ Cardinality(UpTo(p)) <= Cardinality(UpTo(j))
        /\ Cardinality(UpTo(p)) # Cardinality(UpTo(j))
    BY <2>1, <2>2, FS_Subset
  <2>4. Cardinality(S) - Cardinality(UpTo(j)) \in Gaps
    OBVIOUS
  <2>5. g <= Cardinality(S) - Cardinality(UpTo(j))
    BY <1>3, <2>4
  <2> HIDE DEF UpTo, Gaps
  <2> QED
    BY <1>1, <1>4, <2>3, <2>5
<1>6. \E x \in S : \A y \in S : x >= y
  BY <1>5
<1> QED
  BY <1>6 DEF Max

\* What the servers return is the front of the rows, and a full page of them
\* unless all fit.
LEMMA FirstRows ==
    ASSUME ListConstants, NEW ps, ps \subseteq Nat, IsFiniteSet(ps)
    PROVE  /\ FirstOf(ps) \subseteq ps
           /\ \A q \in FirstOf(ps), p \in ps : p <= q => p \in FirstOf(ps)
           /\ Cardinality(ps) > LIMIT => LIMIT <= Cardinality(FirstOf(ps))
           /\ ~(Cardinality(ps) > LIMIT) => FirstOf(ps) = ps
<1> DEFINE UpTo(p) == {q \in ps : q <= p}
           first == FirstOf(ps)
<1>1. LIMIT \in Nat \ {0}
  BY DEF ListConstants
<1>2. first = {p \in ps : Cardinality(UpTo(p)) <= LIMIT}
  BY DEF FirstOf
<1>3. ASSUME NEW p \in ps
      PROVE  /\ IsFiniteSet(UpTo(p)) /\ Cardinality(UpTo(p)) \in Nat
             /\ Cardinality(ps) \in Nat /\ Cardinality(UpTo(p)) <= Cardinality(ps)
  <2>1. UpTo(p) \in SUBSET ps
    OBVIOUS
  <2>2. IsFiniteSet(UpTo(p)) /\ Cardinality(UpTo(p)) <= Cardinality(ps)
    BY <2>1, FS_Subset
  <2> QED
    BY <2>2, FS_CardinalityType
<1>4. first \subseteq ps /\ IsFiniteSet(first) /\ Cardinality(first) \in Nat
  <2>1. first \in SUBSET ps
    BY <1>2
  <2>2. IsFiniteSet(first)
    BY <2>1, FS_Subset
  <2> QED
    BY <2>1, <2>2, FS_CardinalityType
<1>5. ASSUME NEW q \in first, NEW p \in ps, p <= q PROVE p \in first
  <2>1. q \in ps /\ Cardinality(UpTo(q)) <= LIMIT
    BY <1>2
  <2>2. UpTo(p) \in SUBSET UpTo(q)
    <3>1. p \in Nat /\ q \in Nat /\ \A x \in ps : x \in Nat
      BY <2>1
    <3>2. \A x \in ps : x <= p => x <= q
      BY <1>5, <3>1
    <3> QED
      BY <3>2
  <2>3. Cardinality(UpTo(p)) <= Cardinality(UpTo(q))
    BY <1>3, <2>1, <2>2, FS_Subset
  <2> HIDE DEF UpTo, first
  <2> QED
    BY <1>1, <1>2, <1>3, <2>1, <2>3
<1>6. ASSUME Cardinality(ps) > LIMIT PROVE LIMIT <= Cardinality(first)
  <2>1. CASE first = ps
    BY <1>6, <1>1, <1>4, <2>1
  <2>2. CASE first # ps
    <3>1. ps \ first # {} /\ ps \ first \subseteq Nat
      BY <1>4, <2>2
    <3>2. PICK m \in ps \ first : \A j \in ps \ first : m <= j
      BY <3>1, SmallestRow
    <3>3. ASSUME NEW q \in UpTo(m) PROVE q \in first \union {m}
      <4>1. q \in ps /\ q <= m /\ m \in Nat /\ q \in Nat
        BY <3>2
      <4>2. q \in ps \ first => m <= q
        BY <3>2
      <4> QED
        BY <4>1, <4>2
    <3>4. UpTo(m) \in SUBSET (first \union {m})
      BY <3>3
    <3>5. /\ IsFiniteSet(first \union {m})
          /\ Cardinality(first \union {m}) = Cardinality(first) + 1
      BY <1>4, <3>2, FS_AddElement
    <3>6. Cardinality(UpTo(m)) <= Cardinality(first) + 1
      BY <3>4, <3>5, FS_Subset
    <3>7. Cardinality(UpTo(m)) \in Nat /\ ~(Cardinality(UpTo(m)) <= LIMIT)
      BY <1>2, <1>3, <3>2
    <3> HIDE DEF UpTo, first
    <3> QED
      BY <1>1, <1>4, <3>6, <3>7
  <2> QED
    BY <2>1, <2>2
<1>7. ASSUME ~(Cardinality(ps) > LIMIT) PROVE first = ps
  <2>1. \A p \in ps : Cardinality(UpTo(p)) <= LIMIT
    <3> HIDE DEF UpTo
    <3> QED
      BY <1>1, <1>3, <1>7
  <2> QED
    BY <1>2, <2>1
<1> QED
  BY <1>4, <1>5, <1>6, <1>7

\* The stack without the cursor pushed last.
LEMMA PoppedStack ==
    ASSUME NEW s \in Seq(Nat), s # <<>>
    PROVE  /\ Len(s) \in Nat \ {0}
           /\ Last(s) = s[Len(s)] /\ Last(s) \in Nat
           /\ Front(s) \in Seq(Nat) /\ Len(Front(s)) = Len(s) - 1
           /\ \A j \in 1..(Len(s) - 1) : Front(s)[j] = s[j]
           /\ Front(s) = <<>> <=> Len(s) = 1
           /\ Front(s) # <<>> => Last(Front(s)) = s[Len(s) - 1]
<1>1. Len(s) \in Nat /\ Len(s) # 0 /\ \A j \in 1..Len(s) : s[j] \in Nat
  OBVIOUS
<1>2. Last(s) = s[Len(s)] /\ Last(s) \in Nat
  BY <1>1 DEF Last
<1> DEFINE f == SubSeq(s, 1, Len(s) - 1)
<1>3. /\ f \in Seq(Nat) /\ Len(f) = Len(s) - 1
      /\ \A j \in 1..(Len(s) - 1) : f[j] = s[j]
  <2>1. Len(s) - 1 \in Int /\ \A j \in 1..(Len(s) - 1) : s[j] \in Nat
    BY <1>1
  <2>2. /\ f \in Seq(Nat)
        /\ Len(f) = IF 1 <= Len(s) - 1 THEN (Len(s) - 1) - 1 + 1 ELSE 0
        /\ \A j \in 1..((Len(s) - 1) - 1 + 1) : f[j] = s[1 + j - 1]
    BY <2>1, SubSeqProperties
  <2> HIDE DEF f
  <2>3. (Len(s) - 1) - 1 + 1 = Len(s) - 1 /\ Len(s) - 1 \in Nat
    BY <1>1
  <2>6. ~(1 <= Len(s) - 1) => Len(s) - 1 = 0
    BY <2>3
  <2>4. Len(f) = Len(s) - 1
    BY <2>2, <2>3, <2>6
  <2>5. ASSUME NEW j \in 1..(Len(s) - 1) PROVE f[j] = s[j]
    <3>1. 1 + j - 1 = j
      BY <2>3
    <3> QED
      BY <2>2, <2>3, <3>1
  <2> QED
    BY <2>2, <2>4, <2>5
<1>4. f = Front(s)
  BY DEF Front
<1> HIDE DEF f
<1>5. f = <<>> <=> Len(s) = 1
  BY <1>1, <1>3
<1>6. ASSUME f # <<>> PROVE Last(f) = s[Len(s) - 1]
  <2>2. Len(s) # 1 /\ Len(s) # 0 /\ Len(s) \in Nat
    BY <1>1, <1>5, <1>6
  <2>3. \A n \in Nat : n # 0 /\ n # 1 => n - 1 \in 1..(n - 1)
    OBVIOUS
  <2>1. Len(s) - 1 \in 1..(Len(s) - 1)
    BY <2>2, <2>3
  <2> QED
    BY <1>3, <2>1 DEF Last
<1> QED
  BY <1>1, <1>2, <1>3, <1>4, <1>5, <1>6

\* The stack with a cursor more.
LEMMA PushedStack ==
    ASSUME NEW s \in Seq(Nat), NEW c \in Nat
    PROVE  /\ Append(s, c) \in Seq(Nat) /\ Append(s, c) # <<>>
           /\ Len(Append(s, c)) = Len(s) + 1 /\ Len(s) \in Nat
           /\ \A j \in 1..Len(s) : Append(s, c)[j] = s[j]
           /\ Append(s, c)[Len(s) + 1] = c
           /\ Last(Append(s, c)) = c
  BY DEF Last

-----------------------------------------------------------------------------
(* The invariant *)

RequestType == [n : Nat, cursor : Nat, account : Accounts, filter : Filters]
AnswerType == [items : SUBSET Places, more : BOOLEAN, of : RequestType]
RemovalType == [row : Places, page : AnswerType, stack : Seq(Nat)]

ListTypeOK ==
    /\ at \in ListKinds /\ mounted \in BOOLEAN
    /\ rows \subseteq Places /\ steady \subseteq rows
    /\ account \in Accounts \union {NoAccount} /\ filter \in Filters
    /\ before \in Nat /\ stack \in Seq(Nat)
    /\ page \in AnswerType \union {Null} /\ requests \subseteq AnswerType
    /\ adding \in AnswerType \union {Null} /\ removing \in RemovalType \union {Null}
    /\ loads \in Nat /\ strayed \in BOOLEAN

VisibleTo(a, f) ==
    IF at = "members" THEN Places ELSE IF a = NoAccount THEN {} ELSE Sees[a][f]

\* Only the last request can be the one for what the page stands at, and is,
\* unless it was a handler's for an account that is not used any more.
Fresh(r) ==
    /\ r.of.n <= loads
    /\ r.of.n = loads /\ account # NoAccount /\ ~strayed
         => r.of.cursor = before /\ r.of.account = account /\ r.of.filter = filter

\* The items have no gap, and fill the page if there are more.
Whole(r) ==
    /\ r.more => LIMIT <= Cardinality(r.items)
    /\ \A p \in steady \intersect VisibleTo(r.of.account, r.of.filter) :
          p > r.of.cursor /\ (~r.more \/ \E q \in r.items : p <= q) => p \in r.items

SeenUpTo(c, a, f) ==
    \A p \in steady \intersect VisibleTo(a, f) : p <= c => <<<<a, f>>, p>> \in seen

Sound(r) ==
    /\ Fresh(r)
    /\ Whole(r)
    /\ ~strayed => SeenUpTo(r.of.cursor, r.of.account, r.of.filter)

Displayed(r) == Sound(r) /\ Shown(r.of, r.items) \subseteq seen

AnswersInv ==
    /\ \A r \in requests : Sound(r)
    /\ page # Null => Displayed(page)
    /\ adding # Null => at = "members" /\ Displayed(adding)
    /\ removing # Null => at = "members" /\ Displayed(removing.page)

\* The cursor that the stack is for: PollListPage keeps those it left, null the
\* first, and the others those they went to.
StackInv ==
    /\ at = "polls" => /\ stack = <<>> <=> before = 0
                       /\ \A i \in 1..Len(stack) : stack[i] = 0 <=> i = 1
    /\ at \in {"censuses", "modal"} \/ (at = "members" /\ ~strayed)
         => before = Top(stack) /\ \A i \in 1..Len(stack) : stack[i] # 0
    /\ ~mounted => /\ stack = <<>> /\ before = 0 /\ page = Null
                   /\ requests = {} /\ adding = Null /\ removing = Null

WalkInv ==
    ~strayed => /\ SeenUpTo(before, account, filter)
                /\ \A i \in 1..Len(stack) : SeenUpTo(stack[i], account, filter)

ListInv == ListTypeOK /\ AnswersInv /\ StackInv /\ WalkInv

-----------------------------------------------------------------------------
(* Answers *)

\* The answer of a server is whole for the rows that have been there.
LEMMA AnswerWhole ==
    ASSUME ListConstants, NEW q \in RequestType, NEW table \in SUBSET Places,
           NEW lasting \in SUBSET table
    PROVE  /\ Answer(q, table) \in AnswerType
           /\ Answer(q, table).of = q
           /\ Answer(q, table).more => LIMIT <= Cardinality(Answer(q, table).items)
           /\ \A p \in lasting \intersect VisibleTo(q.account, q.filter) :
                 /\ p > q.cursor
                 /\ \/ ~Answer(q, table).more
                    \/ \E x \in Answer(q, table).items : p <= x
                 => p \in Answer(q, table).items
<1> DEFINE visible == IF at = "members" THEN table
                      ELSE table \intersect Sees[q.account][q.filter]
           ps == Behind(visible, q.cursor)
<1>1. /\ Answer(q, table).items = FirstOf(ps)
      /\ Answer(q, table).more = (Cardinality(ps) > LIMIT)
      /\ Answer(q, table).of = q
      /\ Answer(q, table) = [items |-> FirstOf(ps), more |-> Cardinality(ps) > LIMIT,
                             of |-> q]
  BY DEF Answer
<1>2. ps \in SUBSET Places /\ Places \subseteq Nat /\ IsFiniteSet(Places)
  BY DEF ListConstants, Behind
<1>3. IsFiniteSet(ps) /\ ps \subseteq Nat
  BY <1>2, FS_Subset
<1>4. \A p \in lasting \intersect VisibleTo(q.account, q.filter) : p > q.cursor => p \in ps
  <2>1. q.account # NoAccount
    BY DEF RequestType, ListConstants
  <2> QED
    BY <2>1 DEF VisibleTo, Behind
<1> HIDE DEF ps
<1>5. /\ FirstOf(ps) \subseteq ps
      /\ \A y \in FirstOf(ps), p \in ps : p <= y => p \in FirstOf(ps)
      /\ Cardinality(ps) > LIMIT => LIMIT <= Cardinality(FirstOf(ps))
      /\ ~(Cardinality(ps) > LIMIT) => FirstOf(ps) = ps
  BY <1>3, FirstRows
<1>6. Answer(q, table) \in AnswerType
  <2>1. FirstOf(ps) \in SUBSET Places
    BY <1>2, <1>5
  <2>2. Cardinality(ps) \in Nat /\ LIMIT \in Nat
    BY <1>3, FS_CardinalityType DEF ListConstants
  <2>3. (Cardinality(ps) > LIMIT) \in BOOLEAN
    BY <2>2
  <2> QED
    BY <1>1, <2>1, <2>3 DEF AnswerType
<1> QED
  BY <1>1, <1>4, <1>5, <1>6

\* What every step does to the requests, the history and the cursor.
Onward ==
    /\ at' = at /\ steady' \subseteq steady /\ seen \subseteq seen'
    /\ strayed => strayed'
    /\ \/ loads' > loads
       \/ /\ loads' = loads
          /\ account' = NoAccount \/ UNCHANGED <<before, account, filter>>

\* A sound answer stays one.
LEMMA SoundStays ==
    ASSUME ListTypeOK, ListTypeOK', Onward, NEW r \in AnswerType
    PROVE  /\ Sound(r) => Sound(r)'
           /\ Displayed(r) => Displayed(r)'
<1>1. r.of.n \in Nat /\ loads \in Nat /\ loads' \in Nat
  BY DEF ListTypeOK, AnswerType, RequestType
<1>2. \A a, f : VisibleTo(a, f)' = VisibleTo(a, f)
  BY DEF Onward, VisibleTo
<1>3. Fresh(r) => Fresh(r)'
  BY <1>1 DEF Onward, Fresh
<1>4. Whole(r) => Whole(r)'
  BY <1>2 DEF Onward, Whole
<1>5. ASSUME ~strayed => SeenUpTo(r.of.cursor, r.of.account, r.of.filter), ~strayed'
      PROVE  SeenUpTo(r.of.cursor, r.of.account, r.of.filter)'
  BY <1>2, <1>5 DEF Onward, SeenUpTo
<1>6. Sound(r) => Sound(r)'
  BY <1>3, <1>4, <1>5 DEF Sound
<1>7. Shown(r.of, r.items)' = Shown(r.of, r.items)
  BY DEF Shown
<1> QED
  BY <1>6, <1>7 DEF Onward, Displayed

\* Requests go by what the page will stand at.
LEMMA LoadOnward ==
    ASSUME ListTypeOK, NEW cursor, NEW a, NEW f, NEW table, NEW shown,
           Load(cursor, a, f, table, shown), account' = a,
           at' = at, steady' \subseteq steady, seen \subseteq seen', strayed => strayed'
    PROVE  Onward
<1>1. loads \in Nat
  BY DEF ListTypeOK
<1> QED
  BY <1>1 DEF Load, Onward

LEMMA MoveOnward ==
    ASSUME ListTypeOK, NEW cursor, LoadIfMoved(cursor), account' = account,
           filter' = filter,
           at' = at, steady' \subseteq steady, seen \subseteq seen', strayed => strayed'
    PROVE  Onward
<1>1. CASE cursor = before
  BY <1>1 DEF LoadIfMoved, Onward
<1>2. CASE cursor # before
  BY <1>2, LoadOnward DEF LoadIfMoved
<1> QED
  BY <1>1, <1>2

LEMMA StepOnward ==
    ASSUME ListTypeOK, [ListNext]_listVars
    PROVE  Onward
<1> USE DEF place, handlers
<1>1. CASE Mount
  <2>1. /\ Load(0, account, filter, rows, Null)
        /\ at' = at /\ account' = account /\ steady' = steady /\ seen' = seen
        /\ strayed' = strayed
    BY <1>1 DEF Mount
  <2> QED
    BY <2>1, LoadOnward
<1>2. ASSUME NEW p \in Places, Appear(p) \/ Vanish(p) PROVE Onward
  BY <1>2 DEF Appear, Vanish, Onward
<1>3. ASSUME NEW r \in requests, Deliver(r) \/ Fail(r) PROVE Onward
  <2>1. CASE Deliver(r)
    <3>1. strayed => strayed'
      BY <2>1, Zenon DEF Deliver
    <3>2. at' = at /\ UNCHANGED <<account, filter, before, loads, steady>>
      BY <2>1 DEF Deliver
    <3>3. seen \subseteq seen'
      BY <2>1 DEF Deliver
    <3> QED
      BY <3>1, <3>2, <3>3 DEF Onward
  <2>2. CASE Fail(r)
    BY <2>2 DEF Fail, Onward
  <2> QED
    BY <1>3, <2>1, <2>2
<1>4. ASSUME NEW f \in Filters, SetFilter(f) PROVE Onward
  <2>1. CASE f = filter
    BY <1>4, <2>1, MoveOnward DEF SetFilter
  <2>2. CASE f # filter
    BY <1>4, <2>2, LoadOnward DEF SetFilter
  <2> QED
    BY <2>1, <2>2
<1>5. ASSUME NEW a \in Accounts \union {NoAccount}, SwitchAccount(a) PROVE Onward
  <2>1. CASE at \in {"polls", "modal"}
    BY <1>5, <2>1, LoadOnward DEF SwitchAccount
  <2>2. CASE at \notin {"polls", "modal"}
    BY <1>5, <2>2, LoadOnward DEF SwitchAccount
  <2> QED
    BY <2>1, <2>2
<1>6. CASE Next
  <2>1. CASE at \in {"polls", "modal"}
    BY <1>6, <2>1, MoveOnward DEF Next
  <2>2. CASE at \notin {"polls", "modal"}
    BY <1>6, <2>2, LoadOnward DEF Next
  <2> QED
    BY <2>1, <2>2
<1>7. CASE Prev
  <2>1. CASE at = "polls"
    BY <1>7, <2>1, MoveOnward DEF Prev
  <2>2. CASE at = "modal"
    BY <1>7, <2>2, MoveOnward DEF Prev
  <2>3. CASE at \notin {"polls", "modal"}
    BY <1>7, <2>3, LoadOnward DEF Prev
  <2> QED
    BY <2>1, <2>2, <2>3
<1>8. CASE ClickAdd
  BY <1>8 DEF ClickAdd, Onward
<1>9. ASSUME NEW row \in Places, Added(row) \/ ClickRemove(row) PROVE Onward
  <2>1. CASE Added(row)
    <3>1. strayed => strayed'
      BY <2>1, Zenon DEF Added
    <3>2. at' = at /\ UNCHANGED <<account, filter, before, loads, steady>>
      BY <2>1 DEF Added
    <3>3. seen \subseteq seen'
      BY <2>1 DEF Added
    <3> QED
      BY <3>1, <3>2, <3>3 DEF Onward
  <2>2. CASE ClickRemove(row)
    BY <2>2 DEF ClickRemove, Onward
  <2> QED
    BY <1>9, <2>1, <2>2
<1>10. CASE MemberRemoved
  <2>1. \E cursor : Load(cursor, Creator, filter, rows', page)
    BY <1>10, Zenon DEF MemberRemoved
  <2>2. strayed => strayed'
    BY <1>10, Zenon DEF MemberRemoved
  <2>3. at' = at /\ account' = account /\ steady' \subseteq steady /\ seen' = seen
    BY <1>10 DEF MemberRemoved
  <2>4. loads' > loads
    <3>1. Creator # NoAccount
      BY ListConstants DEF ListConstants
    <3> QED
      BY <2>1, <3>1 DEF Load, ListTypeOK
  <2> QED
    BY <2>2, <2>3, <2>4 DEF Onward
<1>11. CASE HandlerFails
  BY <1>11 DEF HandlerFails, Onward
<1>12. CASE UNCHANGED listVars
  BY <1>12 DEF listVars, Onward
<1> QED
  BY <1>1, <1>2, <1>3, <1>4, <1>5, <1>6, <1>7, <1>8, <1>9, <1>10, <1>11, <1>12
  DEF ListNext

-----------------------------------------------------------------------------
(* Types *)

\* The last row of a page with more behind it.
LEMMA NextCursorRow ==
    ASSUME ListConstants, ListTypeOK, AnswersInv, page # Null, page.more
    PROVE  /\ page \in AnswerType
           /\ NextCursor(page) \in page.items
           /\ NextCursor(page) \in Nat \ {0}
           /\ \A q \in page.items : q <= NextCursor(page)
<1>1. page \in AnswerType
  BY DEF ListTypeOK
<1>2. page.items \in SUBSET Places /\ Places \subseteq Nat \ {0} /\ IsFiniteSet(Places)
  BY <1>1 DEF AnswerType, ListConstants
<1>3. page.items \subseteq Nat /\ IsFiniteSet(page.items)
  BY <1>2, FS_Subset
<1>4. page.items # {}
  <2>1. LIMIT \in Nat /\ LIMIT # 0 /\ LIMIT <= Cardinality(page.items)
    BY DEF AnswersInv, Displayed, Sound, Whole, ListConstants
  <2>2. SUFFICES ASSUME page.items = {} PROVE FALSE
    OBVIOUS
  <2>3. Cardinality(page.items) = 0
    BY <2>2, FS_EmptySet
  <2> QED
    BY <2>1, <2>3
<1>5. Max(page.items) \in page.items /\ \A q \in page.items : q <= Max(page.items)
  BY <1>3, <1>4, LargestRow
<1> QED
  BY <1>1, <1>2, <1>5 DEF NextCursor

LEMMA TopType ==
    ASSUME NEW s \in Seq(Nat)
    PROVE  /\ Top(s) \in Nat
           /\ s = <<>> => Top(s) = 0
           /\ s # <<>> => Len(s) \in Nat \ {0} /\ Top(s) = s[Len(s)]
  BY PoppedStack DEF Top

LEMMA LoadTypes ==
    ASSUME ListConstants, ListTypeOK, NEW cursor \in Nat,
           NEW a \in Accounts \union {NoAccount}, NEW f \in Filters,
           NEW table \in SUBSET Places, NEW shown \in AnswerType \union {Null},
           Load(cursor, a, f, table, shown)
    PROVE  /\ before' \in Nat /\ loads' \in Nat
           /\ page' \in AnswerType \union {Null} /\ requests' \subseteq AnswerType
<1>1. CASE a = NoAccount
  BY <1>1 DEF Load, ListTypeOK
<1>2. CASE a # NoAccount
  <2> DEFINE q == [n |-> loads + 1, cursor |-> cursor, account |-> a, filter |-> f]
  <2>1. loads' = loads + 1 /\ loads' \in Nat /\ before' = cursor /\ page' = shown
    BY <1>2 DEF Load, ListTypeOK
  <2>2. q \in RequestType
    BY <1>2, <2>1 DEF RequestType
  <2>3. requests' = requests \union {Answer(q, table)}
    BY <1>2, <2>1 DEF Load
  <2>4. Answer(q, table) \in AnswerType
    <3> HIDE DEF q
    <3>1. {} \in SUBSET table
      OBVIOUS
    <3> QED
      BY <2>2, <3>1, AnswerWhole
  <2> QED
    BY <2>1, <2>3, <2>4 DEF ListTypeOK
<1> QED
  BY <1>1, <1>2

LEMMA MoveTypes ==
    ASSUME ListConstants, ListTypeOK, NEW cursor \in Nat, LoadIfMoved(cursor)
    PROVE  /\ before' = cursor /\ before' \in Nat /\ loads' \in Nat
           /\ page' \in AnswerType \union {Null} /\ requests' \subseteq AnswerType
<1>1. CASE cursor = before
  BY <1>1 DEF LoadIfMoved, ListTypeOK
<1>2. CASE cursor # before
  <2>1. Load(cursor, account, filter, rows, page)
    BY <1>2 DEF LoadIfMoved
  <2>2. /\ account \in Accounts \union {NoAccount} /\ filter \in Filters
        /\ rows \in SUBSET Places /\ page \in AnswerType \union {Null}
    BY DEF ListTypeOK
  <2>3. before' = cursor
    BY <2>1 DEF Load
  <2> QED
    BY <2>1, <2>2, <2>3, LoadTypes
<1> QED
  BY <1>1, <1>2

\* Every step keeps the shapes.
LEMMA ListTypeStep ==
    ASSUME ListConstants, ListInv, [ListNext]_listVars
    PROVE  ListTypeOK'
<1> USE DEF place, handlers
<1>0. ListTypeOK /\ AnswersInv
  BY DEF ListInv
<1> DEFINE Loaded == /\ before' \in Nat /\ loads' \in Nat
                     /\ page' \in AnswerType \union {Null}
                     /\ requests' \subseteq AnswerType
<1>t. /\ account \in Accounts \union {NoAccount} /\ filter \in Filters
      /\ rows \in SUBSET Places /\ page \in AnswerType \union {Null}
      /\ Null \in AnswerType \union {Null} /\ 0 \in Nat /\ before \in Nat
      /\ stack \in Seq(Nat) /\ <<>> \in Seq(Nat)
  BY <1>0 DEF ListTypeOK
<1>1. CASE Mount
  <2>1. Loaded
    BY <1>0, <1>1, <1>t, LoadTypes DEF Mount
  <2> QED
    BY <1>0, <1>1, <2>1 DEF Mount, ListTypeOK
<1>2. ASSUME NEW p \in Places, Appear(p) PROVE ListTypeOK'
  BY <1>0, <1>2 DEF Appear, ListTypeOK
<1>3. ASSUME NEW p \in Places, Vanish(p) PROVE ListTypeOK'
  BY <1>0, <1>3 DEF Vanish, ListTypeOK
<1>4. ASSUME NEW r \in requests, Deliver(r) PROVE ListTypeOK'
  <2>1. strayed' \in BOOLEAN
    BY <1>4, Zenon DEF Deliver
  <2> QED
    BY <1>0, <1>4, <2>1 DEF Deliver, ListTypeOK
<1>5. ASSUME NEW r \in requests, Fail(r) PROVE ListTypeOK'
  BY <1>0, <1>5 DEF Fail, ListTypeOK
<1>6. ASSUME NEW f \in Filters, SetFilter(f) PROVE ListTypeOK'
  <2>1. Loaded
    <3>1. CASE f = filter
      BY <1>0, <1>6, <1>t, <3>1, MoveTypes DEF SetFilter
    <3>2. CASE f # filter
      BY <1>0, <1>6, <1>t, <3>2, LoadTypes DEF SetFilter
    <3> QED
      BY <3>1, <3>2
  <2> QED
    BY <1>0, <1>6, <1>t, <2>1 DEF SetFilter, ListTypeOK
<1>7. ASSUME NEW a \in Accounts \union {NoAccount}, SwitchAccount(a) PROVE ListTypeOK'
  <2>1. Loaded
    <3>1. CASE at \in {"polls", "modal"}
      BY <1>0, <1>7, <1>t, <3>1, LoadTypes DEF SwitchAccount
    <3>2. CASE at \notin {"polls", "modal"}
      BY <1>0, <1>7, <1>t, <3>2, LoadTypes DEF SwitchAccount
    <3> QED
      BY <3>1, <3>2
  <2>2. strayed' \in BOOLEAN
    BY <1>7, Zenon DEF SwitchAccount
  <2>3. stack' \in Seq(Nat)
    BY <1>7, <1>t DEF SwitchAccount
  <2> QED
    BY <1>0, <1>7, <2>1, <2>2, <2>3 DEF SwitchAccount, ListTypeOK
<1>8. CASE Next
  <2> DEFINE cursor == NextCursor(page)
  <2>1. cursor \in Nat
    BY <1>0, <1>8, NextCursorRow DEF Next, CanNext
  <2>2. Loaded
    <3>1. CASE at \in {"polls", "modal"}
      <4>1. LoadIfMoved(cursor)
        BY <1>8, <3>1 DEF Next
      <4> HIDE DEF cursor
      <4> QED
        BY <1>0, <2>1, <4>1, MoveTypes
    <3>2. CASE at \notin {"polls", "modal"}
      <4>1. Load(cursor, account, filter, rows, page)
        BY <1>8, <3>2 DEF Next
      <4> HIDE DEF cursor
      <4> QED
        BY <1>0, <1>t, <2>1, <4>1, LoadTypes
    <3> QED
      BY <3>1, <3>2
  <2>3. strayed' \in BOOLEAN
    BY <1>8, Zenon DEF Next
  <2>4. stack' \in Seq(Nat)
    <3>1. (IF at = "polls" THEN before ELSE cursor) \in Nat
      BY <1>t, <2>1
    <3>2. stack' = Append(stack, IF at = "polls" THEN before ELSE cursor)
      BY <1>8 DEF Next
    <3> HIDE DEF cursor
    <3> QED
      BY <1>t, <3>1, <3>2
  <2> QED
    BY <1>0, <1>8, <2>2, <2>3, <2>4 DEF Next, ListTypeOK
<1>9. CASE Prev
  <2>1. /\ stack # <<>> /\ stack' = Front(stack) /\ stack' \in Seq(Nat)
        /\ Last(stack) \in Nat /\ Top(stack') \in Nat
    BY <1>9, <1>t, PoppedStack, TopType DEF Prev, CanPrev
  <2>2. Loaded
    <3>1. CASE at = "polls"
      BY <1>0, <1>9, <2>1, <3>1, MoveTypes DEF Prev
    <3>2. CASE at = "modal"
      BY <1>0, <1>9, <2>1, <3>2, MoveTypes DEF Prev
    <3>3. CASE at \notin {"polls", "modal"}
      BY <1>0, <1>9, <1>t, <2>1, <3>3, LoadTypes DEF Prev
    <3> QED
      BY <3>1, <3>2, <3>3
  <2> QED
    BY <1>0, <1>9, <2>1, <2>2 DEF Prev, ListTypeOK
<1>10. CASE ClickAdd
  BY <1>0, <1>10 DEF ClickAdd, ListTypeOK
<1>11. ASSUME NEW row \in Places, Added(row) PROVE ListTypeOK'
  <2>1. adding \in AnswerType
    BY <1>0, <1>11 DEF Added, ListTypeOK
  <2>2. WithMember(adding, row) \in AnswerType
    BY <2>1 DEF WithMember, AnswerType
  <2>3. page' \in AnswerType \union {Null} /\ strayed' \in BOOLEAN
    <3>1. CASE WithMember(adding, row) = adding
      BY <1>0, <1>11, <3>1 DEF Added, ListTypeOK
    <3>2. CASE WithMember(adding, row) # adding
      <4>1. page' = WithMember(adding, row)
        BY <1>11, <3>2 DEF Added
      <4>2. strayed' \in BOOLEAN
        BY <1>11, <3>2, Zenon DEF Added
      <4> QED
        BY <2>2, <4>1, <4>2
    <3> QED
      BY <3>1, <3>2
  <2>4. removing' \in RemovalType \union {Null}
    <3>1. CASE removing' = removing
      BY <1>0, <3>1 DEF ListTypeOK
    <3>2. CASE removing' # removing
      <4>1. /\ removing # Null /\ page' = WithMember(adding, row)
            /\ removing' = [removing EXCEPT !.page = page']
        BY <1>11, <3>2 DEF Added
      <4>2. removing \in RemovalType
        BY <1>0, <4>1 DEF ListTypeOK
      <4> QED
        BY <2>2, <4>1, <4>2 DEF RemovalType
    <3> QED
      BY <3>1, <3>2
  <2>5. /\ rows' = rows \union {row} /\ adding' = Null
        /\ UNCHANGED <<place, account, filter, before, stack, loading, requests,
                       loads, steady>>
    BY <1>11 DEF Added
  <2> QED
    BY <1>0, <2>3, <2>4, <2>5 DEF ListTypeOK
<1>12. ASSUME NEW row \in Places, ClickRemove(row) PROVE ListTypeOK'
  <2>1. removing' \in RemovalType
    <3>1. page \in AnswerType
      BY <1>0, <1>12 DEF ClickRemove, Editable, ListTypeOK
    <3> QED
      BY <1>12, <1>t, <3>1 DEF ClickRemove, RemovalType
  <2> QED
    BY <1>0, <1>12, <2>1 DEF ClickRemove, ListTypeOK
<1>13. CASE MemberRemoved
  <2>1. removing \in RemovalType
    BY <1>0, <1>13 DEF MemberRemoved, ListTypeOK
  <2>2. removing.stack \in Seq(Nat)
    BY <2>1 DEF RemovalType
  <2>3. stack' \in Seq(Nat)
    <3>1. removing.stack # <<>> => Front(removing.stack) \in Seq(Nat)
      BY <2>2, PoppedStack
    <3> QED
      BY <1>13, <1>t, <3>1 DEF MemberRemoved
  <2>4. /\ Top(removing.stack) \in Nat /\ Top(stack') \in Nat
        /\ rows' \in SUBSET Places
    BY <1>0, <1>13, <2>2, <2>3, TopType DEF MemberRemoved, ListTypeOK
  <2> DEFINE cursor == Top(IF removing.page.items # {removing.row}
                           THEN removing.stack ELSE stack')
  <2>5. /\ cursor \in Nat /\ Load(cursor, Creator, filter, rows', page)
        /\ Creator \in Accounts
    BY <1>13, <2>4, ListConstants DEF MemberRemoved, ListConstants
  <2>6. Loaded
    <3> HIDE DEF cursor
    <3> QED
      BY <1>0, <1>t, <2>4, <2>5, LoadTypes
  <2>7. strayed' \in BOOLEAN
    BY <1>13, Zenon DEF MemberRemoved
  <2> QED
    BY <1>0, <1>13, <2>3, <2>6, <2>7 DEF MemberRemoved, ListTypeOK
<1>14. CASE HandlerFails
  BY <1>0, <1>14 DEF HandlerFails, ListTypeOK
<1>15. CASE UNCHANGED listVars
  BY <1>0, <1>15 DEF listVars, ListTypeOK
<1> QED
  BY <1>1, <1>2, <1>3, <1>4, <1>5, <1>6, <1>7, <1>8, <1>9, <1>10, <1>11, <1>12,
     <1>13, <1>14, <1>15
  DEF ListNext

-----------------------------------------------------------------------------
(* The answers under way and on display *)

\* SeenUpTo, after the step.
SeenNext(c, a, f) ==
    \A p \in steady' \intersect VisibleTo(a, f) : p <= c => <<<<a, f>>, p>> \in seen'

\* Nothing new is asked for or shown.
LEMMA AnswersStay ==
    ASSUME ListTypeOK, ListTypeOK', AnswersInv, Onward,
           requests' \subseteq requests, page' \in {page, Null},
           adding' \in {adding, Null}, removing' \in {removing, Null}
    PROVE  AnswersInv'
<1>1. \A r \in requests' : Sound(r)'
  BY SoundStays DEF AnswersInv, ListTypeOK
<1>2. page' # Null => Displayed(page)'
  <2>1. page # Null => page \in AnswerType
    BY DEF ListTypeOK
  <2> QED
    BY <2>1, SoundStays DEF AnswersInv
<1>3. adding' # Null => at' = "members" /\ Displayed(adding)'
  <2>1. adding # Null => adding \in AnswerType
    BY DEF ListTypeOK
  <2> QED
    BY <2>1, SoundStays DEF AnswersInv, Onward
<1>4. removing' # Null => at' = "members" /\ Displayed(removing.page)'
  <2>1. removing # Null => removing.page \in AnswerType
    BY DEF ListTypeOK, RemovalType
  <2> QED
    BY <2>1, SoundStays DEF AnswersInv, Onward
<1> QED
  BY <1>1, <1>2, <1>3, <1>4 DEF AnswersInv

\* A request for what the page then stands at, or a strayed one.
LEMMA LoadAnswers ==
    ASSUME ListConstants, ListTypeOK, ListTypeOK', AnswersInv, Onward,
           NEW cursor \in Nat, NEW a \in Accounts \union {NoAccount},
           NEW f \in Filters, NEW table \in SUBSET Places, NEW shown \in {page, Null},
           Load(cursor, a, f, table, shown), account' = a \/ strayed', filter' = f,
           steady' \subseteq table,
           adding' \in {adding, Null}, removing' \in {removing, Null},
           ~strayed' => SeenNext(cursor, a, f)
    PROVE  AnswersInv'
<1>1. CASE a = NoAccount
  <2>1. requests' = requests /\ page' \in {page, Null}
    BY <1>1 DEF Load
  <2> QED
    BY <2>1, AnswersStay
<1>2. CASE a # NoAccount
  <2> DEFINE q == [n |-> loads + 1, cursor |-> cursor, account |-> a, filter |-> f]
             new == Answer(q, table)
  <2>1. loads' = loads + 1 /\ loads \in Nat /\ before' = cursor /\ page' = shown
    BY <1>2 DEF Load, ListTypeOK
  <2>2. q \in RequestType
    BY <1>2, <2>1 DEF RequestType
  <2>3. requests' = requests \union {new}
    BY <1>2, <2>1 DEF Load
  <2>q. q.n = loads' /\ q.cursor = cursor /\ q.account = a /\ q.filter = f
    BY <2>1
  <2> HIDE DEF q
  <2>4. /\ new \in AnswerType
        /\ new.of = q
        /\ new.more => LIMIT <= Cardinality(new.items)
        /\ \A p \in steady' \intersect VisibleTo(q.account, q.filter) :
              p > q.cursor /\ (~new.more \/ \E x \in new.items : p <= x)
                => p \in new.items
    BY <2>2, AnswerWhole
  <2>5. PICK r : r = new
    OBVIOUS
  <2> HIDE DEF new
  <2>6. \A b, g : VisibleTo(b, g)' = VisibleTo(b, g)
    BY DEF Onward, VisibleTo
  <2>7. Fresh(r)'
    BY <2>1, <2>4, <2>5, <2>q DEF Fresh
  <2>8. Whole(r)'
    BY <2>4, <2>5, <2>6, <2>q DEF Whole
  <2>9. ~strayed' => SeenUpTo(r.of.cursor, r.of.account, r.of.filter)'
    BY <2>4, <2>5, <2>6, <2>q DEF SeenUpTo, SeenNext
  <2>10. Sound(r)'
    BY <2>7, <2>8, <2>9 DEF Sound
  <2>11. \A x \in requests' : Sound(x)'
    BY <2>3, <2>5, <2>10, SoundStays DEF AnswersInv, ListTypeOK
  <2>12. page' # Null => Displayed(page)'
    <3>1. page # Null => page \in AnswerType
      BY DEF ListTypeOK
    <3>2. page' \in {page, Null}
      BY <2>1
    <3> QED
      BY <3>1, <3>2, SoundStays DEF AnswersInv
  <2>13. adding' # Null => at' = "members" /\ Displayed(adding)'
    <3>1. adding # Null => adding \in AnswerType
      BY DEF ListTypeOK
    <3> QED
      BY <3>1, SoundStays DEF AnswersInv, Onward
  <2>14. removing' # Null => at' = "members" /\ Displayed(removing.page)'
    <3>1. removing # Null => removing.page \in AnswerType
      BY DEF ListTypeOK, RemovalType
    <3> QED
      BY <3>1, SoundStays DEF AnswersInv, Onward
  <2> QED
    BY <2>11, <2>12, <2>13, <2>14 DEF AnswersInv
<1> QED
  BY <1>1, <1>2

LEMMA MoveAnswers ==
    ASSUME ListConstants, ListTypeOK, ListTypeOK', AnswersInv, Onward,
           NEW cursor \in Nat, LoadIfMoved(cursor),
           account' = account, filter' = filter, steady' = steady,
           adding' = adding, removing' = removing,
           ~strayed' => SeenNext(cursor, account, filter)
    PROVE  AnswersInv'
<1>1. CASE cursor = before
  BY <1>1, AnswersStay DEF LoadIfMoved
<1>2. CASE cursor # before
  <2>1. Load(cursor, account, filter, rows, page)
    BY <1>2 DEF LoadIfMoved
  <2>2. /\ account \in Accounts \union {NoAccount} /\ filter \in Filters
        /\ rows \in SUBSET Places /\ steady' \subseteq rows
    BY DEF ListTypeOK
  <2> QED
    BY <2>1, <2>2, LoadAnswers
<1> QED
  BY <1>1, <1>2

-----------------------------------------------------------------------------
(* The walk *)

\* What was seen stays so.
LEMMA SeenStays ==
    ASSUME Onward, NEW c, NEW a, NEW f, SeenUpTo(c, a, f)
    PROVE  SeenNext(c, a, f)
  BY DEF Onward, SeenUpTo, SeenNext

\* There are no rows before the first.
LEMMA FirstCursor ==
    ASSUME ListConstants, ListTypeOK', NEW a, NEW f
    PROVE  SeenNext(0, a, f)
<1>1. \A p \in steady' : p \in Nat \ {0}
  BY DEF ListConstants, ListTypeOK
<1>2. \A p \in steady' : ~(p <= 0)
  BY <1>1
<1> QED
  BY <1>2 DEF SeenNext

LEMMA WalkFrom ==
    ASSUME at' = at,
           ~strayed' => /\ SeenNext(before', account', filter')
                        /\ \A i \in 1..Len(stack') :
                              SeenNext(stack'[i], account', filter')
    PROVE  WalkInv'
<1>1. \A b, g : VisibleTo(b, g)' = VisibleTo(b, g)
  BY DEF VisibleTo
<1> QED
  BY <1>1 DEF WalkInv, SeenNext, SeenUpTo

\* The page goes on where it was.
LEMMA WalkStays ==
    ASSUME ListTypeOK, WalkInv, Onward, UNCHANGED <<before, account, filter>>,
           stack' = stack \/ stack' = <<>>
    PROVE  WalkInv'
<1>1. CASE strayed'
  BY <1>1 DEF WalkInv
<1>2. CASE ~strayed'
  <2>1. ~strayed /\ at' = at
    BY <1>2 DEF Onward
  <2>2. /\ SeenNext(before, account, filter)
        /\ \A i \in 1..Len(stack) : SeenNext(stack[i], account, filter)
    BY <2>1, SeenStays DEF WalkInv
  <2>3. stack' = <<>> => 1..Len(stack') = {}
    OBVIOUS
  <2> QED
    BY <2>1, <2>2, <2>3, WalkFrom
<1> QED
  BY <1>1, <1>2

\* The rows up to the last of a page that has not strayed have been seen.
LEMMA NextSeen ==
    ASSUME ListConstants, ListInv, page # Null, page.more, ~strayed,
           page.of.account = account, page.of.filter = filter
    PROVE  SeenUpTo(NextCursor(page), account, filter)
<1> DEFINE c == NextCursor(page)
<1>1. /\ page \in AnswerType /\ c \in page.items
      /\ c \in Nat \ {0} /\ \A q \in page.items : q <= c
  BY NextCursorRow DEF ListInv
<1>2. Displayed(page)
  BY DEF ListInv, AnswersInv
<1> HIDE DEF c
<1>3. ASSUME NEW p \in steady \intersect VisibleTo(account, filter), p <= c
      PROVE  <<<<account, filter>>, p>> \in seen
  <2>1. p \in Nat /\ page.of.cursor \in Nat
    BY <1>1 DEF ListInv, ListTypeOK, ListConstants, AnswerType, RequestType
  <2>2. CASE p <= page.of.cursor
    BY <1>2, <2>2 DEF Displayed, Sound, SeenUpTo
  <2>3. CASE p > page.of.cursor
    <3>1. p \in page.items
      BY <1>1, <1>2, <1>3, <2>3 DEF Displayed, Sound, Whole
    <3>2. <<<<account, filter>>, p>> \in Shown(page.of, page.items)
      BY <3>1 DEF Shown
    <3> QED
      BY <1>2, <3>2 DEF Displayed
  <2> QED
    BY <2>1, <2>2, <2>3
<1> QED
  BY <1>3 DEF SeenUpTo, c

\* The cursors that "previous" leads back to.
LEMMA StackSeen ==
    ASSUME ListConstants, ListInv, ListTypeOK', Onward, ~strayed
    PROVE  /\ SeenNext(Top(stack), account, filter)
           /\ \A i \in 1..Len(stack) : SeenNext(stack[i], account, filter)
           /\ stack # <<>>
                => /\ SeenNext(Last(stack), account, filter)
                   /\ SeenNext(Top(Front(stack)), account, filter)
                   /\ \A i \in 1..Len(Front(stack)) :
                         SeenNext(Front(stack)[i], account, filter)
<1>1. stack \in Seq(Nat) /\ SeenNext(0, account, filter)
  BY FirstCursor DEF ListInv, ListTypeOK
<1>2. \A i \in 1..Len(stack) : SeenNext(stack[i], account, filter)
  BY SeenStays DEF ListInv, WalkInv
<1>3. CASE stack = <<>>
  BY <1>1, <1>2, <1>3, TopType
<1>4. CASE stack # <<>>
  <2>1. /\ Len(stack) \in Nat \ {0}
        /\ Last(stack) = stack[Len(stack)]
        /\ Front(stack) \in Seq(Nat) /\ Len(Front(stack)) = Len(stack) - 1
        /\ \A j \in 1..(Len(stack) - 1) : Front(stack)[j] = stack[j]
        /\ Front(stack) = <<>> <=> Len(stack) = 1
        /\ Front(stack) # <<>> => Last(Front(stack)) = stack[Len(stack) - 1]
    BY <1>1, <1>4, PoppedStack
  <2>2. SeenNext(Last(stack), account, filter) /\ Top(stack) = Last(stack)
    BY <1>2, <1>4, <2>1 DEF Top
  <2>3. \A i \in 1..Len(Front(stack)) : SeenNext(Front(stack)[i], account, filter)
    BY <1>2, <2>1
  <2>4. SeenNext(Top(Front(stack)), account, filter)
    <3>1. CASE Front(stack) = <<>>
      BY <1>1, <3>1 DEF Top
    <3>2. CASE Front(stack) # <<>>
      <4>1. Len(stack) # 1
        BY <2>1, <3>2
      <4>2. \A n \in Nat : n # 0 /\ n # 1 => n - 1 \in 1..n
        OBVIOUS
      <4>3. Len(stack) - 1 \in 1..Len(stack)
        BY <2>1, <4>1, <4>2
      <4> QED
        BY <1>2, <2>1, <3>2, <4>3 DEF Top
    <3> QED
      BY <3>1, <3>2
  <2> QED
    BY <1>2, <2>2, <2>3, <2>4
<1> QED
  BY <1>3, <1>4

-----------------------------------------------------------------------------
(* The stack *)

LEMMA PushFits ==
    ASSUME NEW s \in Seq(Nat), NEW b \in Nat, NEW c \in Nat \ {0}
    PROVE  /\ /\ s = <<>> <=> b = 0
              /\ \A i \in 1..Len(s) : s[i] = 0 <=> i = 1
              => \A i \in 1..Len(Append(s, b)) : Append(s, b)[i] = 0 <=> i = 1
           /\ (\A i \in 1..Len(s) : s[i] # 0)
                => \A i \in 1..Len(Append(s, c)) : Append(s, c)[i] # 0
           /\ Append(s, b) # <<>> /\ Append(s, c) # <<>> /\ Top(Append(s, c)) = c
<1>1. /\ Len(s) \in Nat /\ 1..(Len(s) + 1) = 1..Len(s) \union {Len(s) + 1}
      /\ s = <<>> <=> Len(s) + 1 = 1
  OBVIOUS
<1>2. /\ Len(Append(s, b)) = Len(s) + 1
      /\ \A j \in 1..Len(s) : Append(s, b)[j] = s[j]
      /\ Append(s, b)[Len(s) + 1] = b
      /\ Append(s, b) # <<>>
  BY PushedStack
<1>3. /\ Len(Append(s, c)) = Len(s) + 1
      /\ \A j \in 1..Len(s) : Append(s, c)[j] = s[j]
      /\ Append(s, c)[Len(s) + 1] = c
      /\ Append(s, c) # <<>> /\ Last(Append(s, c)) = c
  BY PushedStack
<1>4. ASSUME s = <<>> <=> b = 0, \A i \in 1..Len(s) : s[i] = 0 <=> i = 1,
             NEW i \in 1..Len(Append(s, b))
      PROVE  Append(s, b)[i] = 0 <=> i = 1
  BY <1>1, <1>2, <1>4
<1>5. ASSUME \A i \in 1..Len(s) : s[i] # 0, NEW i \in 1..Len(Append(s, c))
      PROVE  Append(s, c)[i] # 0
  BY <1>1, <1>3, <1>5
<1>6. Top(Append(s, c)) = c
  BY <1>3 DEF Top
<1> QED
  BY <1>2, <1>3, <1>4, <1>5, <1>6

LEMMA PopFits ==
    ASSUME NEW s \in Seq(Nat), s # <<>>
    PROVE  /\ (\A i \in 1..Len(s) : s[i] = 0 <=> i = 1)
                => /\ Front(s) = <<>> <=> Last(s) = 0
                   /\ \A i \in 1..Len(Front(s)) : Front(s)[i] = 0 <=> i = 1
           /\ (\A i \in 1..Len(s) : s[i] # 0)
                => \A i \in 1..Len(Front(s)) : Front(s)[i] # 0
<1>1. /\ Len(s) \in Nat \ {0} /\ Last(s) = s[Len(s)]
      /\ Len(Front(s)) = Len(s) - 1
      /\ \A j \in 1..(Len(s) - 1) : Front(s)[j] = s[j]
      /\ Front(s) = <<>> <=> Len(s) = 1
  BY PoppedStack
<1>2. Len(s) \in 1..Len(s) /\ \A i \in 1..(Len(s) - 1) : i \in 1..Len(s)
  BY <1>1
<1> QED
  BY <1>1, <1>2

-----------------------------------------------------------------------------
(* The invariant is inductive *)

\* A step that asks for nothing, shows nothing and leaves the stack alone.
LEMMA QuietStep ==
    ASSUME ListTypeOK, ListTypeOK', ListInv, Onward,
           UNCHANGED <<mounted, account, filter, before, stack, page>>,
           requests' \subseteq requests, strayed' = strayed,
           adding' \in {adding, Null}, removing' \in {removing, Null}
    PROVE  ListInv'
<1>1. AnswersInv'
  BY AnswersStay DEF ListInv
<1>2. WalkInv'
  BY WalkStays DEF ListInv
<1>3. StackInv'
  <2>1. at' = at
    BY DEF Onward
  <2>2. requests = {} => requests' = {}
    OBVIOUS
  <2> QED
    BY <2>1, <2>2 DEF ListInv, StackInv
<1> QED
  BY <1>1, <1>2, <1>3 DEF ListInv

LEMMA MountStep ==
    ASSUME ListConstants, ListTypeOK, ListTypeOK', ListInv, Onward, Mount
    PROVE  ListInv'
<1>1. /\ Load(0, account, filter, rows, Null)
      /\ UNCHANGED <<at, rows, account, filter, stack, adding, removing, steady, strayed>>
      /\ mounted' = TRUE /\ ~mounted
  BY DEF Mount, handlers
<1>2. before' = 0 /\ stack = <<>> /\ before = 0
  BY <1>1 DEF Load, ListInv, StackInv
<1>3. /\ account \in Accounts \union {NoAccount} /\ filter \in Filters
      /\ rows \in SUBSET Places /\ steady' \subseteq rows
      /\ SeenNext(0, account, filter) /\ AnswersInv
  BY <1>1, FirstCursor DEF ListTypeOK, ListInv
<1>4. AnswersInv'
  BY <1>1, <1>3, LoadAnswers
<1>5. WalkInv'
  BY <1>1, <1>2, WalkStays DEF ListInv
<1>6. StackInv'
  BY <1>1, <1>2 DEF ListInv, StackInv, Top
<1> QED
  BY <1>4, <1>5, <1>6 DEF ListInv

LEMMA DeliverStep ==
    ASSUME ListConstants, ListTypeOK, ListTypeOK', ListInv, Onward,
           NEW r \in requests, Deliver(r)
    PROVE  ListInv'
<1>1. /\ page' = r /\ requests' = requests \ {r}
      /\ seen' = seen \union Shown(r.of, r.items)
      /\ UNCHANGED <<at, mounted, account, filter, before, stack, adding, removing>>
  BY DEF Deliver, place, handlers
<1>2. strayed => strayed'
  BY DEF Onward
<1>3. r \in AnswerType /\ Sound(r) /\ mounted
  BY DEF ListTypeOK, ListInv, AnswersInv, StackInv
<1>4. Sound(r)'
  BY <1>3, SoundStays
<1>5. Displayed(r)'
  <2>1. Shown(r.of, r.items) \subseteq seen'
    BY <1>1
  <2>2. Shown(r.of, r.items)' = Shown(r.of, r.items)
    BY DEF Shown
  <2> QED
    BY <1>4, <2>1, <2>2 DEF Displayed
<1>6. AnswersInv'
  <2>1. \A x \in requests' : Sound(x)'
    BY <1>1, SoundStays DEF ListInv, AnswersInv, ListTypeOK
  <2>2. adding' # Null => at' = "members" /\ Displayed(adding)'
    <3>1. adding # Null => adding \in AnswerType
      BY DEF ListTypeOK
    <3> QED
      BY <1>1, <3>1, SoundStays DEF ListInv, AnswersInv
  <2>3. removing' # Null => at' = "members" /\ Displayed(removing.page)'
    <3>1. removing # Null => removing.page \in AnswerType
      BY DEF ListTypeOK, RemovalType
    <3> QED
      BY <1>1, <3>1, SoundStays DEF ListInv, AnswersInv
  <2> QED
    BY <1>1, <1>5, <2>1, <2>2, <2>3 DEF AnswersInv
<1>7. WalkInv'
  BY <1>1, WalkStays DEF ListInv
<1>8. StackInv'
  BY <1>1, <1>2, <1>3 DEF ListInv, StackInv
<1> QED
  BY <1>6, <1>7, <1>8 DEF ListInv

LEMMA FilterStep ==
    ASSUME ListConstants, ListTypeOK, ListTypeOK', ListInv, Onward,
           NEW f \in Filters, SetFilter(f)
    PROVE  ListInv'
<1>1. /\ at = "polls" /\ mounted /\ filter' = f /\ stack' = <<>>
      /\ UNCHANGED <<at, mounted, rows, account, adding, removing, seen, steady, strayed>>
  BY DEF SetFilter, place, handlers
<1>2. /\ account \in Accounts \union {NoAccount} /\ page \in {page, Null}
      /\ rows \in SUBSET Places /\ steady' \subseteq rows /\ AnswersInv
      /\ SeenNext(0, account, f)
  BY <1>1, FirstCursor DEF ListTypeOK, ListInv
<1>3. before' = 0 /\ AnswersInv'
  <2>1. CASE f = filter
    <3>1. LoadIfMoved(0)
      BY <2>1 DEF SetFilter
    <3>2. before' = 0
      BY <3>1, MoveTypes
    <3> QED
      BY <1>1, <1>2, <2>1, <3>1, <3>2, MoveAnswers
  <2>2. CASE f # filter
    <3>1. Load(0, account, f, rows, page)
      BY <2>2 DEF SetFilter
    <3>2. before' = 0
      BY <3>1 DEF Load
    <3> QED
      BY <1>1, <1>2, <3>1, <3>2, LoadAnswers
  <2> QED
    BY <2>1, <2>2
<1>4. WalkInv'
  BY <1>1, <1>2, <1>3, WalkFrom
<1>5. StackInv'
  BY <1>1, <1>3 DEF StackInv
<1> QED
  BY <1>3, <1>4, <1>5 DEF ListInv

LEMMA SwitchStep ==
    ASSUME ListConstants, ListTypeOK, ListTypeOK', ListInv, Onward,
           NEW a \in Accounts \union {NoAccount}, SwitchAccount(a)
    PROVE  ListInv'
<1>1. /\ mounted /\ account' = a
      /\ stack' = IF at = "censuses" THEN <<>> ELSE stack
      /\ UNCHANGED <<at, mounted, rows, filter, adding, removing, seen, steady>>
  BY DEF SwitchAccount, place, handlers
<1>2. /\ filter \in Filters /\ page \in {page, Null} /\ before \in Nat
      /\ rows \in SUBSET Places /\ steady' \subseteq rows /\ AnswersInv
      /\ SeenNext(0, a, filter) /\ stack \in Seq(Nat)
  BY <1>1, FirstCursor DEF ListTypeOK, ListInv
<1>3. ~strayed' => /\ ~strayed
                   /\ at = "members" => stack = <<>>
                   /\ at \in {"polls", "modal"} => a = account \/ before = 0
  BY Zenon DEF SwitchAccount
<1>4. CASE at \in {"polls", "modal"}
  <2>1. Load(before, a, filter, rows, page) /\ stack' = stack
    BY <1>1, <1>4 DEF SwitchAccount
  <2>2. before' = before
    BY <2>1 DEF Load
  <2>3. ASSUME ~strayed'
        PROVE  /\ SeenNext(before, a, filter)
               /\ \A i \in 1..Len(stack) : SeenNext(stack[i], a, filter)
    <3>1. CASE a = account
      BY <1>3, <2>3, <3>1, SeenStays DEF ListInv, WalkInv
    <3>2. CASE before = 0
      <4>1. stack = <<>>
        BY <1>2, <1>4, <3>2, TopType DEF ListInv, StackInv
      <4> QED
        BY <1>2, <3>2, <4>1
    <3> QED
      BY <1>3, <1>4, <2>3, <3>1, <3>2
  <2>4. AnswersInv'
    BY <1>1, <1>2, <2>1, <2>3, LoadAnswers
  <2>5. WalkInv'
    BY <1>1, <2>1, <2>2, <2>3, WalkFrom
  <2>6. StackInv'
    BY <1>1, <1>4, <2>1, <2>2 DEF ListInv, StackInv
  <2> QED
    BY <2>4, <2>5, <2>6 DEF ListInv
<1>5. CASE at \notin {"polls", "modal"}
  <2>1. Load(0, a, filter, rows, Null)
    BY <1>5 DEF SwitchAccount
  <2>2. before' = 0
    BY <2>1 DEF Load
  <2>3. AnswersInv'
    BY <1>1, <1>2, <2>1, LoadAnswers
  <2>4. ~strayed' => stack' = <<>>
    BY <1>1, <1>3, <1>5 DEF ListTypeOK, ListKinds
  <2>5. WalkInv'
    BY <1>1, <1>2, <2>2, <2>4, WalkFrom
  <2>6. StackInv'
    <3>1. at = "censuses" => stack' = <<>>
      BY <1>1
    <3> QED
      BY <1>1, <1>5, <2>2, <2>4, <3>1 DEF StackInv, Top
  <2> QED
    BY <2>3, <2>5, <2>6 DEF ListInv
<1> QED
  BY <1>4, <1>5

LEMMA NextStep ==
    ASSUME ListConstants, ListTypeOK, ListTypeOK', ListInv, Onward, Next
    PROVE  ListInv'
<1> DEFINE cursor == NextCursor(page)
<1>1. /\ mounted /\ page # Null /\ page.more
      /\ stack' = Append(stack, IF at = "polls" THEN before ELSE cursor)
      /\ UNCHANGED <<at, mounted, rows, account, filter, adding, removing, seen, steady>>
  BY DEF Next, CanNext, place, handlers
<1>2. ~strayed' => ~strayed /\ page.of.account = account /\ page.of.filter = filter
  BY Zenon DEF Next
<1>3. cursor \in Nat \ {0} /\ cursor \in Nat
  BY <1>1, NextCursorRow DEF ListInv
<1>4. /\ account \in Accounts \union {NoAccount} /\ filter \in Filters
      /\ page \in {page, Null} /\ before \in Nat
      /\ rows \in SUBSET Places /\ steady' \subseteq rows /\ AnswersInv
      /\ stack \in Seq(Nat)
  BY <1>1 DEF ListTypeOK, ListInv
<1>5. ~strayed' => SeenNext(cursor, account, filter)
  <2>1. ~strayed' => SeenUpTo(cursor, account, filter)
    BY <1>1, <1>2, NextSeen
  <2> HIDE DEF cursor
  <2> QED
    BY <2>1, SeenStays
<1>6. /\ at \in {"polls", "modal"} => LoadIfMoved(cursor)
      /\ at \notin {"polls", "modal"} => Load(cursor, account, filter, rows, page)
  BY DEF Next
<1> HIDE DEF cursor
<1>7. before' = cursor /\ AnswersInv'
  <2>1. CASE at \in {"polls", "modal"}
    <3>1. before' = cursor
      BY <1>3, <1>6, <2>1, MoveTypes
    <3> QED
      BY <1>1, <1>3, <1>4, <1>5, <1>6, <2>1, <3>1, MoveAnswers
  <2>2. CASE at \notin {"polls", "modal"}
    <3>1. before' = cursor
      BY <1>6, <2>2 DEF Load
    <3> QED
      BY <1>1, <1>3, <1>4, <1>5, <1>6, <2>2, <3>1, LoadAnswers
  <2> QED
    BY <2>1, <2>2
<1>8. WalkInv'
  <2>1. ASSUME ~strayed', NEW i \in 1..Len(stack')
        PROVE  SeenNext(stack'[i], account, filter)
    <3>1. /\ SeenNext(before, account, filter)
          /\ \A j \in 1..Len(stack) : SeenNext(stack[j], account, filter)
      BY <1>2, <2>1, SeenStays DEF ListInv, WalkInv
    <3> DEFINE pushed == IF at = "polls" THEN before ELSE cursor
    <3>2. pushed \in Nat /\ SeenNext(pushed, account, filter)
      BY <1>3, <1>4, <1>5, <2>1, <3>1
    <3>3. stack' = Append(stack, pushed)
      BY <1>1
    <3> HIDE DEF pushed
    <3>4. /\ Len(stack') = Len(stack) + 1 /\ Len(stack) \in Nat
          /\ \A j \in 1..Len(stack) : stack'[j] = stack[j]
          /\ stack'[Len(stack) + 1] = pushed
      BY <1>4, <3>2, <3>3, PushedStack
    <3>5. i \in 1..Len(stack) \/ i = Len(stack) + 1
      BY <2>1, <3>4
    <3> QED
      BY <3>1, <3>2, <3>4, <3>5
  <2> QED
    BY <1>1, <1>5, <1>7, <2>1, WalkFrom
<1>9. StackInv'
  <2>1. CASE at = "polls"
    <3>1. stack' = Append(stack, before)
      BY <1>1, <2>1
    <3>2. stack' # <<>> /\ \A i \in 1..Len(stack') : stack'[i] = 0 <=> i = 1
      BY <1>3, <1>4, <2>1, <3>1, PushFits DEF ListInv, StackInv
    <3> QED
      BY <1>1, <1>3, <1>7, <2>1, <3>2 DEF StackInv
  <2>2. CASE at # "polls"
    <3>1. stack' = Append(stack, cursor)
      BY <1>1, <2>2
    <3>2. Top(stack') = cursor
      BY <1>3, <1>4, <3>1, PushFits
    <3>3. (\A i \in 1..Len(stack) : stack[i] # 0)
             => \A i \in 1..Len(stack') : stack'[i] # 0
      BY <1>3, <1>4, <3>1, PushFits
    <3>4. Top(stack)' = Top(stack')
      BY DEF Top
    <3> QED
      BY <1>1, <1>2, <1>7, <2>2, <3>2, <3>3, <3>4 DEF ListInv, StackInv
  <2> QED
    BY <2>1, <2>2
<1> QED
  BY <1>7, <1>8, <1>9 DEF ListInv

LEMMA PrevStep ==
    ASSUME ListConstants, ListTypeOK, ListTypeOK', ListInv, Onward, Prev
    PROVE  ListInv'
<1> DEFINE cursor == IF at = "polls" THEN Last(stack) ELSE Top(Front(stack))
<1>1. /\ mounted /\ stack # <<>> /\ stack' = Front(stack)
      /\ UNCHANGED <<at, mounted, rows, account, filter, adding, removing, seen, steady,
                     strayed>>
  BY DEF Prev, CanPrev, place, handlers
<1>2. /\ account \in Accounts \union {NoAccount} /\ filter \in Filters
      /\ page \in {page, Null} /\ stack \in Seq(Nat)
      /\ rows \in SUBSET Places /\ steady' \subseteq rows /\ AnswersInv
  BY <1>1 DEF ListTypeOK, ListInv
<1>3. cursor \in Nat
  BY <1>1, <1>2, PoppedStack, TopType
<1>4. ~strayed' => /\ SeenNext(cursor, account, filter)
                   /\ \A i \in 1..Len(stack') : SeenNext(stack'[i], account, filter)
  BY <1>1, StackSeen
<1>5. /\ at \in {"polls", "modal"} => LoadIfMoved(cursor)
      /\ at \notin {"polls", "modal"} => Load(cursor, account, filter, rows, page)
  <2>1. Top(stack') = Top(Front(stack))
    BY <1>1
  <2> QED
    BY <2>1 DEF Prev
<1>6. at = "polls" => cursor = Last(stack)
  OBVIOUS
<1>7. at # "polls" => cursor = Top(Front(stack))
  OBVIOUS
<1> HIDE DEF cursor
<1>8. before' = cursor /\ AnswersInv'
  <2>1. CASE at \in {"polls", "modal"}
    <3>1. before' = cursor
      BY <1>3, <1>5, <2>1, MoveTypes
    <3> QED
      BY <1>1, <1>2, <1>3, <1>4, <1>5, <2>1, <3>1, MoveAnswers
  <2>2. CASE at \notin {"polls", "modal"}
    <3>1. before' = cursor
      BY <1>5, <2>2 DEF Load
    <3> QED
      BY <1>1, <1>2, <1>3, <1>4, <1>5, <2>2, <3>1, LoadAnswers
  <2> QED
    BY <2>1, <2>2
<1>9. WalkInv'
  BY <1>1, <1>4, <1>8, WalkFrom
<1>10. StackInv'
  <2>1. CASE at = "polls"
    <3>1. /\ Front(stack) = <<>> <=> Last(stack) = 0
          /\ \A i \in 1..Len(Front(stack)) : Front(stack)[i] = 0 <=> i = 1
      BY <1>1, <1>2, <2>1, PopFits DEF ListInv, StackInv
    <3> QED
      BY <1>1, <1>6, <1>8, <2>1, <3>1 DEF StackInv
  <2>2. CASE at # "polls"
    <3>1. (\A i \in 1..Len(stack) : stack[i] # 0)
             => \A i \in 1..Len(stack') : stack'[i] # 0
      BY <1>1, <1>2, PopFits
    <3>2. Top(stack)' = Top(stack')
      BY DEF Top
    <3> QED
      BY <1>1, <1>7, <1>8, <2>2, <3>1, <3>2 DEF ListInv, StackInv
  <2> QED
    BY <2>1, <2>2
<1> QED
  BY <1>8, <1>9, <1>10 DEF ListInv

LEMMA RemoveClickStep ==
    ASSUME ListConstants, ListTypeOK, ListTypeOK', ListInv, Onward,
           NEW row \in Places, ClickRemove(row)
    PROVE  ListInv'
<1>1. /\ page # Null /\ at = "members"
      /\ removing' = [row |-> row, page |-> page, stack |-> stack]
      /\ UNCHANGED <<at, mounted, rows, account, filter, before, stack, page, requests,
                     adding, loads, seen, steady, strayed>>
  BY DEF ClickRemove, Editable, place
<1>2. page \in AnswerType /\ Displayed(page) /\ mounted
  BY <1>1 DEF ListTypeOK, ListInv, AnswersInv, StackInv
<1>3. AnswersInv'
  <2>1. Displayed(page)' /\ removing'.page = page' /\ at' = "members"
    BY <1>1, <1>2, SoundStays
  <2>2. \A x \in requests' : Sound(x)'
    BY <1>1, SoundStays DEF ListInv, AnswersInv, ListTypeOK
  <2>3. adding' # Null => Displayed(adding)'
    <3>1. adding # Null => adding \in AnswerType
      BY DEF ListTypeOK
    <3> QED
      BY <1>1, <3>1, SoundStays DEF ListInv, AnswersInv
  <2>4. Displayed(removing.page)'
    BY <2>1
  <2> QED
    BY <2>1, <2>2, <2>3, <2>4 DEF AnswersInv
<1>4. WalkInv'
  BY <1>1, WalkStays DEF ListInv
<1>5. StackInv'
  BY <1>1, <1>2 DEF ListInv, StackInv
<1> QED
  BY <1>3, <1>4, <1>5 DEF ListInv

\* A page with a member more is as whole as before: it had room only where
\* nothing followed.
LEMMA MemberWhole ==
    ASSUME ListConstants, NEW r \in AnswerType, NEW row \in Places, Whole(r)
    PROVE  /\ Whole(WithMember(r, row))
           /\ WithMember(r, row) \in AnswerType
           /\ WithMember(r, row).of = r.of
           /\ WithMember(r, row).items \subseteq r.items \union {row}
<1> DEFINE w == WithMember(r, row)
<1>1. w \in AnswerType
  BY DEF WithMember, AnswerType
<1>2. Cardinality(r.items) \in Nat /\ LIMIT \in Nat
  <2>1. r.items \in SUBSET Places /\ IsFiniteSet(Places)
    BY DEF AnswerType, ListConstants
  <2> QED
    BY <2>1, FS_Subset, FS_CardinalityType DEF ListConstants
<1>3. CASE Cardinality(r.items) < LIMIT
  <2>1. w.items = r.items \union {row} /\ w.more = r.more /\ w.of = r.of
    BY <1>3 DEF WithMember, AnswerType
  <2>2. ~r.more
    BY <1>2, <1>3 DEF Whole
  <2> HIDE DEF w
  <2>3. Whole(w)
    BY <2>1, <2>2 DEF Whole
  <2> QED
    BY <1>1, <2>1, <2>3 DEF w
<1>4. CASE ~(Cardinality(r.items) < LIMIT)
  <2>1. w.items = r.items /\ w.more = TRUE /\ w.of = r.of
    BY <1>4 DEF WithMember, AnswerType
  <2>2. LIMIT <= Cardinality(r.items)
    BY <1>2, <1>4
  <2> HIDE DEF w
  <2>3. Whole(w)
    BY <2>1, <2>2 DEF Whole
  <2> QED
    BY <1>1, <2>1, <2>3 DEF w
<1> QED
  BY <1>3, <1>4

LEMMA AddedStep ==
    ASSUME ListConstants, ListTypeOK, ListTypeOK', ListInv, Onward,
           NEW row \in Places, Added(row)
    PROVE  ListInv'
<1> DEFINE w == WithMember(adding, row)
<1>1. /\ adding # Null /\ adding' = Null
      /\ UNCHANGED <<at, mounted, account, filter, before, stack, requests, loads, steady>>
  BY DEF Added, place
<1>2. /\ adding \in AnswerType /\ Displayed(adding) /\ at = "members" /\ mounted
  BY <1>1 DEF ListTypeOK, ListInv, AnswersInv, StackInv
<1>3. CASE w = adding
  <2>1. UNCHANGED <<page, removing, strayed>>
    BY <1>3 DEF Added
  <2> QED
    BY <1>1, <2>1, QuietStep
<1>4. CASE w # adding
  <2>1. /\ page' = w
        /\ removing' = IF removing # Null /\ removing.page = adding
                       THEN [removing EXCEPT !.page = page'] ELSE removing
        /\ seen' = seen \union Shown(adding.of, {row})
    BY <1>4 DEF Added
  <2>2. strayed => strayed'
    BY DEF Onward
  <2>3. /\ Whole(w) /\ w \in AnswerType /\ w.of = adding.of
        /\ w.items \subseteq adding.items \union {row}
    BY <1>2, MemberWhole DEF Displayed, Sound
  <2>4. PICK r : r = w
    OBVIOUS
  <2> HIDE DEF w
  <2>5. Sound(r)
    BY <1>2, <2>3, <2>4 DEF Displayed, Sound, Fresh
  <2>6. Sound(r)'
    BY <2>3, <2>4, <2>5, SoundStays
  <2>7. Shown(r.of, r.items) \subseteq seen'
    <3>1. Shown(r.of, r.items)
             \subseteq Shown(adding.of, adding.items) \union Shown(adding.of, {row})
      BY <2>3, <2>4 DEF Shown
    <3> QED
      BY <1>2, <2>1, <3>1 DEF Displayed
  <2>8. Shown(r.of, r.items)' = Shown(r.of, r.items)
    BY DEF Shown
  <2>9. Displayed(r)'
    BY <2>6, <2>7, <2>8 DEF Displayed
  <2>10. AnswersInv'
    <3>1. \A x \in requests' : Sound(x)'
      BY <1>1, SoundStays DEF ListInv, AnswersInv, ListTypeOK
    <3>2. Displayed(page)'
      BY <2>1, <2>4, <2>9
    <3>3. removing' # Null => Displayed(removing.page)'
      <4>1. CASE removing # Null /\ removing.page = adding
        <5>1. removing \in RemovalType
          BY <4>1 DEF ListTypeOK
        <5>2. removing'.page = page'
          BY <2>1, <4>1, <5>1 DEF RemovalType
        <5> QED
          BY <3>2, <5>2
      <4>2. CASE ~(removing # Null /\ removing.page = adding)
        <5>1. removing' = removing
          BY <2>1, <4>2
        <5>2. removing # Null => removing.page \in AnswerType
          BY DEF ListTypeOK, RemovalType
        <5> QED
          BY <5>1, <5>2, SoundStays DEF ListInv, AnswersInv
      <4> QED
        BY <4>1, <4>2
    <3> QED
      BY <1>1, <1>2, <3>1, <3>2, <3>3 DEF AnswersInv
  <2>11. WalkInv'
    BY <1>1, WalkStays DEF ListInv
  <2>12. StackInv'
    BY <1>1, <1>2, <2>2 DEF ListInv, StackInv
  <2> QED
    BY <2>10, <2>11, <2>12 DEF ListInv
<1> QED
  BY <1>3, <1>4

LEMMA RemovedStep ==
    ASSUME ListConstants, ListTypeOK, ListTypeOK', ListInv, Onward, MemberRemoved
    PROVE  ListInv'
<1> DEFINE stays == removing.page.items # {removing.row}
           cursor == Top(IF stays THEN removing.stack ELSE stack')
<1>1. /\ removing # Null /\ removing' = Null
      /\ stack' = IF stays THEN stack
                  ELSE IF removing.stack = <<>> THEN <<>> ELSE Front(removing.stack)
      /\ Load(cursor, Creator, filter, rows', page)
      /\ UNCHANGED <<at, mounted, account, filter, adding, seen>>
  BY DEF MemberRemoved, place
<1>2. ~strayed' => ~strayed /\ stack = removing.stack /\ account = Creator
  BY Zenon DEF MemberRemoved
<1>3. at = "members" /\ mounted /\ removing.stack \in Seq(Nat)
  BY <1>1 DEF ListInv, AnswersInv, StackInv, ListTypeOK, RemovalType
<1>4. /\ Creator \in Accounts /\ filter \in Filters
      /\ page \in {page, Null} /\ stack \in Seq(Nat) /\ stack' \in Seq(Nat)
      /\ rows' \in SUBSET Places /\ steady' \subseteq rows' /\ AnswersInv
  BY DEF ListTypeOK, ListInv, ListConstants
<1>5. cursor \in Nat
  BY <1>3, <1>4, TopType
<1>6. ASSUME ~strayed'
      PROVE  /\ SeenNext(cursor, account, filter)
             /\ \A i \in 1..Len(stack') : SeenNext(stack'[i], account, filter)
             /\ cursor = Top(stack')
             /\ \A i \in 1..Len(stack') : stack'[i] # 0
  <2>1. /\ ~strayed /\ stack = removing.stack
        /\ \A i \in 1..Len(stack) : stack[i] # 0
    BY <1>2, <1>3, <1>6 DEF ListInv, StackInv
  <2>2. /\ SeenNext(Top(stack), account, filter)
        /\ \A i \in 1..Len(stack) : SeenNext(stack[i], account, filter)
        /\ stack # <<>>
             => /\ SeenNext(Top(Front(stack)), account, filter)
                /\ \A i \in 1..Len(Front(stack)) :
                      SeenNext(Front(stack)[i], account, filter)
    BY <2>1, StackSeen
  <2>3. CASE stays
    <3>1. stack' = stack /\ cursor = Top(stack)
      BY <1>1, <2>1, <2>3
    <3> HIDE DEF cursor, stays
    <3> QED
      BY <2>1, <2>2, <3>1
  <2>4. CASE ~stays /\ stack = <<>>
    <3>1. stack' = <<>> /\ cursor = Top(stack') /\ Top(stack) = Top(stack')
      BY <1>1, <2>1, <2>4
    <3>2. 1..Len(stack') = {}
      BY <3>1
    <3> HIDE DEF cursor, stays
    <3> QED
      BY <2>2, <3>1, <3>2
  <2>5. CASE ~stays /\ stack # <<>>
    <3>1. stack' = Front(stack) /\ cursor = Top(stack')
      BY <1>1, <2>1, <2>5
    <3> HIDE DEF cursor, stays
    <3>2. \A i \in 1..Len(stack') : stack'[i] # 0
      BY <1>4, <2>1, <2>5, <3>1, PopFits
    <3> QED
      BY <2>2, <2>5, <3>1, <3>2
  <2> QED
    BY <2>3, <2>4, <2>5
<1> HIDE DEF cursor, stays
<1>7. before' = cursor
  BY <1>1 DEF Load
<1>8. AnswersInv'
  BY <1>1, <1>2, <1>4, <1>5, <1>6, LoadAnswers, Zenon
<1>9. WalkInv'
  BY <1>1, <1>6, <1>7, WalkFrom
<1>10. StackInv'
  <2>1. Top(stack)' = Top(stack')
    BY DEF Top
  <2> QED
    BY <1>1, <1>3, <1>6, <1>7, <2>1 DEF StackInv
<1> QED
  BY <1>8, <1>9, <1>10 DEF ListInv

LEMMA ListInvStep ==
    ASSUME ListConstants, ListInv, [ListNext]_listVars
    PROVE  ListInv'
<1> USE DEF place, handlers
<1>0. ListTypeOK /\ ListTypeOK' /\ Onward
  BY ListTypeStep, StepOnward DEF ListInv
<1>1. CASE Mount
  BY <1>0, <1>1, MountStep
<1>2. ASSUME NEW p \in Places, Appear(p) \/ Vanish(p) PROVE ListInv'
  BY <1>0, <1>2, QuietStep DEF Appear, Vanish
<1>3. ASSUME NEW r \in requests, Deliver(r) PROVE ListInv'
  BY <1>0, <1>3, DeliverStep
<1>4. ASSUME NEW r \in requests, Fail(r) PROVE ListInv'
  BY <1>0, <1>4, QuietStep DEF Fail
<1>5. ASSUME NEW f \in Filters, SetFilter(f) PROVE ListInv'
  BY <1>0, <1>5, FilterStep
<1>6. ASSUME NEW a \in Accounts \union {NoAccount}, SwitchAccount(a) PROVE ListInv'
  BY <1>0, <1>6, SwitchStep
<1>7. CASE Next
  BY <1>0, <1>7, NextStep
<1>8. CASE Prev
  BY <1>0, <1>8, PrevStep
<1>9. CASE ClickAdd
  <2>1. /\ at = "members" /\ page # Null /\ adding' = page
        /\ UNCHANGED <<place, account, filter, before, stack, page, requests,
                       removing, loads, seen, steady, strayed>>
    BY <1>9 DEF ClickAdd, Editable
  <2>2. page \in AnswerType /\ Displayed(page) /\ mounted
    BY <1>0, <2>1 DEF ListTypeOK, ListInv, AnswersInv, StackInv
  <2>3. AnswersInv'
    <3>1. Displayed(page)' /\ adding' = page'
      BY <1>0, <2>1, <2>2, SoundStays
    <3>2. Displayed(adding)'
      BY <3>1
    <3>3. \A x \in requests' : Sound(x)'
      BY <1>0, <2>1, SoundStays DEF ListInv, AnswersInv, ListTypeOK
    <3>4. removing' # Null => Displayed(removing.page)'
      <4>1. removing # Null => removing.page \in AnswerType
        BY <1>0 DEF ListTypeOK, RemovalType
      <4> QED
        BY <1>0, <2>1, <4>1, SoundStays DEF ListInv, AnswersInv
    <3> QED
      BY <2>1, <3>1, <3>2, <3>3, <3>4 DEF AnswersInv
  <2>4. WalkInv'
    BY <1>0, <2>1, WalkStays DEF ListInv
  <2>5. StackInv'
    BY <2>1, <2>2 DEF ListInv, StackInv
  <2> QED
    BY <1>0, <2>3, <2>4, <2>5 DEF ListInv
<1>10. ASSUME NEW row \in Places, Added(row) PROVE ListInv'
  BY <1>0, <1>10, AddedStep
<1>11. ASSUME NEW row \in Places, ClickRemove(row) PROVE ListInv'
  BY <1>0, <1>11, RemoveClickStep
<1>12. CASE MemberRemoved
  BY <1>0, <1>12, RemovedStep
<1>13. CASE HandlerFails
  BY <1>0, <1>13, QuietStep DEF HandlerFails
<1>14. CASE UNCHANGED listVars
  BY <1>0, <1>14, QuietStep DEF listVars
<1> QED
  BY <1>1, <1>2, <1>3, <1>4, <1>5, <1>6, <1>7, <1>8, <1>9, <1>10, <1>11, <1>12,
     <1>13, <1>14
  DEF ListNext

LEMMA ListInvInit ==
    ASSUME ListConstants, ListInit
    PROVE  ListInv
<1> USE DEF ListInit
<1>1. 1..Len(stack) = {} /\ stack \in Seq(Nat) /\ before = 0 /\ Top(stack) = 0
  BY DEF Top
<1>2. ListTypeOK
  <2>1. at \in ListKinds /\ mounted \in BOOLEAN /\ strayed \in BOOLEAN
    OBVIOUS
  <2>2. rows \subseteq Places /\ steady \subseteq rows
    OBVIOUS
  <2>3. account \in Accounts \union {NoAccount} /\ filter \in Filters
    BY DEF ListConstants
  <2>4. /\ page = Null /\ requests = {} /\ adding = Null /\ removing = Null
        /\ loads = 0 /\ before = 0
    OBVIOUS
  <2> QED
    BY <1>1, <2>1, <2>2, <2>3, <2>4 DEF ListTypeOK
<1>3. AnswersInv
  BY DEF AnswersInv
<1>4. StackInv
  BY <1>1 DEF StackInv
<1>5. WalkInv
  <2>1. \A p \in steady : p \in Nat \ {0}
    BY DEF ListConstants
  <2>2. \A p \in steady : ~(p <= 0)
    BY <2>1
  <2> QED
    BY <1>1, <2>2 DEF WalkInv, SeenUpTo
<1> QED
  BY <1>2, <1>3, <1>4, <1>5 DEF ListInv

\* The pages keep track of what they stand at (load, next, prev, reset).
THEOREM ListInvHolds == ListSpec => []ListInv
<1>1. ListInit => ListInv
  BY ListConstants, ListInvInit
<1>2. ListInv /\ [ListNext]_listVars => ListInv'
  BY ListConstants, ListInvStep
<1> QED
  BY <1>1, <1>2, PTL DEF ListSpec

\* The page for the last request is the one that the cursor is at.
LEMMA SettledFresh ==
    ASSUME ListInv, Settled, ~strayed
    PROVE  /\ page.of.cursor = before /\ page.of.account = account
           /\ page.of.filter = filter /\ Displayed(page)
  BY DEF ListInv, AnswersInv, Displayed, Sound, Fresh, Settled

\* In whatever order answers come, "previous" is disabled on the first page
\* only, and the page shown in the end is the one for the stack, the account
\* and the filter (load, reset, next, prev).
THEOREM ButtonsAlwaysFit == ListSpec => []ButtonsFitPage
<1>1. ASSUME ListInv PROVE ButtonsFitPage
  <2>1. at \in ListKinds /\ stack \in Seq(Nat)
    BY <1>1 DEF ListInv, ListTypeOK
  <2>2. before = Top(stack) /\ (\A i \in 1..Len(stack) : stack[i] # 0)
          => (stack = <<>> <=> before = 0)
    <3>1. stack # <<>> => Len(stack) \in 1..Len(stack) /\ Top(stack) = stack[Len(stack)]
      BY <2>1, TopType
    <3>2. stack = <<>> => Top(stack) = 0
      BY <2>1, TopType
    <3> QED
      BY <3>1, <3>2
  <2>3. at # "members" => (stack = <<>> <=> before = 0)
    BY <1>1, <2>1, <2>2 DEF ListInv, StackInv, ListKinds
  <2>4. ~strayed => (stack = <<>> <=> before = 0)
    BY <1>1, <2>1, <2>2, <2>3 DEF ListInv, StackInv, ListKinds
  <2> QED
    BY <1>1, <2>3, <2>4, SettledFresh DEF ButtonsFitPage
<1> QED
  BY <1>1, ListInvHolds, PTL

\* No row that was there all the time is passed over unseen, wherever the
\* buttons lead (next_before and after, LIMIT + 1, onNext, onPrev).
THEOREM NothingIsSkipped == ListSpec => []NothingSkipped
<1>1. ASSUME ListInv PROVE NothingSkipped
  <2> SUFFICES ASSUME ~strayed, NEW p \in steady \intersect Visible \intersect Passed
               PROVE  <<<<account, filter>>, p>> \in seen
    BY DEF NothingSkipped
  <2>1. p \in steady \intersect VisibleTo(account, filter) /\ p \in Nat /\ before \in Nat
    <3>1. Visible = VisibleTo(account, filter)
      BY DEF Visible, VisibleTo
    <3>2. p \in Places /\ Places \subseteq Nat
      BY ListConstants DEF Passed, ListConstants
    <3> QED
      BY <1>1, <3>1, <3>2 DEF ListInv, ListTypeOK
  <2>2. CASE p <= before
    BY <1>1, <2>1, <2>2 DEF ListInv, WalkInv, SeenUpTo
  <2>3. CASE ~(p <= before)
    <3>1. Settled /\ ~page.more
      BY <2>3 DEF Passed
    <3>2. /\ page.of.cursor = before /\ page.of.account = account
          /\ page.of.filter = filter /\ Displayed(page)
      BY <1>1, <3>1, SettledFresh
    <3>3. p > before
      BY <2>1, <2>3
    <3>4. p \in page.items
      BY <2>1, <3>1, <3>2, <3>3 DEF Displayed, Sound, Whole
    <3>5. <<<<account, filter>>, p>> \in Shown(page.of, page.items)
      BY <3>2, <3>4 DEF Shown
    <3> QED
      BY <3>2, <3>5 DEF Displayed
  <2> QED
    BY <2>2, <2>3
<1> QED
  BY <1>1, ListInvHolds, PTL
=============================================================================
