---------------------------- MODULE KeystoreProof ----------------------------
(***************************************************************************)
(* Proofs about Keystore for one store per file, for every number of       *)
(* names, URLs, keys and failed writes.                                    *)
(***************************************************************************)
EXTENDS Keystore, FiniteSetTheorems, TLAPS

\* One oufdee process: what ClaimFlock.cfg shows to be needed.
OneStore == \A a, b \in Stores : a = b

Sound(state) == WellFormed(state) /\ IsFiniteSet(state.keys)

\* The inductive invariant: memory holds the keys of the file, and both are
\* sound; as long as no write has failed the active key is a stored one.
KeyInv ==
    /\ KeyTypeOK /\ AckedIsDurable /\ ActiveStoredUnlessFault
    /\ disk # NoFile => Sound(disk)
    /\ \A st \in Stores : IsOpen(st) => Sound(mem[st]) /\ mem[st].keys = KeysOnDisk

-----------------------------------------------------------------------------
\* What every operation owes to Commit: the new state is sound, its keys are the old
\* ones without those in gone and with those in come, the rollback restores the keys, and
\* the active key of the new state is a stored one if it was before.
LEMMA CommitInv ==
    ASSUME OneStore, KeyInv, NEW st \in Stores, IsOpen(st),
           NEW new \in FileState, NEW rolledBack \in FileState,
           NEW gone \in SUBSET Key, NEW come \in SUBSET Key,
           Sound(new), new.keys = (mem[st].keys \ gone) \cup come,
           rolledBack.keys = mem[st].keys, ActiveStored(mem[st]) => ActiveStored(new),
           Commit(st, new, rolledBack, gone, come)
    PROVE  KeyInv'
<1> USE DEF KeyInv
<1>1. mem \in [Stores -> FileState \cup {Closed}] /\ writeFaults \in 0 .. MaxWriteFaults
  BY DEF KeyTypeOK
<1>2. new # NoFile /\ new # Closed /\ rolledBack # Closed
  BY FileStateAssumption
<1>3. new.keys = (KeysOnDisk \ gone) \cup come
  OBVIOUS
<1>4. CASE /\ mem' = [mem EXCEPT ![st] = new] /\ disk' = new
           /\ acked' = (acked \ gone) \cup come /\ doubt' = doubt \ (gone \cup come)
           /\ UNCHANGED writeFaults
  <2>1. KeyTypeOK'
    BY <1>1, <1>4 DEF KeyTypeOK
  <2>2. AckedIsDurable'
    BY <1>2, <1>3, <1>4 DEF AckedIsDurable, KeysOnDisk
  <2>3. \A t \in Stores : mem'[t] = new
    BY <1>1, <1>4 DEF OneStore
  <2>4. writeFaults = MaxWriteFaults => ActiveStored(new)
    BY DEF ActiveStoredUnlessFault
  <2>5. ActiveStoredUnlessFault'
    BY <1>4, <2>3, <2>4 DEF ActiveStoredUnlessFault, ActiveStored, NamesOf
  <2> QED BY <1>2, <1>4, <2>1, <2>2, <2>3, <2>5 DEF KeysOnDisk, Sound, WellFormed
<1>5. CASE /\ writeFaults > 0 /\ writeFaults' = writeFaults - 1
           /\ mem' = [mem EXCEPT ![st] = rolledBack] /\ UNCHANGED <<disk, acked, doubt>>
  <2>1. KeyTypeOK'
    BY <1>1, <1>5, MaxWriteFaultsAssumption DEF KeyTypeOK
  <2>2. AckedIsDurable'
    BY <1>5 DEF AckedIsDurable, KeysOnDisk
  <2>3. \A t \in Stores : mem'[t] = rolledBack
    BY <1>1, <1>5 DEF OneStore
  <2>4. ActiveStoredUnlessFault'
    BY <1>1, <1>5, MaxWriteFaultsAssumption DEF ActiveStoredUnlessFault
  <2> QED BY <1>5, <2>1, <2>2, <2>3, <2>4 DEF KeysOnDisk, Sound, WellFormed
<1>6. CASE /\ mem' = [mem EXCEPT ![st] = Closed] /\ disk' = new
           /\ doubt' = doubt \cup gone \cup come /\ UNCHANGED <<acked, writeFaults>>
  <2>1. KeyTypeOK'
    BY <1>1, <1>6 DEF KeyTypeOK
  <2>2. AckedIsDurable'
    BY <1>2, <1>3, <1>6 DEF AckedIsDurable, KeysOnDisk
  <2>3. \A t \in Stores : mem'[t] = Closed
    BY <1>1, <1>6 DEF OneStore
  <2>4. writeFaults = MaxWriteFaults => ActiveStored(new)
    BY DEF ActiveStoredUnlessFault
  <2>5. ActiveStoredUnlessFault'
    BY <1>6, <2>3, <2>4 DEF ActiveStoredUnlessFault, ActiveStored, NamesOf, IsOpen
  <2> QED BY <1>2, <1>6, <2>1, <2>2, <2>3, <2>5 DEF IsOpen, Sound, WellFormed
<1> QED BY <1>4, <1>5, <1>6 DEF Commit

\* Open reads the keys of the file.
LEMMA OpenInv ==
    ASSUME OneStore, KeyInv, NEW st \in Stores, Open(st)
    PROVE  KeyInv'
<1> USE DEF KeyInv, Open
<1> DEFINE read == IF disk = NoFile THEN Empty ELSE disk
<1>1. read \in FileState /\ read.keys = KeysOnDisk
  BY DEF KeyTypeOK, Empty, FileState, KeysOnDisk
<1>2. KeyTypeOK'
  BY <1>1 DEF KeyTypeOK
<1>3. \A t \in Stores : mem'[t] = read
  BY DEF OneStore, KeyTypeOK
<1>4. Sound(Empty)
  BY FS_EmptySet, MaxKeysAssumption DEF Sound, WellFormed, Empty
<1>5. ActiveStored(Empty)
  BY DEF ActiveStored, Empty
<1>6. ActiveStoredUnlessFault'
  BY <1>3, <1>5 DEF ActiveStoredUnlessFault, ActiveStored, NamesOf
<1>7. AckedIsDurable'
  BY DEF AckedIsDurable, KeysOnDisk
<1> QED BY <1>1, <1>2, <1>3, <1>4, <1>6, <1>7 DEF KeysOnDisk, Sound, WellFormed

\* A process that ends takes only its memory along.
LEMMA QuitInv ==
    ASSUME OneStore, KeyInv, NEW st \in Stores, Quit(st)
    PROVE  KeyInv'
<1> USE DEF KeyInv, Quit
<1>1. \A t \in Stores : mem'[t] = Closed
  BY DEF OneStore, KeyTypeOK
<1>2. KeyTypeOK' /\ AckedIsDurable' /\ ActiveStoredUnlessFault'
  BY <1>1 DEF KeyTypeOK, AckedIsDurable, KeysOnDisk, ActiveStoredUnlessFault, IsOpen
<1> QED BY <1>1, <1>2 DEF IsOpen, Sound, WellFormed

\* Add keeps names and URLs unique and respects the bound.
LEMMA AddInv ==
    ASSUME OneStore, KeyInv, NEW st \in Stores, NEW url \in Urls, NEW name \in Names,
           Add(st, url, name)
    PROVE  KeyInv'
<1> DEFINE old  == mem[st]
           k    == [name |-> name, url |-> url]
           new  == [keys   |-> old.keys \cup {k},
                    active |-> IF old.active = NoName THEN name ELSE old.active]
           back == [keys |-> old.keys, active |-> IF old.keys = {} THEN NoName ELSE new.active]
<1>1. /\ IsOpen(st) /\ Cardinality(old.keys) < MaxKeys
      /\ \A q \in old.keys : q.url # url /\ q.name # name
      /\ Commit(st, new, back, {}, {k})
  BY DEF Add
<1>2. old \in FileState /\ Sound(old)
  BY <1>1 DEF KeyInv, KeyTypeOK, IsOpen
<1>3. k \in Key /\ new \in FileState /\ back \in FileState
  BY <1>2 DEF FileState, Key
<1>4. Sound(new)
  <2>1. Cardinality(old.keys) \in Nat
    BY <1>2, FS_CardinalityType DEF Sound
  <2>2. IsFiniteSet(new.keys) /\ Cardinality(new.keys) <= Cardinality(old.keys) + 1
    <3>1. IsFiniteSet(old.keys) /\ new.keys = old.keys \cup {k}
      BY <1>2 DEF Sound
    <3> HIDE DEF new, k
    <3>2. /\ IsFiniteSet(old.keys \cup {k})
          /\ \/ Cardinality(old.keys \cup {k}) = Cardinality(old.keys)
             \/ Cardinality(old.keys \cup {k}) = Cardinality(old.keys) + 1
      BY <3>1, FS_AddElement
    <3> QED BY <2>1, <3>1, <3>2
  <2>3. Cardinality(new.keys) \in Nat
    BY <2>2, FS_CardinalityType
  <2>4. Cardinality(new.keys) <= MaxKeys
    BY <1>1, <2>1, <2>2, <2>3, MaxKeysAssumption
  <2>5. \A i, j \in new.keys : i.name = j.name \/ i.url = j.url => i = j
    BY <1>1, <1>2 DEF Sound, WellFormed
  <2> QED BY <2>2, <2>4, <2>5 DEF Sound, WellFormed
<1>5. ActiveStored(old) => ActiveStored(new)
  <2>1. new.keys = old.keys \cup {k} /\ k.name = name
    OBVIOUS
  <2>2. NamesOf(old.keys) \subseteq NamesOf(new.keys) /\ name \in NamesOf(new.keys)
    <3> HIDE DEF old, new, k
    <3> QED BY <2>1 DEF NamesOf
  <2>3. new.active = IF old.active = NoName THEN name ELSE old.active
    OBVIOUS
  <2> HIDE DEF new
  <2> QED BY <2>2, <2>3 DEF ActiveStored
<1>6. new.keys = (old.keys \ {}) \cup {k} /\ back.keys = old.keys
  OBVIOUS
<1>7. {} \in SUBSET Key /\ {k} \in SUBSET Key
  BY <1>3
<1> HIDE DEF new, back, k
<1> QED BY <1>1, <1>3, <1>4, <1>5, <1>6, <1>7, CommitInv

\* Remove clears Active with the key.
LEMMA RemoveInv ==
    ASSUME OneStore, KeyInv, NEW st \in Stores, NEW k \in Key, Remove(st, k)
    PROVE  KeyInv'
<1> DEFINE old == mem[st]
           new == [keys   |-> old.keys \ {k},
                   active |-> IF old.active = k.name THEN NoName ELSE old.active]
<1>1. IsOpen(st) /\ k \in old.keys /\ Commit(st, new, old, {k}, {})
  BY DEF Remove
<1>2. old \in FileState /\ Sound(old)
  BY <1>1 DEF KeyInv, KeyTypeOK, IsOpen
<1>3. new \in FileState
  BY <1>2 DEF FileState
<1>4. Sound(new)
  <2>1. IsFiniteSet(new.keys) /\ Cardinality(new.keys) <= Cardinality(old.keys)
    BY <1>2, FS_Subset, new.keys \subseteq old.keys DEF Sound
  <2>2. Cardinality(old.keys) \in Nat /\ Cardinality(new.keys) \in Nat
    BY <1>2, <2>1, FS_CardinalityType DEF Sound
  <2> QED BY <1>2, <2>1, <2>2, MaxKeysAssumption DEF Sound, WellFormed
<1>5. ActiveStored(old) => ActiveStored(new)
  BY DEF ActiveStored, NamesOf
<1>6. new.keys = (old.keys \ {k}) \cup {} /\ {k} \in SUBSET Key /\ {} \in SUBSET Key
  OBVIOUS
<1> HIDE DEF new
<1> QED BY <1>1, <1>2, <1>3, <1>4, <1>5, <1>6, CommitInv

\* Rename keeps names unique and Active follows.
LEMMA RenameInv ==
    ASSUME OneStore, KeyInv, NEW st \in Stores, NEW k \in Key, NEW newName \in Names,
           Rename(st, k, newName)
    PROVE  KeyInv'
<1> DEFINE old     == mem[st]
           renamed == [k EXCEPT !.name = newName]
           new     == [keys   |-> (old.keys \ {k}) \cup {renamed},
                       active |-> IF old.active = k.name THEN newName ELSE old.active]
<1>1. /\ IsOpen(st) /\ k \in old.keys /\ newName \notin NamesOf(old.keys)
      /\ Commit(st, new, old, {k}, {renamed})
  BY DEF Rename
<1>2. old \in FileState /\ Sound(old)
  BY <1>1 DEF KeyInv, KeyTypeOK, IsOpen
<1>3. /\ renamed \in Key /\ renamed.name = newName /\ renamed.url = k.url
      /\ new \in FileState
  BY <1>2 DEF FileState, Key
<1>4. Sound(new)
  <2>1. /\ IsFiniteSet(old.keys \ {k})
        /\ Cardinality(old.keys \ {k}) = Cardinality(old.keys) - 1
    BY <1>1, <1>2, FS_RemoveElement DEF Sound
  <2>2. /\ IsFiniteSet(new.keys)
        /\ Cardinality(new.keys) <= Cardinality(old.keys \ {k}) + 1
    <3>1. new.keys = (old.keys \ {k}) \cup {renamed}
      OBVIOUS
    <3> HIDE DEF new, renamed
    <3>2. /\ IsFiniteSet((old.keys \ {k}) \cup {renamed})
          /\ \/ Cardinality((old.keys \ {k}) \cup {renamed}) = Cardinality(old.keys \ {k})
             \/ Cardinality((old.keys \ {k}) \cup {renamed}) = Cardinality(old.keys \ {k}) + 1
      BY <2>1, FS_AddElement
    <3>3. Cardinality(old.keys \ {k}) \in Nat
      BY <2>1, FS_CardinalityType
    <3> QED BY <3>1, <3>2, <3>3
  <2>3. /\ Cardinality(old.keys) \in Nat /\ Cardinality(new.keys) \in Nat
        /\ Cardinality(old.keys \ {k}) \in Nat
    BY <1>2, <2>1, <2>2, FS_CardinalityType DEF Sound
  <2>4. Cardinality(new.keys) <= MaxKeys
    BY <1>2, <2>1, <2>2, <2>3, MaxKeysAssumption DEF Sound, WellFormed
  <2>5. \A q \in old.keys \ {k} : q.name # newName /\ q.url # k.url
    BY <1>1, <1>2 DEF Sound, WellFormed, NamesOf
  <2>6. \A i, j \in new.keys : i.name = j.name \/ i.url = j.url => i = j
    <3>1. \A i \in new.keys : i = renamed \/ i \in old.keys \ {k}
      OBVIOUS
    <3>2. \A i, j \in old.keys \ {k} : i.name = j.name \/ i.url = j.url => i = j
      BY <1>2 DEF Sound, WellFormed
    <3> HIDE DEF new, renamed
    <3> QED BY <1>3, <2>5, <3>1, <3>2
  <2> QED BY <2>2, <2>4, <2>6 DEF Sound, WellFormed
<1>5. ActiveStored(old) => ActiveStored(new)
  BY <1>3 DEF ActiveStored, NamesOf
<1>6. /\ new.keys = (old.keys \ {k}) \cup {renamed}
      /\ {k} \in SUBSET Key /\ {renamed} \in SUBSET Key
  BY <1>3
<1> HIDE DEF new, renamed
<1> QED BY <1>1, <1>2, <1>3, <1>4, <1>5, <1>6, CommitInv

\* Use and MarkConnected name a stored key.
LEMMA UseInv ==
    ASSUME OneStore, KeyInv, NEW st \in Stores, NEW k \in Key, SetActive(st, k)
    PROVE  KeyInv'
<1> DEFINE old == mem[st]
           new == [old EXCEPT !.active = k.name]
<1>1. IsOpen(st) /\ k \in old.keys /\ Commit(st, new, old, {}, {})
  BY DEF SetActive
<1>2. old \in FileState /\ Sound(old)
  BY <1>1 DEF KeyInv, KeyTypeOK, IsOpen
<1>3. new \in FileState /\ new.keys = old.keys /\ new.active = k.name
  BY <1>2 DEF FileState, Key
<1>4. Sound(new) /\ ActiveStored(new)
  BY <1>1, <1>2, <1>3 DEF Sound, WellFormed, ActiveStored, NamesOf
<1>5. new.keys = (old.keys \ {}) \cup {} /\ {} \in SUBSET Key
  BY <1>3
<1> HIDE DEF new
<1> QED BY <1>1, <1>2, <1>3, <1>4, <1>5, CommitInv

-----------------------------------------------------------------------------
\* With one daemon per keys.json the invariant holds, whatever operations,
\* failed writes and restarts happen.
THEOREM KeyInvariance == ASSUME OneStore PROVE KeySpec => []KeyInv
<1>1. KeyInit => KeyInv
  BY FileStateAssumption, MaxWriteFaultsAssumption
  DEF KeyInit, KeyInv, KeyTypeOK, AckedIsDurable, KeysOnDisk, ActiveStoredUnlessFault, IsOpen
<1>2. KeyInv /\ [KeyNext]_keyVars => KeyInv'
  <2> SUFFICES ASSUME KeyInv, [KeyNext]_keyVars PROVE KeyInv'
    OBVIOUS
  <2>1. CASE KeyNext
    BY <2>1, OpenInv, QuitInv, AddInv, RemoveInv, RenameInv, UseInv
    DEF KeyNext, Use, MarkConnected
  <2>2. CASE UNCHANGED keyVars
    BY <2>2 DEF keyVars, KeyInv, KeyTypeOK, AckedIsDurable, KeysOnDisk, IsOpen,
       ActiveStoredUnlessFault, ActiveStored, Sound, WellFormed
  <2> QED BY <2>1, <2>2
<1> QED BY <1>1, <1>2, PTL DEF KeySpec

\* Memory, file, history and fault counter keep their types: no operation, failed
\* write or restart puts anything else in them (Store.state and persist).
THEOREM KeyTypeCorrect == ASSUME OneStore PROVE KeySpec => []KeyTypeOK
<1>1. KeyInv => KeyTypeOK
  BY DEF KeyInv
<1> QED BY <1>1, KeyInvariance, PTL

\* What Add, Remove and Rename acknowledge is in keys.json, and what they report
\* as failed is not, at every moment a daemon may be killed, but for the keys of an
\* operation that a kill left without an answer (persist and the rollbacks of
\* keystore.go).
THEOREM AckedDurable == ASSUME OneStore PROVE KeySpec => []AckedIsDurable
<1>1. KeyInv => AckedIsDurable
  BY DEF KeyInv
<1> QED BY <1>1, KeyInvariance, PTL

\* Names and URLs stay unique and the number of keys bounded in keys.json.
THEOREM FileSound == ASSUME OneStore PROVE KeySpec => []FileWellFormed
<1>1. KeyInv => FileWellFormed
  BY DEF KeyInv, Sound, FileWellFormed
<1> QED BY <1>1, KeyInvariance, PTL

\* Active names a stored key until a write fails.
THEOREM ActiveSound == ASSUME OneStore PROVE KeySpec => []ActiveStoredUnlessFault
<1>1. KeyInv => ActiveStoredUnlessFault
  BY DEF KeyInv
<1> QED BY <1>1, KeyInvariance, PTL
=============================================================================
