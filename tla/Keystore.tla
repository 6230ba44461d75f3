------------------------------ MODULE Keystore ------------------------------
(***************************************************************************)
(* internal/keystore: the list of stored keys and the name of the active   *)
(* one, in the memory of a Store and in keys.json.                         *)
(*                                                                         *)
(* Every operation holds the store's mutex from its first read to the end  *)
(* of persist, and persist replaces the file with one rename, so an        *)
(* operation is one step: it changes memory and file, or persist fails and *)
(* its rollback runs, or the process dies with the file changed and no     *)
(* answer given (one that dies earlier has only Quit).  The mutex is the   *)
(* Store's: two oufdee processes share the file and nothing else.          *)
(*                                                                         *)
(* Names are the names that validateName accepts.  A refused operation     *)
(* (unknown, taken or invalid name, stored URL, full store) and a rename   *)
(* to the same name change nothing and are no steps.                       *)
(***************************************************************************)
EXTENDS Integers, FiniteSets

CONSTANTS
    Stores,         \* Store objects, one per oufdee process
    Names,          \* valid key names
    Urls,           \* ss:// URLs
    MaxKeys,        \* maxKeys: 128
    MaxWriteFaults, \* bound: calls of persist that may fail in one behaviour
    NoName,         \* the empty string in Active
    NoFile,         \* keys.json does not exist
    Closed          \* no process has this store open

ASSUME MaxKeysAssumption == MaxKeys \in Nat

ASSUME MaxWriteFaultsAssumption == MaxWriteFaults \in Nat

ASSUME NoNameAssumption == NoName \notin Names

Key == [name : Names, url : Urls]

\* fileState; the timestamps and labels are left out.
FileState == [keys : SUBSET Key, active : Names \cup {NoName}]

ASSUME FileStateAssumption == NoFile \notin FileState /\ Closed \notin FileState

VARIABLES
    mem,         \* Store.state of each open store
    disk,        \* keys.json
    acked,       \* history: the keys that clients were told are stored
    doubt,       \* history: the keys of operations done but never answered
    writeFaults  \* calls of persist that may still fail

keyVars == <<mem, disk, acked, doubt, writeFaults>>

Empty == [keys |-> {}, active |-> NoName]

KeysOnDisk == IF disk = NoFile THEN {} ELSE disk.keys

NamesOf(keys) == {k.name : k \in keys}

KeyInit ==
    /\ mem = [st \in Stores |-> Closed] /\ disk = NoFile
    /\ acked = {} /\ doubt = {} /\ writeFaults = MaxWriteFaults

-----------------------------------------------------------------------------
IsOpen(st) == mem[st] # Closed

\* Mutant: a missing file leaves the state uninitialised.
OpenUninitialised(st) ==
    /\ ~IsOpen(st)
    /\ mem' = [mem EXCEPT ![st] = disk]
    /\ UNCHANGED <<disk, acked, doubt, writeFaults>>

\* Open and reload: a missing file is an empty store.
Open(st) ==
    /\ ~IsOpen(st)
    /\ mem' = [mem EXCEPT ![st] = IF disk = NoFile THEN Empty ELSE disk]
    /\ UNCHANGED <<disk, acked, doubt, writeFaults>>

\* The process exits or is killed: memory is gone, the file stays.
Quit(st) ==
    /\ IsOpen(st)
    /\ mem' = [mem EXCEPT ![st] = Closed]
    /\ UNCHANGED <<disk, acked, doubt, writeFaults>>

\* The tail of every operation, which takes the keys gone away and adds those in come:
\* persist the new state and report success; or put the rolled back state in memory and
\* report the error; or die after the rename of keys.json, and report nothing.
Commit(st, new, rolledBack, gone, come) ==
    \/ /\ mem' = [mem EXCEPT ![st] = new] /\ disk' = new
       /\ acked' = (acked \ gone) \cup come /\ doubt' = doubt \ (gone \cup come)
       /\ UNCHANGED writeFaults
    \/ /\ writeFaults > 0 /\ writeFaults' = writeFaults - 1
       /\ mem' = [mem EXCEPT ![st] = rolledBack]
       /\ UNCHANGED <<disk, acked, doubt>>
    \/ /\ mem' = [mem EXCEPT ![st] = Closed] /\ disk' = new
       /\ doubt' = doubt \cup gone \cup come
       /\ UNCHANGED <<acked, writeFaults>>

\* Add, with a name the client suggests or deriveName picks.  The first key
\* becomes the active one.  The rollback drops the key, and clears Active only
\* when no key is left.
Add(st, url, name) ==
    LET old  == mem[st]
        k    == [name |-> name, url |-> url]
        new  == [keys   |-> old.keys \cup {k},
                 active |-> IF old.active = NoName THEN name ELSE old.active]
        back == [keys |-> old.keys, active |-> IF old.keys = {} THEN NoName ELSE new.active]
    IN
    /\ IsOpen(st)
    /\ Cardinality(old.keys) < MaxKeys
    /\ \A q \in old.keys : q.url # url /\ q.name # name
    /\ Commit(st, new, back, {}, {k})

\* Mutant: a failed write is not rolled back.
RemoveNoRollback(st, k) ==
    LET old == mem[st]
        new == [keys   |-> old.keys \ {k},
                active |-> IF old.active = k.name THEN NoName ELSE old.active]
    IN
    /\ IsOpen(st) /\ k \in old.keys
    /\ Commit(st, new, new, {k}, {})

\* Remove clears Active if it named the key; the rollback restores both.
Remove(st, k) ==
    LET old == mem[st] IN
    /\ IsOpen(st) /\ k \in old.keys
    /\ Commit(st, [keys   |-> old.keys \ {k},
                   active |-> IF old.active = k.name THEN NoName ELSE old.active],
              old, {k}, {})

\* Mutant: the new name may be taken.
RenameOverTaken(st, k, newName) ==
    LET old     == mem[st]
        renamed == [k EXCEPT !.name = newName]
    IN
    /\ IsOpen(st) /\ k \in old.keys
    /\ Commit(st, [keys   |-> (old.keys \ {k}) \cup {renamed},
                   active |-> IF old.active = k.name THEN newName ELSE old.active],
              old, {k}, {renamed})

\* Mutant: Active does not follow the key.
RenameNotActive(st, k, newName) ==
    LET old     == mem[st]
        renamed == [k EXCEPT !.name = newName]
    IN
    /\ IsOpen(st) /\ k \in old.keys
    /\ newName \notin NamesOf(old.keys)
    /\ Commit(st, [old EXCEPT !.keys = (@ \ {k}) \cup {renamed}],
              old, {k}, {renamed})

\* Rename; Active follows the key.
Rename(st, k, newName) ==
    LET old     == mem[st]
        renamed == [k EXCEPT !.name = newName]
    IN
    /\ IsOpen(st) /\ k \in old.keys
    /\ newName \notin NamesOf(old.keys)
    /\ Commit(st, [keys   |-> (old.keys \ {k}) \cup {renamed},
                   active |-> IF old.active = k.name THEN newName ELSE old.active],
              old, {k}, {renamed})

SetActive(st, k) ==
    /\ IsOpen(st) /\ k \in mem[st].keys
    /\ Commit(st, [mem[st] EXCEPT !.active = k.name], mem[st], {}, {})

\* `ouf use`, and what doConnect records after a successful Start.
Use(st, k) == SetActive(st, k)

MarkConnected(st, k) == SetActive(st, k)

KeyNext ==
    \E st \in Stores :
        \/ Open(st) \/ Quit(st)
        \/ \E url \in Urls, name \in Names : Add(st, url, name)
        \/ \E k \in Key : Remove(st, k) \/ Use(st, k) \/ MarkConnected(st, k)
        \/ \E k \in Key, name \in Names : Rename(st, k, name)

KeySpec == KeyInit /\ [][KeyNext]_keyVars

-----------------------------------------------------------------------------
(***************************************************************************)
(* Properties.                                                             *)
(***************************************************************************)
KeyTypeOK ==
    /\ mem \in [Stores -> FileState \cup {Closed}]
    /\ disk \in FileState \cup {NoFile}
    /\ acked \in SUBSET Key /\ doubt \in SUBSET Key
    /\ writeFaults \in 0 .. MaxWriteFaults

\* A key that clients were told is stored, and no other, is what a daemon that is killed
\* now and started again will read: a failed persist is rolled back so that no later
\* operation makes it durable, a successful one is on disk before the answer, and only
\* a client without an answer cannot know (until a later operation on that key has one).
AckedIsDurable == \A k \in Key \ doubt : k \in KeysOnDisk <=> k \in acked

\* The keys of a state are told apart by their names and by their URLs, and
\* there are at most MaxKeys of them.
WellFormed(state) ==
    /\ \A j, k \in state.keys : j.name = k.name \/ j.url = k.url => j = k
    /\ Cardinality(state.keys) <= MaxKeys

\* Add and Rename keep names and URLs unique and Add keeps the number of keys
\* bounded in the file, through any sequence of operations, failed writes
\* and restarts.
FileWellFormed == disk # NoFile => WellFormed(disk)

\* Active is empty or names a stored key.
ActiveStored(state) == state.active \in NamesOf(state.keys) \cup {NoName}

\* As long as no call of persist has failed, Active (in memory and in the file) is
\* empty or names a stored key, through any removal or rename of the active key.
ActiveStoredUnlessFault ==
    writeFaults = MaxWriteFaults =>
        /\ disk # NoFile => ActiveStored(disk)
        /\ \A st \in Stores : IsOpen(st) => ActiveStored(mem[st])

\* "Active returns the name of the currently-active key, or "" if none": what it
\* returns is a stored key, after failed writes too ("Roll back in-memory change
\* on persist failure").  Add does not roll Active back when other keys exist.
ActiveIsAKey == \A st \in Stores : IsOpen(st) => ActiveStored(mem[st])
=============================================================================
