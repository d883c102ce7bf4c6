-------------------------- MODULE SavedConnections --------------------------
(***************************************************************************)
(* The saved connections (commands/storage.rs, commands/saved.rs, the setup *)
(* of lib.rs): a file of entries, each encrypted, the key they are opened   *)
(* with, in a file of its own, and the list in memory that the commands     *)
(* change under a lock. The app may be killed between any two steps, calls  *)
(* to the file system may fail, and the disk may spoil either file while    *)
(* the app is off.                                                          *)
(*                                                                         *)
(* Abstracted: an entry is the key it is encrypted under; a missing file is *)
(* one without entries, as it is for the program; a temporary file is never *)
(* read, so only whether it was written matters; the machine keeps its      *)
(* hostname, and one process of the app runs at a time.                     *)
(***************************************************************************)
EXTENDS Naturals

CONSTANTS
  Conns,       \* the connections' ids
  Keys,        \* the random keys the app may make
  HostKey,     \* the key derived from the hostname
  NoKey,       \* no key, no entry
  Missing,     \* there is no key file
  Damaged,     \* the key file isn't a key
  Nobody,      \* no connection
  MaxSpoiled   \* bound: files spoiled while the app is off

ASSUME KeysAssumption ==
  /\ HostKey \notin Keys \cup {NoKey, Missing, Damaged} /\ NoKey \notin Keys
  /\ Missing \notin Keys /\ Damaged \notin Keys /\ Missing # Damaged
ASSUME NobodyAssumption == Nobody \notin Conns
ASSUME MaxSpoiledAssumption == MaxSpoiled \in Nat

VARIABLES
  keyFile,   \* encryption.key
  made,      \* the keys made so far
  lost,      \* the keys the disk spoiled
  readable,  \* whether db_connections.json is a connections file
  entries,   \* what is in it
  asides,    \* what is in the files kept aside
  at,        \* where the app stands
  key,       \* the key of this run of the app
  memory,    \* the list in memory
  previous,  \* its copy, restored if the file can't be written
  call,      \* the connection being saved or deleted
  blind,     \* the file couldn't be read nor moved aside: the list started empty
  promised,  \* the connections whose save was answered with success, and not their delete
  spoiled    \* files spoiled so far

disk == <<keyFile, made, lost, readable, entries, asides, promised, spoiled>>
app == <<at, key, memory, previous, call, blind>>
vars == <<disk, app>>

Lists == [Conns -> Keys \cup {HostKey, NoKey}]
Empty == [c \in Conns |-> NoKey]
Ids(list) == {c \in Conns : list[c] # NoKey}

\* The file is one of an older version, or there is none.
Init ==
  /\ keyFile = Missing /\ made = {} /\ lost = {} /\ asides = {} /\ spoiled = 0
  /\ readable = TRUE
  /\ entries \in [Conns -> {HostKey, NoKey}]
  /\ promised = Ids(entries)
  /\ at = "off" /\ key = NoKey /\ memory = Empty /\ previous = Empty /\ call = Nobody
  /\ blind = FALSE

Go(from, to) == at = from /\ at' = to

Start == Go("off", "key") /\ UNCHANGED <<disk, key, memory, previous, call, blind>>

\* load_or_create_key. Any of its calls may fail, and the app goes on with the hostname key.
KeyFound ==
  /\ keyFile \in Keys /\ Go("key", "loading")
  /\ key' = keyFile
  /\ UNCHANGED <<disk, memory, previous, call, blind>>

\* Mutant: a key that can't be read is a reason to make a new one.
KeyRemade ==
  /\ Go("key", "making")
  /\ UNCHANGED <<disk, key, memory, previous, call, blind>>

KeyFails ==
  /\ at \in {"key", "making", "made"} /\ at' = "loading"
  /\ key' = HostKey
  /\ UNCHANGED <<disk, memory, previous, call, blind>>

KeyMissing ==
  /\ keyFile = Missing /\ Go("key", "making")
  /\ UNCHANGED <<disk, key, memory, previous, call, blind>>

KeyAside ==
  /\ keyFile = Damaged /\ Go("key", "making")
  /\ keyFile' = Missing
  /\ UNCHANGED <<made, lost, readable, entries, asides, promised, spoiled, key, memory, previous, call, blind>>

\* write_private: the key goes to a temporary file and then to its place.
KeyMade(k) ==
  /\ k \notin made /\ Go("making", "made")
  /\ made' = made \cup {k}
  /\ key' = k
  /\ UNCHANGED <<keyFile, lost, readable, entries, asides, promised, spoiled, memory, previous, call, blind>>

KeyKept ==
  /\ Go("made", "loading")
  /\ keyFile' = key
  /\ UNCHANGED <<made, lost, readable, entries, asides, promised, spoiled, key, memory, previous, call, blind>>

\* load_connections_from_path.
Load ==
  /\ readable /\ Go("loading", "loaded")
  /\ memory' = entries
  /\ UNCHANGED <<disk, key, previous, call, blind>>

\* Mutant: a file that can't be read is left where it is.
LoadNothing ==
  /\ Go("loading", "loaded")
  /\ memory' = Empty
  /\ UNCHANGED <<disk, key, previous, call, blind>>

\* It isn't a connections file, or the read failed.
SetAside ==
  /\ (readable => entries # Empty) /\ Go("loading", "loaded")
  /\ memory' = Empty
  /\ asides' = asides \cup {entries} /\ entries' = Empty /\ readable' = TRUE
  /\ UNCHANGED <<keyFile, made, lost, promised, spoiled, key, previous, call, blind>>

\* The failure is ignored: the file stays, and the next save writes over it.
SetAsideFails ==
  /\ (readable => entries # Empty) /\ Go("loading", "loaded")
  /\ memory' = Empty /\ blind' = TRUE
  /\ UNCHANGED <<disk, key, previous, call>>

\* migrate_to_key: what only the hostname key opens.
Legacy == {c \in Conns : memory[c] = HostKey /\ key # HostKey}

NothingToMigrate ==
  /\ Legacy = {} /\ Go("loaded", "idle")
  /\ UNCHANGED <<disk, key, memory, previous, call, blind>>

\* Mutant: the entries are not encrypted again.
MigrateNothing ==
  /\ Legacy # {} /\ Go("loaded", "migrating")
  /\ UNCHANGED <<disk, key, memory, previous, call, blind>>

Migrate ==
  /\ Legacy # {} /\ Go("loaded", "migrating")
  /\ memory' = [c \in Conns |-> IF c \in Legacy THEN key ELSE memory[c]]
  /\ UNCHANGED <<disk, key, previous, call, blind>>

\* write_connections: a temporary file, then a rename.
MigrationWritten == Go("migrating", "migrated") /\ UNCHANGED <<disk, key, memory, previous, call, blind>>

MigrationKept ==
  /\ Go("migrated", "idle")
  /\ entries' = memory /\ readable' = TRUE
  /\ UNCHANGED <<keyFile, made, lost, asides, promised, spoiled, key, memory, previous, call, blind>>

\* The app goes on with the list as migrated.
MigrationFails ==
  /\ at \in {"migrating", "migrated"} /\ at' = "idle"
  /\ UNCHANGED <<disk, key, memory, previous, call, blind>>

\* An id is one in memory, or a new one (a UUID).
Known(c) == c \in Ids(memory) \cup Ids(entries) \/ \E list \in asides : c \in Ids(list)

\* Mutant: the copy of the list is not taken anew.
SaveOverOldCopy(c) ==
  /\ c \in Ids(memory) \/ ~Known(c)
  /\ Go("idle", "saving")
  /\ call' = c /\ memory' = [memory EXCEPT ![c] = key]
  /\ UNCHANGED <<disk, key, previous, blind>>

\* upsert under the lock: the entry is encrypted under this run's key.
Save(c) ==
  /\ c \in Ids(memory) \/ ~Known(c)
  /\ Go("idle", "saving")
  /\ call' = c /\ previous' = memory /\ memory' = [memory EXCEPT ![c] = key]
  /\ UNCHANGED <<disk, key, blind>>

Delete(c) ==
  /\ c \in Ids(memory)
  /\ Go("idle", "saving")
  /\ call' = c /\ previous' = memory /\ memory' = [memory EXCEPT ![c] = NoKey]
  /\ UNCHANGED <<disk, key, blind>>

Written == Go("saving", "written") /\ UNCHANGED <<disk, key, memory, previous, call, blind>>

\* What a list that started empty writes over.
Overwritten == IF blind THEN Ids(entries) ELSE {}

Kept ==
  /\ Go("written", "idle")
  /\ entries' = memory /\ readable' = TRUE
  /\ promised' = IF memory[call] = NoKey THEN promised \ {call} ELSE (promised \ Overwritten) \cup {call}
  /\ call' = Nobody /\ blind' = FALSE
  /\ UNCHANGED <<keyFile, made, lost, asides, spoiled, key, memory, previous>>

\* The file can't be written: the command is refused and the list is as it was.
NotKept ==
  /\ at \in {"saving", "written"} /\ at' = "idle"
  /\ memory' = previous /\ call' = Nobody
  /\ UNCHANGED <<disk, key, previous, blind>>

\* The app ends: it is closed, killed, or the machine stops.
End ==
  /\ at # "off" /\ at' = "off"
  /\ key' = NoKey /\ memory' = Empty /\ previous' = Empty /\ call' = Nobody /\ blind' = FALSE
  /\ UNCHANGED disk

SpoilKey ==
  /\ at = "off" /\ keyFile \in Keys /\ spoiled < MaxSpoiled
  /\ keyFile' = Damaged /\ lost' = lost \cup {keyFile} /\ spoiled' = spoiled + 1
  /\ UNCHANGED <<made, readable, entries, asides, promised, app>>

SpoilFile ==
  /\ at = "off" /\ readable /\ spoiled < MaxSpoiled
  /\ readable' = FALSE /\ spoiled' = spoiled + 1
  /\ UNCHANGED <<keyFile, made, lost, entries, asides, promised, app>>

Next ==
  \/ Start \/ KeyFound \/ KeyFails \/ KeyMissing \/ KeyAside \/ (\E k \in Keys : KeyMade(k)) \/ KeyKept
  \/ Load \/ SetAside \/ SetAsideFails
  \/ NothingToMigrate \/ Migrate \/ MigrationWritten \/ MigrationKept \/ MigrationFails
  \/ (\E c \in Conns : Save(c) \/ Delete(c)) \/ Written \/ Kept \/ NotKept
  \/ End \/ SpoilKey \/ SpoilFile

Spec == Init /\ [][Next]_vars
-----------------------------------------------------------------------------
TypeOK ==
  /\ keyFile \in Keys \cup {Missing, Damaged}
  /\ made \in SUBSET Keys /\ lost \in SUBSET Keys
  /\ readable \in BOOLEAN
  /\ entries \in Lists /\ asides \in SUBSET Lists
  /\ at \in {"off", "key", "making", "made", "loading", "loaded", "migrating", "migrated", "idle", "saving", "written"}
  /\ key \in Keys \cup {HostKey, NoKey}
  /\ memory \in Lists /\ previous \in Lists
  /\ call \in Conns \cup {Nobody}
  /\ promised \in SUBSET Conns
  /\ blind \in BOOLEAN
  /\ spoiled \in 0..MaxSpoiled

\* A connection whose save was answered with success is in the file, or in one kept aside, at any
\* moment the app may be killed (write_connections, load_connections_from_path); but for a file that
\* could neither be read nor moved aside, which the code lets the next save write over.
NothingLost == \A c \in promised : c \in Ids(entries) \/ \E list \in asides : c \in Ids(list)

\* The app never locks itself out (load_or_create_key): what the file holds opens with the key file,
\* or with the hostname key, unless the disk spoiled the key it was encrypted under.
NotLockedOut == \A c \in Ids(entries) : entries[c] \in {keyFile, HostKey} \cup lost

\* What the person sees of a run that has the app's own key (get_saved_connections drops what the
\* key doesn't open): all of it, except what a spoiled key took.
AllIsShown ==
  at \in {"idle", "saving", "written"} /\ key # HostKey => \A c \in Ids(memory) : memory[c] \in {key} \cup lost

\* The list in memory and the file never disagree between commands (saved.rs: restored if the file
\* can't be written); an entry differs only if its migration could not be written.
MemoryIsTheFile ==
  at = "idle" /\ ~blind => Ids(memory) = Ids(entries) /\ \A c \in Conns : memory[c] = entries[c] \/ (entries[c] = HostKey /\ memory[c] = key)

\* Saving and deleting change what is saved by one connection or not at all.
Store == INSTANCE ConnectionStore WITH saved <- IF readable THEN Ids(entries) ELSE {}
StoreSpec == Store!Spec
-----------------------------------------------------------------------------
\* The list is what the file holds, but for a migration that could not be written; and a run with the
\* app's own key opens it.
Same(list) == \A c \in Conns : list[c] = entries[c] \/ (entries[c] = HostKey /\ list[c] = key)
Follows(list) == IF blind THEN list = Empty ELSE Same(list)
Opens(list) == key # HostKey => \A c \in Conns : list[c] \in {key, NoKey} \cup lost

\* A key is only made where there is none, and a run has the hostname key or the one in the file.
KeyInv ==
  /\ at \in {"making", "made"} => keyFile = Missing
  /\ at = "made" => key \in Keys
  /\ at \notin {"off", "key", "making", "made"} => key # NoKey /\ key \in {HostKey, keyFile}

ListInv ==
  /\ at = "loaded" => memory = IF blind THEN Empty ELSE entries
  /\ at \in {"migrating", "migrated", "idle"} => Follows(memory) /\ Opens(memory)
  /\ at \in {"saving", "written"} =>
        /\ call \in Conns /\ Follows(previous) /\ Opens(previous)
        /\ \A c \in Conns : memory[c] = previous[c] \/ (c = call /\ memory[c] \in {key, NoKey})
        /\ blind => memory[call] # NoKey
  /\ at \notin {"saving", "written"} => call = Nobody
  /\ at \in {"loaded", "migrating", "migrated", "idle", "saving", "written"} => readable \/ blind
  /\ blind => at \in {"loaded", "idle", "saving", "written"}

IInv == TypeOK /\ KeyInv /\ ListInv /\ NothingLost /\ NotLockedOut
=============================================================================
