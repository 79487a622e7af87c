----------------------------- MODULE ConfigFile -----------------------------
(***************************************************************************)
(* One small file of the configuration directory that several processes    *)
(* change: the favorites (favorites/favorites.go), the history             *)
(* (history/history.go), the radio stations or the pinned places           *)
(* (external/radio/favorites.go, pins.go).  Each operation holds a file    *)
(* lock (internal/fileutil/lock_unix.go) from its load to its save, and    *)
(* the save replaces the file by a rename (internal/fileutil/atomic.go).   *)
(* Any step may fail, a process may be killed, the machine may lose power. *)
(*                                                                         *)
(* A process runs one operation at a time: its store has a mutex.          *)
(***************************************************************************)
EXTENDS Integers, Sequences, SequencesExt

CONSTANTS
  Procs, Items,
  Cap,        \* the longest history: 200
  MaxOps,     \* bound on the operations
  MaxCrashes, \* bound on kills and power losses
  Nobody, Torn

ASSUME FileAssumption ==
  Cap \in Nat /\ MaxOps \in Nat /\ MaxCrashes \in Nat /\ Nobody \notin Procs

VARIABLES
  kind,      \* which file this is
  visible,   \* the version that the path names
  onDisk,    \* the versions that a power loss may leave there
  tmp,       \* the temporary file of each process
  lock,      \* who holds the file lock
  pc, op,    \* where each process is, and in which operation
  loaded,    \* the version it read
  result,    \* how the operation went
  mem,       \* the list that radio keeps in memory
  ops,       \* operations so far; their numbers are ghosts
  acked,     \* the saves and removals that returned without an error
  unsettled, \* the removals that no sync of the directory has followed
  undone,    \* those of them that a power loss undid
  crashes

diskVars == <<visible, onDisk, unsettled, undone>>
procVars == <<pc, op, loaded, result, tmp, mem>>
fileVars == <<kind, diskVars, lock, procVars, ops, acked, crashes>>

(* A version: the list, whether its bytes are on the disk, and the         *)
(* operations it holds (a ghost).                                          *)
Version(list, synced, held) == [list |-> list, synced |-> synced, held |-> held]

Empty == Version(<<>>, TRUE, {})

Store == INSTANCE AtomicFile WITH
           value <- visible.list, recent <- {v.list : v \in onDisk}

FileInit ==
  /\ kind \in {"favorites", "history", "radio"}
  /\ visible = Empty /\ onDisk = {Empty}
  /\ unsettled = {} /\ undone = {}
  /\ tmp = [p \in Procs |-> Empty]
  /\ lock = Nobody
  /\ pc = [p \in Procs |-> "idle"]
  /\ op = [p \in Procs |-> [change |-> [name |-> "none"], n |-> 0]]
  /\ loaded = [p \in Procs |-> Empty]
  /\ result = [p \in Procs |-> "ok"]
  /\ mem = [p \in Procs |-> <<>>]
  /\ ops = 0 /\ acked = {} /\ crashes = 0

Goto(p, place) == pc' = [pc EXCEPT ![p] = place]

(* What the user can ask of the store.  A radio toggle asks for the        *)
(* opposite of what the process remembers; Import adds what is missing.    *)
Asked(p) ==
  CASE kind = "favorites" ->
         {[name |-> "toggle", item |-> x] : x \in Items}
           \cup {[name |-> "want", item |-> x, wanted |-> TRUE] : x \in Items}
    [] kind = "history" ->
         {[name |-> "record", item |-> x] : x \in Items} \cup {[name |-> "clear"]}
    [] kind = "radio" ->
         {[name |-> "want", item |-> x, wanted |-> ~Store!Holds(mem[p], x)] : x \in Items}

Ask(p) ==
  /\ pc[p] = "idle" /\ ops < MaxOps
  /\ \E o \in Asked(p) :
       op' = [op EXCEPT ![p] = [change |-> o, n |-> ops + 1]]
  /\ ops' = ops + 1
  /\ Goto(p, "locking")
  /\ UNCHANGED <<kind, diskVars, lock, loaded, result, tmp, mem, acked, crashes>>

BadUnlocked == TRUE

LockFree == lock = Nobody

(* LockFile waits for the lock; Clear then removes without a load.         *)
LockFile(p) ==
  /\ pc[p] = "locking" /\ LockFree
  /\ lock' = p
  /\ result' = [result EXCEPT ![p] = "failed"]
  /\ Goto(p, IF op[p].change.name = "clear" THEN "removing" ELSE "loading")
  /\ UNCHANGED <<kind, diskVars, op, loaded, tmp, mem, ops, acked, crashes>>

(* A list that is already as wanted is not written.                        *)
AsWanted(o, list) == o.name = "want" /\ Store!Holds(list, o.item) = o.wanted

Load(p) ==
  /\ pc[p] = "loading"
  /\ loaded' = [loaded EXCEPT ![p] = visible]
  /\ IF AsWanted(op[p].change, visible.list)
     THEN /\ Goto(p, "unlocking")
          /\ result' = [result EXCEPT ![p] = "unchanged"]
     ELSE Goto(p, "writing") /\ UNCHANGED result
  /\ UNCHANGED <<kind, diskVars, lock, op, tmp, mem, ops, acked, crashes>>

(* A new file with a random name gets all the bytes.                       *)
Write(p) ==
  /\ pc[p] = "writing"
  /\ tmp' = [tmp EXCEPT ![p] = Version(Store!Apply(op[p].change, loaded[p].list), FALSE,
                                       loaded[p].held \cup {op[p].n})]
  /\ Goto(p, "syncing")
  /\ UNCHANGED <<kind, diskVars, lock, op, loaded, result, mem, ops, acked, crashes>>

BadSynced(v) == v

Synced(v) == Version(v.list, TRUE, v.held)

Sync(p) ==
  /\ pc[p] = "syncing"
  /\ tmp' = [tmp EXCEPT ![p] = Synced(@)]
  /\ Goto(p, "renaming")
  /\ UNCHANGED <<kind, diskVars, lock, op, loaded, result, mem, ops, acked, crashes>>

(* The path names another version at once, on the disk some time later.    *)
Replace(v) == visible' = v /\ onDisk' = onDisk \cup {v}

Rename(p) ==
  /\ pc[p] = "renaming"
  /\ Replace(tmp[p])
  /\ Goto(p, "syncingDir")
  /\ UNCHANGED <<kind, unsettled, undone, lock, op, loaded, result, tmp, mem, ops, acked, crashes>>

BadSettled == onDisk

Settled == {visible}

SyncDir(p) ==
  /\ pc[p] = "syncingDir"
  /\ onDisk' = Settled
  /\ unsettled' = {}
  /\ result' = [result EXCEPT ![p] = "ok"]
  /\ Goto(p, "unlocking")
  /\ UNCHANGED <<kind, visible, undone, lock, op, loaded, tmp, mem, ops, acked, crashes>>

(* os.Remove, with or without a file there, and no sync of the directory   *)
(* after it; Clear then returns nil.                                       *)
RemoveFile(p) ==
  /\ pc[p] = "removing"
  /\ Replace(Version(<<>>, TRUE, visible.held \cup {op[p].n}))
  /\ unsettled' = unsettled \cup {op[p].n}
  /\ result' = [result EXCEPT ![p] = "ok"]
  /\ Goto(p, "unlocking")
  /\ UNCHANGED <<kind, undone, lock, op, loaded, tmp, mem, ops, acked, crashes>>

(* An error of any step: the operation gives up and says so.               *)
StepFails(p) ==
  /\ pc[p] \in {"loading", "writing", "syncing", "renaming", "syncingDir", "removing"}
  /\ Goto(p, "unlocking")
  /\ UNCHANGED <<kind, diskVars, lock, op, loaded, result, tmp, mem, ops, acked, crashes>>

LockFails(p) ==
  /\ pc[p] = "locking"
  /\ Goto(p, "idle")
  /\ UNCHANGED <<kind, diskVars, lock, op, loaded, result, tmp, mem, ops, acked, crashes>>

(* The list a radio store remembers after a toggle that did not fail.      *)
Remembered(p) ==
  IF kind = "radio" /\ result[p] # "failed"
  THEN Store!Apply(op[p].change, loaded[p].list) ELSE mem[p]

Return(p) ==
  /\ pc[p] = "unlocking"
  /\ lock' = IF lock = p THEN Nobody ELSE lock
  /\ acked' = IF result[p] = "ok" THEN acked \cup {op[p].n} ELSE acked
  /\ mem' = [mem EXCEPT ![p] = Remembered(p)]
  /\ tmp' = [tmp EXCEPT ![p] = Empty] /\ loaded' = [loaded EXCEPT ![p] = Empty]
  /\ Goto(p, "idle")
  /\ UNCHANGED <<kind, diskVars, op, result, ops, crashes>>

(* The processes of stopped start again: the locks they held are free, and *)
(* they load what the path names.                                          *)
Restart(stopped, list) ==
  /\ crashes < MaxCrashes /\ crashes' = crashes + 1
  /\ lock' = IF lock \in stopped THEN Nobody ELSE lock
  /\ pc' = [p \in Procs |-> IF p \in stopped THEN "idle" ELSE pc[p]]
  /\ tmp' = [p \in Procs |-> IF p \in stopped THEN Empty ELSE tmp[p]]
  /\ loaded' = [p \in Procs |-> IF p \in stopped THEN Empty ELSE loaded[p]]
  /\ mem' = [p \in Procs |-> IF kind = "radio" /\ p \in stopped THEN list ELSE mem[p]]
  /\ UNCHANGED <<kind, op, result, ops, acked>>

Killed(p) == Restart({p}, visible.list) /\ UNCHANGED diskVars

(* What a power loss leaves of a file whose bytes were not synced is lost. *)
Recovered(v) == IF v.synced THEN v ELSE Version(Torn, FALSE, v.held)

LosePower ==
  /\ \E v \in onDisk : visible' = Recovered(v)
  /\ onDisk' = {visible'}
  /\ undone' = undone \cup (unsettled \ visible'.held) /\ unsettled' = {}
  /\ Restart(Procs, visible'.list)

-----------------------------------------------------------------------------
(* Every list that a reader can find, before or after a power loss, is     *)
(* whole, and each change applies one operation to the list as it was      *)
(* then: the lock and the rename make load, edit and save one step         *)
(* (favorites.go "a crash or a second process can never leave a torn or    *)
(* half-clobbered favorites.toml behind").                                 *)
AtomicOperations == Store!Spec

(* A save or a removal that returned without an error is part of what the  *)
(* path names from then on, whoever is killed or loses power (the syncs of *)
(* file and directory in atomic.go), but for a removal that a power loss   *)
(* undid before any later save had synced the directory: Clear does not    *)
(* sync it (history.go:141).  A toggle that finds the list as it wants it  *)
(* saves nothing and is not counted.                                       *)
KeepsAcknowledged ==
  /\ acked \subseteq visible.held \cup undone
  /\ \A v \in onDisk : acked \subseteq v.held \cup undone \cup unsettled
=============================================================================
