--------------------------- MODULE FavoritesProofs ---------------------------
(***************************************************************************)
(* Proofs about Favorites.tla, for any number of processes, tracks and     *)
(* operations and any number of kills and power losses: the locked, synced *)
(* and renamed file implements the abstract one of AtomicFile.tla, an      *)
(* acknowledged save survives a power loss, and the queue of provider      *)
(* calls ends with the last toggle of each track.                          *)
(***************************************************************************)
EXTENDS Favorites, TLAPS

(* Inside an operation, with the file lock.                                *)
Locked == {"loading", "writing", "syncing", "renaming", "syncingDir", "removing",
           "unlocking"}

Places == Locked \cup {"idle", "locking"}

IsVersion(v) == v = Version(v.list, v.synced, v.held)

FileType ==
  /\ kind \in {"favorites", "history", "radio"}
  /\ pc \in [Procs -> Places]
  /\ DOMAIN op = Procs /\ DOMAIN loaded = Procs /\ DOMAIN tmp = Procs
  /\ DOMAIN result = Procs
  /\ \A v \in onDisk : IsVersion(v) /\ v.synced = TRUE
  /\ visible \in onDisk

(* Where each process is, and what it then has in hand: between its load   *)
(* and its rename it alone changes the file.                               *)
HandInv ==
  \A p \in Procs :
    /\ pc[p] \in Locked => lock = p
    /\ pc[p] # "idle" => op[p].change \in Store!Operations
    /\ pc[p] = "writing" => loaded[p] = visible
    /\ pc[p] \in {"syncing", "renaming"} =>
         /\ IsVersion(tmp[p])
         /\ tmp[p].list = Store!Apply(op[p].change, visible.list)
         /\ tmp[p].held = visible.held \cup {op[p].n}
    /\ pc[p] = "renaming" => tmp[p].synced = TRUE
    /\ pc[p] = "removing" => op[p].change.name = "clear"

FileInv == FileType /\ HandInv

AckInv ==
  /\ KeepsAcknowledged
  /\ \A p \in Procs :
       /\ pc[p] = "syncingDir" => op[p].n \in visible.held
       /\ pc[p] \in Locked \ {"unlocking"} => result[p] = "failed"
       /\ pc[p] = "unlocking" /\ result[p] = "ok" =>
            /\ op[p].n \in visible.held
            /\ \A v \in onDisk : op[p].n \in v.held \cup unsettled

-----------------------------------------------------------------------------
(* The invariant of the file                                               *)

LEMMA FileInvInit ==
  Init => FileInv /\ AckInv
BY DEF Init, FileInit, FileInv, FileType, HandInv, AckInv, KeepsAcknowledged, Empty, Version,
       IsVersion, Places, Locked

(* Whatever the user asks for is an operation of the abstract file.        *)
LEMMA AskedOperations ==
  ASSUME FileInv, NEW p \in Procs, NEW o \in Asked(p)
  PROVE  o \in Store!Operations
<1>1. CASE kind = "favorites"
  <2>1. PICK x \in Items : \/ o = [name |-> "toggle", item |-> x]
                           \/ o = [name |-> "want", item |-> x, wanted |-> TRUE]
    BY <1>1 DEF Asked
  <2>2. CASE o = [name |-> "toggle", item |-> x]
    BY <2>2 DEF Store!Operations
  <2>3. CASE o = [name |-> "want", item |-> x, wanted |-> TRUE]
    BY <2>3 DEF Store!Operations
  <2> QED BY <2>1, <2>2, <2>3
<1>2. CASE kind = "history"
  <2>1. o = [name |-> "clear"] \/ \E x \in Items : o = [name |-> "record", item |-> x]
    BY <1>2 DEF Asked
  <2> QED BY <2>1 DEF Store!Operations
<1>3. CASE kind = "radio"
  <2>1. PICK x \in Items :
          o = [name |-> "want", item |-> x, wanted |-> ~Store!Holds(mem[p], x)]
    BY <1>3 DEF Asked
  <2>2. (~Store!Holds(mem[p], x)) \in BOOLEAN
    OBVIOUS
  <2> QED BY <2>1, <2>2 DEF Store!Operations
<1> QED BY <1>1, <1>2, <1>3 DEF FileInv, FileType

LEMMA Clears ==
  ASSUME NEW o \in Store!Operations, o.name = "clear", NEW list
  PROVE  Store!Apply(o, list) = <<>>
BY DEF Store!Operations, Store!Apply

(* A restart empties the hands of the processes it stops.                  *)
LEMMA RestartKeeps ==
  ASSUME NEW stopped \in SUBSET Procs, NEW list,
         FileInv, Restart(stopped, list),
         UNCHANGED diskVars \/ stopped = Procs
  PROVE  HandInv' /\ pc' \in [Procs -> Places] /\ DOMAIN op' = Procs /\ DOMAIN loaded' = Procs
           /\ DOMAIN tmp' = Procs /\ DOMAIN result' = Procs
BY DEF FileInv, FileType, HandInv, Restart, diskVars, Places, Locked, IsVersion, Version

LEMMA FileInvKept ==
  ASSUME FileInv, [Next]_vars
  PROVE  FileInv'
<1> USE DEF FileInv, FileType, HandInv, File, Goto, Places, Locked, diskVars, IsVersion, Version
<1>1. ASSUME NEW p \in Procs, Ask(p)
      PROVE  FileInv'
  <2>1. PICK o \in Asked(p) : op' = [op EXCEPT ![p] = [change |-> o, n |-> ops + 1]]
    BY <1>1 DEF Ask
  <2>2. o \in Store!Operations
    BY AskedOperations
  <2>3. FileType'
    BY <1>1, <2>1 DEF Ask
  <2>4. HandInv'
    BY <1>1, <2>1, <2>2 DEF Ask
  <2> QED BY <2>3, <2>4
<1>2. ASSUME NEW p \in Procs, LockFile(p)
      PROVE  FileInv'
  BY <1>2, FileAssumption DEF LockFile, LockFree
<1>3. ASSUME NEW p \in Procs, Load(p)
      PROVE  FileInv'
  BY <1>3 DEF Load
<1>4. ASSUME NEW p \in Procs, Write(p)
      PROVE  FileInv'
  BY <1>4 DEF Write
<1>5. ASSUME NEW p \in Procs, Sync(p)
      PROVE  FileInv'
  BY <1>5 DEF Sync, Synced
<1>6. ASSUME NEW p \in Procs, Rename(p)
      PROVE  FileInv'
  BY <1>6 DEF Rename, Replace
<1>7. ASSUME NEW p \in Procs, SyncDir(p)
      PROVE  FileInv'
  BY <1>7 DEF SyncDir, Settled
<1>8. ASSUME NEW p \in Procs, RemoveFile(p)
      PROVE  FileInv'
  BY <1>8 DEF RemoveFile, Replace
<1>9. ASSUME NEW p \in Procs, StepFails(p)
      PROVE  FileInv'
  BY <1>9 DEF StepFails
<1>10. ASSUME NEW p \in Procs, LockFails(p)
       PROVE  FileInv'
  BY <1>10 DEF LockFails
<1>11. ASSUME NEW p \in Procs, Return(p)
       PROVE  FileInv'
  BY <1>11 DEF Return
<1>12. ASSUME NEW p \in Procs, Killed(p)
       PROVE  FileInv'
  <2>1. Restart({p}, visible.list) /\ UNCHANGED diskVars
    BY <1>12 DEF Killed
  <2>2. HandInv' /\ pc' \in [Procs -> Places] /\ DOMAIN op' = Procs /\ DOMAIN loaded' = Procs
          /\ DOMAIN tmp' = Procs /\ DOMAIN result' = Procs
    BY <2>1, RestartKeeps
  <2> QED BY <2>1, <2>2 DEF Restart
<1>13. CASE LosePower
  <2>1. PICK v \in onDisk : visible' = Recovered(v)
    BY <1>13 DEF LosePower
  <2>2. visible' = v /\ IsVersion(v) /\ v.synced = TRUE
    BY <2>1 DEF Recovered
  <2>3. Restart(Procs, visible'.list) /\ onDisk' = {visible'}
    BY <1>13 DEF LosePower
  <2>4. HandInv' /\ pc' \in [Procs -> Places] /\ DOMAIN op' = Procs /\ DOMAIN loaded' = Procs
          /\ DOMAIN tmp' = Procs /\ DOMAIN result' = Procs
    BY <2>3, RestartKeeps
  <2>5. kind' = kind
    BY <2>3 DEF Restart
  <2> QED BY <2>2, <2>3, <2>4, <2>5
<1>14. CASE UNCHANGED fileVars
  <2>1. FileType'
    BY <1>14 DEF fileVars, procVars
  <2>2. HandInv'
    BY <1>14 DEF fileVars, procVars
  <2> QED BY <2>1, <2>2
<1> QED
  BY <1>1, <1>2, <1>3, <1>4, <1>5, <1>6, <1>7, <1>8, <1>9, <1>10, <1>11, <1>12, <1>13, <1>14
     DEF Next, vars, ReturnAndSync, BeginCall, EndCall

-----------------------------------------------------------------------------
(* The refinement                                                          *)

recent == {v.list : v \in onDisk}

LEMMA StoreInit ==
  Init => Store!Init
BY DEF Init, FileInit, Empty, Version, Store!Init

(* The rename and the removal are the changes of the abstract file, the    *)
(* sync of the directory settles it, a power loss is one, and no other     *)
(* step is seen.                                                           *)
LEMMA StoreNext ==
  ASSUME FileInv, [Next]_vars
  PROVE  [Store!Next]_<<visible.list, recent>>
<1> USE DEF File
<1>1. ASSUME NEW p \in Procs, Rename(p)
      PROVE  Store!Next
  <2>1. pc[p] = "renaming" /\ op[p].change \in Store!Operations
    BY <1>1 DEF Rename, FileInv, HandInv
  <2>2. visible'.list = Store!Apply(op[p].change, visible.list)
    BY <1>1, <2>1 DEF Rename, Replace, FileInv, HandInv
  <2>3. recent' = recent \cup {visible'.list}
    BY <1>1 DEF Rename, Replace, recent
  <2> QED BY <2>1, <2>2, <2>3 DEF Store!Next, Store!Change, recent
<1>2. ASSUME NEW p \in Procs, RemoveFile(p)
      PROVE  Store!Next
  <2>1. op[p].change \in Store!Operations /\ op[p].change.name = "clear"
    BY <1>2 DEF RemoveFile, FileInv, HandInv
  <2>2. visible'.list = Store!Apply(op[p].change, visible.list)
    BY <1>2, <2>1, Clears DEF RemoveFile, Replace, Version
  <2>3. recent' = recent \cup {visible'.list}
    BY <1>2 DEF RemoveFile, Replace, recent
  <2> QED BY <2>1, <2>2, <2>3 DEF Store!Next, Store!Change, recent
<1>3. ASSUME NEW p \in Procs, SyncDir(p)
      PROVE  Store!Next
  <2>1. onDisk' = {visible} /\ visible' = visible
    BY <1>3 DEF SyncDir, Settled
  <2> QED BY <2>1 DEF Store!Next, Store!Settle, recent
<1>4. CASE LosePower
  <2>1. PICK v \in onDisk : visible' = Recovered(v)
    BY <1>4 DEF LosePower
  <2>2. visible' = v /\ onDisk' = {visible'}
    BY <1>4, <2>1 DEF LosePower, Recovered, FileInv, FileType
  <2> QED BY <2>2 DEF Store!Next, Store!PowerLoss, recent
<1>5. CASE UNCHANGED diskVars
  BY <1>5 DEF diskVars, recent
<1>6. ASSUME NEW p \in Procs,
             \/ Ask(p) \/ LockFile(p) \/ Load(p) \/ Write(p) \/ Sync(p) \/ StepFails(p)
             \/ LockFails(p) \/ Return(p) \/ Killed(p)
      PROVE  UNCHANGED diskVars
  BY <1>6 DEF Ask, LockFile, Load, Write, Sync, StepFails, LockFails, Return, Killed
<1>7. CASE UNCHANGED fileVars
  BY <1>5, <1>7 DEF fileVars
<1> QED
  BY <1>1, <1>2, <1>3, <1>4, <1>5, <1>6, <1>7
     DEF Next, vars, ReturnAndSync, BeginCall, EndCall

(* The file changes by whole operations, each applied to the list as it    *)
(* was, whatever processes overlap, fail, are killed or lose power: the    *)
(* lock, the syncs and the rename of favorites.go and atomic.go make load, *)
(* edit and save one step of AtomicFile.tla.                               *)
THEOREM FileIsAtomic == Spec => AtomicOperations
<1>1. Init => FileInv
  BY FileInvInit
<1>2. FileInv /\ [Next]_vars => FileInv'
  BY FileInvKept
<1>3. FileInv /\ [Next]_vars => [Store!Next]_<<visible.list, recent>>
  BY StoreNext
<1> QED BY <1>1, <1>2, <1>3, StoreInit, PTL DEF Spec, AtomicOperations, Store!Spec, recent

-----------------------------------------------------------------------------
(* Acknowledged operations                                                 *)

LEMMA AckInvKept ==
  ASSUME FileInv, AckInv, [Next]_vars
  PROVE  AckInv'
<1> USE DEF FileInv, FileType, HandInv, AckInv, KeepsAcknowledged, Goto, Places, Locked,
            diskVars, Version
<1>1. ASSUME NEW p \in Procs, Ask(p)
      PROVE  AckInv'
  BY <1>1 DEF Ask
<1>2. ASSUME NEW p \in Procs, LockFile(p)
      PROVE  AckInv'
  BY <1>2 DEF LockFile
<1>3. ASSUME NEW p \in Procs, Load(p)
      PROVE  AckInv'
  BY <1>3 DEF Load
<1>4. ASSUME NEW p \in Procs, Write(p)
      PROVE  AckInv'
  BY <1>4 DEF Write
<1>5. ASSUME NEW p \in Procs, Sync(p)
      PROVE  AckInv'
  BY <1>5 DEF Sync
<1>6. ASSUME NEW p \in Procs, Rename(p)
      PROVE  AckInv'
  BY <1>6 DEF Rename, Replace
<1>7. ASSUME NEW p \in Procs, SyncDir(p)
      PROVE  AckInv'
  BY <1>7 DEF SyncDir, Settled
<1>8. ASSUME NEW p \in Procs, RemoveFile(p)
      PROVE  AckInv'
  BY <1>8 DEF RemoveFile, Replace
<1>9. ASSUME NEW p \in Procs, StepFails(p)
      PROVE  AckInv'
  BY <1>9 DEF StepFails
<1>10. ASSUME NEW p \in Procs, LockFails(p)
       PROVE  AckInv'
  BY <1>10 DEF LockFails
<1>11. ASSUME NEW p \in Procs, Return(p)
       PROVE  AckInv'
  BY <1>11 DEF Return
<1>12. ASSUME NEW p \in Procs, Killed(p)
       PROVE  AckInv'
  BY <1>12 DEF Killed, Restart
<1>13. CASE LosePower
  <2>1. PICK v \in onDisk : visible' = Recovered(v)
    BY <1>13 DEF LosePower
  <2>2. visible' = v /\ onDisk' = {visible'}
    BY <1>13, <2>1 DEF LosePower, Recovered
  <2> QED BY <1>13, <2>2 DEF LosePower, Restart
<1>14. CASE UNCHANGED fileVars
  BY <1>14 DEF fileVars, procVars
<1> QED
  BY <1>1, <1>2, <1>3, <1>4, <1>5, <1>6, <1>7, <1>8, <1>9, <1>10, <1>11, <1>12, <1>13, <1>14
     DEF File, Next, vars, ReturnAndSync, BeginCall, EndCall

(* A save that returned without an error survives any kill and any power   *)
(* loss: atomic.go syncs the bytes before the rename and the directory     *)
(* after it.  So does a cleared history, but that a power loss may undo it *)
(* until a later save has synced the directory.                            *)
THEOREM AcknowledgedSurvives == Spec => []KeepsAcknowledged
<1>1. Init => FileInv /\ AckInv
  BY FileInvInit
<1>2. FileInv /\ AckInv /\ [Next]_vars => (FileInv /\ AckInv)'
  BY FileInvKept, AckInvKept
<1>3. AckInv => KeepsAcknowledged
  BY DEF AckInv
<1> QED BY <1>1, <1>2, <1>3, PTL DEF Spec

-----------------------------------------------------------------------------
(* The queue of provider calls                                             *)

Call == [item : Items, favorite : BOOLEAN, at : {"waiting", "calling", "done"}]

QueueType ==
  /\ calls \in [Procs -> Seq(Call)]
  /\ latest \in [Procs -> [Items -> Nat]]
  /\ asked \in [Procs -> [Items -> SUBSET BOOLEAN]]
  /\ sent \in [Procs -> [Items -> SUBSET BOOLEAN]]

(* The entry of a track names its last call while that call is not done;   *)
(* without an entry the last call was made.                                *)
Entry(p, x) ==
  LET n == latest[p][x] IN
  /\ n = 0 => sent[p][x] = asked[p][x]
  /\ n # 0 =>
       /\ n \in 1..Len(calls[p])
       /\ calls[p][n].item = x /\ calls[p][n].at # "done"
       /\ asked[p][x] = {calls[p][n].favorite}
       /\ calls[p][n].at = "calling" => sent[p][x] = asked[p][x]

EntryInv == \A p \in Procs, x \in Items : Entry(p, x)

QueueInv == QueueType /\ EntryInv

(* A store's operation names an item.                                      *)
LEMMA ToggledItem ==
  ASSUME NEW o \in Store!Operations, o.name = "toggle"
  PROVE  o.item \in Items
BY DEF Store!Operations

LEMMA TheCall ==
  ASSUME QueueType, NEW p \in Procs, NEW n \in DOMAIN calls[p]
  PROVE  /\ calls[p] \in Seq(Call) /\ n \in 1..Len(calls[p]) /\ n \in Nat /\ n # 0
         /\ calls[p][n].item \in Items /\ calls[p][n].favorite \in BOOLEAN
<1>1. calls[p] \in Seq(Call)
  BY DEF QueueType
<1>2. n \in 1..Len(calls[p])
  BY <1>1
<1>3. calls[p][n] \in Call
  BY <1>1, <1>2
<1> QED BY <1>1, <1>2, <1>3 DEF Call

(* One call moves on, the others stay.                                     *)
Moved(p, n, at) ==
  /\ calls' \in [Procs -> Seq(Call)]
  /\ \A q \in Procs : Len(calls'[q]) = Len(calls[q])
  /\ \A q \in Procs : \A k \in 1..Len(calls[q]) :
       /\ calls'[q][k].item = calls[q][k].item
       /\ calls'[q][k].favorite = calls[q][k].favorite
       /\ calls'[q][k].at = IF q = p /\ k = n THEN at ELSE calls[q][k].at

LEMMA CallMoves ==
  ASSUME QueueType, NEW p \in Procs, NEW n \in DOMAIN calls[p],
         NEW at \in {"waiting", "calling", "done"},
         calls' = [calls EXCEPT ![p][n].at = at]
  PROVE  Moved(p, n, at)
<1>1. calls[p] \in Seq(Call) /\ n \in 1..Len(calls[p]) /\ calls[p][n] \in Call
  BY DEF QueueType
<1> DEFINE moved == [calls[p][n] EXCEPT !.at = at]
<1>2. moved \in Call /\ moved.item = calls[p][n].item /\ moved.favorite = calls[p][n].favorite
        /\ moved.at = at
  BY <1>1 DEF Call
<1>3. calls' = [calls EXCEPT ![p] = [calls[p] EXCEPT ![n] = moved]]
  OBVIOUS
<1> HIDE DEF moved
<1>4. /\ [calls[p] EXCEPT ![n] = moved] \in Seq(Call)
      /\ Len([calls[p] EXCEPT ![n] = moved]) = Len(calls[p])
      /\ \A k \in 1..Len(calls[p]) :
           [calls[p] EXCEPT ![n] = moved][k] = IF k = n THEN moved ELSE calls[p][k]
  BY <1>1, <1>2
<1> QED BY <1>2, <1>3, <1>4 DEF QueueType, Moved

(* An entry that names another call stays good.                            *)
LEMMA EntryStays ==
  ASSUME NEW p, NEW n, NEW at, Moved(p, n, at), NEW q \in Procs, NEW y \in Items, Entry(q, y),
         latest'[q][y] = latest[q][y], asked'[q][y] = asked[q][y], sent'[q][y] = sent[q][y],
         q # p \/ latest[q][y] = 0 \/ latest[q][y] # n
  PROVE  Entry(q, y)'
<1>1. CASE latest[q][y] = 0
  BY <1>1 DEF Entry
<1>2. CASE latest[q][y] # 0
  <2> DEFINE k == latest[q][y]
  <2>1. /\ k \in 1..Len(calls[q]) /\ calls[q][k].item = y /\ calls[q][k].at # "done"
        /\ asked[q][y] = {calls[q][k].favorite}
        /\ calls[q][k].at = "calling" => sent[q][y] = asked[q][y]
    BY <1>2 DEF Entry
  <2>2. ~(q = p /\ k = n) /\ latest'[q][y] = k /\ k # 0
    BY <1>2
  <2> HIDE DEF k
  <2>3. /\ Len(calls'[q]) = Len(calls[q]) /\ calls'[q][k].item = calls[q][k].item
        /\ calls'[q][k].favorite = calls[q][k].favorite /\ calls'[q][k].at = calls[q][k].at
    BY <2>1, <2>2 DEF Moved
  <2> QED BY <2>1, <2>2, <2>3 DEF Entry
<1> QED BY <1>1, <1>2

LEMMA QueueInvKept ==
  ASSUME FileInv, QueueInv, [Next]_vars
  PROVE  QueueInv'
<1> USE DEF QueueInv
<1>1. ASSUME NEW p \in Procs, NEW x \in Items, NEW favorite \in BOOLEAN, Enqueue(p, x, favorite)
      PROVE  QueueInv'
  <2> DEFINE c == [item |-> x, favorite |-> favorite, at |-> "waiting"]
             seq == Len(calls[p]) + 1
  <2>1. /\ calls' = [calls EXCEPT ![p] = Append(@, c)]
        /\ latest' = [latest EXCEPT ![p] = [@ EXCEPT ![x] = seq]]
        /\ asked' = [asked EXCEPT ![p] = [@ EXCEPT ![x] = {favorite}]]
        /\ sent' = sent
    BY <1>1 DEF Enqueue
  <2>2. c \in Call /\ c.item = x /\ c.favorite = favorite /\ c.at = "waiting"
    BY DEF Call
  <2> HIDE DEF c
  <2>3. calls[p] \in Seq(Call) /\ seq \in Nat /\ seq # 0
    BY DEF QueueType
  <2>4. /\ Append(calls[p], c) \in Seq(Call) /\ Len(Append(calls[p], c)) = seq
        /\ Append(calls[p], c)[seq] = c
        /\ \A k \in 1..Len(calls[p]) : Append(calls[p], c)[k] = calls[p][k]
    BY <2>2, <2>3
  <2>5. QueueType'
    BY <2>1, <2>3, <2>4 DEF QueueType
  <2>6. EntryInv'
    <3> SUFFICES ASSUME NEW q \in Procs, NEW y \in Items
                 PROVE  Entry(q, y)'
      BY DEF EntryInv
    <3> USE DEF Entry
    <3>1. CASE q = p /\ y = x
      BY <2>1, <2>2, <2>3, <2>4, <3>1 DEF QueueType
    <3>2. CASE q = p /\ y # x
      BY <2>1, <2>3, <2>4, <3>2 DEF QueueType, EntryInv
    <3>3. CASE q # p
      BY <2>1, <3>3 DEF QueueType, EntryInv
    <3> QED BY <3>1, <3>2, <3>3
  <2> QED BY <2>5, <2>6
(* A call that a newer one of its track replaced is done.                  *)
<1>2. ASSUME NEW p \in Procs, NEW n \in DOMAIN calls[p],
             latest[p][calls[p][n].item] # n,
             calls' = [calls EXCEPT ![p][n].at = "done"],
             UNCHANGED <<latest, asked, sent>>
      PROVE  QueueInv'
  <2>1. Moved(p, n, "done")
    BY <1>2, CallMoves
  <2>2. QueueType'
    BY <1>2, <2>1 DEF QueueType, Moved
  <2>3. ASSUME NEW q \in Procs, NEW y \in Items
        PROVE  Entry(q, y)'
    <3>1. Entry(q, y)
      BY DEF EntryInv
    <3>2. q # p \/ latest[q][y] = 0 \/ latest[q][y] # n
      BY <1>2, <3>1 DEF Entry
    <3> QED BY <1>2, <2>1, <3>1, <3>2, EntryStays
  <2> QED BY <2>2, <2>3 DEF EntryInv
<1>3. ASSUME NEW p \in Procs, NEW n \in DOMAIN calls[p], BeginCall(p, n)
      PROVE  QueueInv'
  <2> DEFINE x == calls[p][n].item
  <2>1. x \in Items /\ n \in 1..Len(calls[p]) /\ n # 0 /\ calls[p][n].favorite \in BOOLEAN
    BY TheCall
  <2>2. CASE Skipped(p, n)
    <3>1. /\ calls' = [calls EXCEPT ![p][n].at = "done"]
          /\ UNCHANGED <<latest, asked, sent>>
      BY <1>3, <2>2 DEF BeginCall
    <3>2. latest[p][x] # n
      BY <2>2 DEF Skipped
    <3> QED BY <1>2, <2>1, <3>1, <3>2
  <2>3. CASE ~Skipped(p, n)
    <3>1. /\ calls' = [calls EXCEPT ![p][n].at = "calling"]
          /\ sent' = [sent EXCEPT ![p] = [@ EXCEPT ![x] = {calls[p][n].favorite}]]
          /\ UNCHANGED <<latest, asked>>
      BY <1>3, <2>3 DEF BeginCall
    <3>2. latest[p][x] = n
      BY <2>3 DEF Skipped
    <3>3. asked[p][x] = {calls[p][n].favorite}
      BY <2>1, <3>2 DEF EntryInv, Entry
    <3>4. Moved(p, n, "calling")
      BY <3>1, CallMoves
    <3>5. QueueType'
      BY <2>1, <3>1, <3>4 DEF QueueType, Moved
    <3>6. ASSUME NEW q \in Procs, NEW y \in Items
          PROVE  Entry(q, y)'
      <4>1. Entry(q, y)
        BY DEF EntryInv
      <4>2. CASE q = p /\ y = x
        <5>1. sent'[q][y] = {calls[p][n].favorite} /\ asked'[q][y] = asked[p][x]
          BY <2>1, <3>1, <4>2 DEF QueueType
        <5>2. latest'[q][y] = n
          BY <3>1, <3>2, <4>2
        <5> HIDE DEF x
        <5> QED BY <2>1, <3>3, <3>4, <4>1, <4>2, <5>1, <5>2, <3>2 DEF Entry, Moved
      <4>3. CASE ~(q = p /\ y = x)
        <5>1. sent'[q][y] = sent[q][y] /\ asked'[q][y] = asked[q][y] /\ latest'[q][y] = latest[q][y]
          BY <2>1, <3>1, <4>3 DEF QueueType
        <5>2. q # p \/ latest[q][y] = 0 \/ latest[q][y] # n
          BY <4>1, <4>3 DEF Entry
        <5> QED BY <3>4, <4>1, <5>1, <5>2, EntryStays
      <4> QED BY <4>2, <4>3
    <3> QED BY <3>5, <3>6 DEF EntryInv
  <2> QED BY <2>2, <2>3
<1>4. ASSUME NEW p \in Procs, NEW n \in DOMAIN calls[p], EndCall(p, n)
      PROVE  QueueInv'
  <2> DEFINE x == calls[p][n].item
  <2>1. x \in Items /\ n \in 1..Len(calls[p]) /\ n # 0
    BY TheCall
  <2>2. /\ calls[p][n].at = "calling"
        /\ calls' = [calls EXCEPT ![p][n].at = "done"]
        /\ latest' = [latest EXCEPT ![p] = Forgotten(p, n)]
        /\ UNCHANGED <<asked, sent>>
    BY <1>4 DEF EndCall
  <2>3. CASE Skipped(p, n)
    <3>1. latest' = latest
      BY <2>2, <2>3 DEF Forgotten, QueueType
    <3>2. latest[p][x] # n
      BY <2>3 DEF Skipped
    <3> QED BY <1>2, <2>1, <2>2, <3>1, <3>2
  <2>4. CASE ~Skipped(p, n)
    <3>1. latest' = [latest EXCEPT ![p] = [@ EXCEPT ![x] = 0]]
      BY <2>2, <2>4 DEF Forgotten
    <3>2. latest[p][x] = n
      BY <2>4 DEF Skipped
    <3>3. sent[p][x] = asked[p][x]
      BY <2>1, <2>2, <3>2 DEF EntryInv, Entry
    <3>4. Moved(p, n, "done")
      BY <2>2, CallMoves
    <3> HIDE DEF x
    <3>5. QueueType'
      <4>1. latest' \in [Procs -> [Items -> Nat]]
        BY <2>1, <3>1 DEF QueueType
      <4> QED BY <2>2, <3>4, <4>1 DEF QueueType, Moved
    <3>6. ASSUME NEW q \in Procs, NEW y \in Items
          PROVE  Entry(q, y)'
      <4>1. Entry(q, y) /\ sent'[q][y] = sent[q][y] /\ asked'[q][y] = asked[q][y]
        BY <2>2 DEF EntryInv
      <4>2. CASE q = p /\ y = x
        <5>1. latest'[q][y] = 0
          BY <2>1, <3>1, <4>2 DEF QueueType
        <5> QED BY <3>3, <4>1, <4>2, <5>1 DEF Entry
      <4>3. CASE ~(q = p /\ y = x)
        <5>1. latest'[q][y] = latest[q][y]
          BY <2>1, <3>1, <4>3 DEF QueueType
        <5>2. q # p \/ latest[q][y] = 0 \/ latest[q][y] # n
          BY <4>1, <4>3 DEF Entry, x
        <5> QED BY <3>4, <4>1, <5>1, <5>2, EntryStays
      <4> QED BY <4>2, <4>3
    <3> QED BY <3>5, <3>6 DEF EntryInv
  <2> QED BY <2>3, <2>4
<1>5. ASSUME NEW stopped \in SUBSET Procs, QueuesLost(stopped)
      PROVE  QueueInv'
  <2>1. QueueType'
    BY <1>5 DEF QueuesLost, NoCalls, Unsaid, QueueType
  <2>2. EntryInv'
    BY <1>5 DEF QueuesLost, NoCalls, Unsaid, QueueType, EntryInv, Entry
  <2> QED BY <2>1, <2>2
<1>6. CASE UNCHANGED syncVars
  BY <1>6 DEF syncVars, QueueType, EntryInv, Entry
<1>7. ASSUME NEW p \in Procs, ReturnAndSync(p)
      PROVE  QueueInv'
  <2>1. CASE Toggled(p)
    <3>1. op[p].change.item \in Items
      BY <1>7, <2>1, ToggledItem DEF ReturnAndSync, Return, Toggled, FileInv, HandInv
    <3>2. (~Store!Holds(loaded[p].list, op[p].change.item)) \in BOOLEAN
      OBVIOUS
    <3> QED BY <1>1, <1>7, <2>1, <3>1, <3>2 DEF ReturnAndSync
  <2>2. CASE ~Toggled(p)
    BY <1>6, <1>7, <2>2 DEF ReturnAndSync
  <2> QED BY <2>1, <2>2
<1> QED BY <1>3, <1>4, <1>5, <1>6, <1>7 DEF Next, vars, File

(* Once no call of a track is left, the last one made says what the last   *)
(* toggle said (sync.go "so the provider always ends with the last local   *)
(* state"), whatever goroutine each command runs on.                       *)
THEOREM SyncIsLast == Spec => []SyncEndsWithLast
<1>1. Init => FileInv /\ QueueInv
  BY FileInvInit DEF Init, QueueInv, QueueType, EntryInv, Entry, NoCalls, Unsaid
<1>2. FileInv /\ QueueInv /\ [Next]_vars => (FileInv /\ QueueInv)'
  BY FileInvKept, QueueInvKept
<1>3. ASSUME QueueInv, NEW p \in Procs, NEW x \in Items,
             \A n \in DOMAIN calls[p] : calls[p][n].item = x => calls[p][n].at = "done"
      PROVE  sent[p][x] = asked[p][x]
  <2>1. Entry(p, x) /\ calls[p] \in Seq(Call)
    BY <1>3 DEF QueueInv, QueueType, EntryInv
  <2>2. DOMAIN calls[p] = 1..Len(calls[p])
    BY <2>1
  <2> QED BY <1>3, <2>1, <2>2 DEF Entry
<1>4. QueueInv => SyncEndsWithLast
  BY <1>3 DEF SyncEndsWithLast
<1> QED BY <1>1, <1>2, <1>4, PTL DEF Spec

=============================================================================
