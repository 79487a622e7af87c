----------------------------- MODULE Favorites -----------------------------
(***************************************************************************)
(* The favorites file (ConfigFile) and the copies of its changes to the    *)
(* provider that owns the track: after each toggle the UI enqueues a call  *)
(* (ui/model/favorites.go), whose command runs on a goroutine of its own,  *)
(* in whatever order; a queue per process (favorites/sync.go) runs one at  *)
(* a time and skips those that a newer change of the track replaces.       *)
(***************************************************************************)
EXTENDS ConfigFile

VARIABLES
  calls,    \* what each process has enqueued, by sequence number
  latest,   \* per process and track: the number of its last call, 0: none
  callMu,   \* per process: the number of the call that runs, 0: none
  asked,    \* ghost: {what the last call enqueued for each track says}
  sent      \* ghost: {what the last call made for each track said}

syncVars == <<calls, latest, callMu, asked, sent>>
vars == <<fileVars, syncVars>>

NoCalls == [x \in Items |-> 0]
Unsaid  == [x \in Items |-> {}]

Init ==
  /\ FileInit
  /\ calls = [p \in Procs |-> <<>>]
  /\ latest = [p \in Procs |-> NoCalls]
  /\ callMu = [p \in Procs |-> 0]
  /\ asked = [p \in Procs |-> Unsaid] /\ sent = [p \in Procs |-> Unsaid]

-----------------------------------------------------------------------------
(* SyncQueue *)

(* syncTrackFavoriteCmd, right after a toggle that did not fail.           *)
Enqueue(p, x, favorite) ==
  LET seq == Len(calls[p]) + 1 IN
  /\ calls' = [calls EXCEPT ![p] =
                 Append(@, [item |-> x, favorite |-> favorite, at |-> "waiting"])]
  /\ latest' = [latest EXCEPT ![p][x] = seq]
  /\ asked' = [asked EXCEPT ![p][x] = {favorite}]
  /\ UNCHANGED <<callMu, sent>>

BadSkipped(p, n) == FALSE

Skipped(p, n) == latest[p][calls[p][n].item] # n

(* A command gets callMu; a call that is not the last of its track is not  *)
(* made.                                                                   *)
BeginCall(p, n) ==
  /\ callMu[p] = 0 /\ calls[p][n].at = "waiting"
  /\ IF Skipped(p, n)
     THEN calls' = [calls EXCEPT ![p][n].at = "done"] /\ UNCHANGED <<callMu, sent>>
     ELSE /\ calls' = [calls EXCEPT ![p][n].at = "calling"]
          /\ callMu' = [callMu EXCEPT ![p] = n]
          /\ sent' = [sent EXCEPT ![p][calls[p][n].item] = {calls[p][n].favorite}]
  /\ UNCHANGED <<fileVars, latest, asked>>

BadForgotten(p, n) == [latest[p] EXCEPT ![calls[p][n].item] = 0]

(* The entry goes only when no newer call has replaced it.                 *)
Forgotten(p, n) ==
  IF Skipped(p, n) THEN latest[p] ELSE [latest[p] EXCEPT ![calls[p][n].item] = 0]

(* apply has returned, with or without an error, which the UI shows.       *)
EndCall(p, n) ==
  /\ callMu[p] = n /\ calls[p][n].at = "calling"
  /\ latest' = [latest EXCEPT ![p] = Forgotten(p, n)]
  /\ calls' = [calls EXCEPT ![p][n].at = "done"]
  /\ callMu' = [callMu EXCEPT ![p] = 0]
  /\ UNCHANGED <<fileVars, asked, sent>>

-----------------------------------------------------------------------------

(* A toggle that returned an error is not copied; neither is an import.    *)
Toggled(p) == op[p].change.name = "toggle" /\ result[p] = "ok"

ReturnAndSync(p) ==
  /\ Return(p)
  /\ IF Toggled(p)
     THEN Enqueue(p, op[p].change.item, ~Store!Holds(loaded[p].list, op[p].change.item))
     ELSE UNCHANGED syncVars

(* A process that stops takes its queue with it.                           *)
QueuesLost(stopped) ==
  /\ calls'  = [p \in Procs |-> IF p \in stopped THEN <<>> ELSE calls[p]]
  /\ latest' = [p \in Procs |-> IF p \in stopped THEN NoCalls ELSE latest[p]]
  /\ callMu' = [p \in Procs |-> IF p \in stopped THEN 0 ELSE callMu[p]]
  /\ asked'  = [p \in Procs |-> IF p \in stopped THEN Unsaid ELSE asked[p]]
  /\ sent'   = [p \in Procs |-> IF p \in stopped THEN Unsaid ELSE sent[p]]

File(A) == A /\ UNCHANGED syncVars

Next ==
  \/ \E p \in Procs : File(Ask(p))
  \/ \E p \in Procs : File(LockFile(p))
  \/ \E p \in Procs : File(Load(p))
  \/ \E p \in Procs : File(Write(p))
  \/ \E p \in Procs : File(Sync(p))
  \/ \E p \in Procs : File(Rename(p))
  \/ \E p \in Procs : File(SyncDir(p))
  \/ \E p \in Procs : File(RemoveFile(p))
  \/ \E p \in Procs : File(StepFails(p))
  \/ \E p \in Procs : File(LockFails(p))
  \/ \E p \in Procs : ReturnAndSync(p)
  \/ \E p \in Procs : \E n \in DOMAIN calls[p] : BeginCall(p, n)
  \/ \E p \in Procs : \E n \in DOMAIN calls[p] : EndCall(p, n)
  \/ \E p \in Procs : Killed(p) /\ QueuesLost({p})
  \/ LosePower /\ QueuesLost(Procs)

Spec == Init /\ [][Next]_vars

-----------------------------------------------------------------------------
(* However the commands are scheduled, the last call a process makes for a *)
(* track says what its last toggle of that track said, once none of its    *)
(* calls is left (sync.go "so the provider always ends with the last local *)
(* state").                                                                *)
SyncEndsWithLast ==
  \A p \in Procs, x \in Items :
    (\A n \in DOMAIN calls[p] : calls[p][n].item = x => calls[p][n].at = "done") =>
      sent[p][x] = asked[p][x]

(* The same against the file: the code does not promise it where several   *)
(* processes toggle, nor where only the sync of the directory fails, after *)
(* which the toggle is on the path but was reported as failed.             *)
ProviderEndsWithLocal ==
  \A p \in Procs, x \in Items :
    (pc[p] = "idle" /\ \A n \in DOMAIN calls[p] : calls[p][n].at = "done") =>
      sent[p][x] \subseteq {Store!Holds(visible.list, x)}
=============================================================================
