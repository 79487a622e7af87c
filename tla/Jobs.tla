-------------------------------- MODULE Jobs --------------------------------
(***************************************************************************)
(* Remote operations as jobs: the JobStore of ipc/jobs.go, the connections *)
(* that submit and cancel jobs (ipc/server.go, newV2Dispatcher in          *)
(* main.go), the ordered queue that brings them to the update loop         *)
(* (newOrderedSender), the update loop that runs them                      *)
(* (ui/model/ipc_runtime.go, ipc_extended.go), its commands and waiters,   *)
(* the goroutine that publishes their ends, and the shutdown.              *)
(*                                                                         *)
(* Kinds of operations: a "sync" one edits the player or the playlist in   *)
(* its request's update; a "setting", the theme or the visualizer, is put  *)
(* in place like that and then saved; a "load" fetches tracks in a         *)
(* command, and a later update puts them in; an "edit" changes a provider  *)
(* in a command; a "device" switches the output in a command; a "plugin"   *)
(* one runs in a goroutine of its own.                                     *)
(***************************************************************************)
EXTENDS Naturals, Sequences, FiniteSets

CONSTANTS
  Ids,          \* the job IDs that a behaviour draws
  Kinds,        \* the kinds of operations that clients submit under each ID
  Conns,        \* connections; each serves one request at a time
  Capacity,     \* of the job store
  EventSlots,   \* of the event channel; equal to the capacity in the code
  MaxEdits,     \* bound on the edits at the keyboard
  UI, Closer, Plugin,   \* who may finish a job, besides the connections
  None

ASSUME SizesAssumption ==
  Capacity \in Nat \ {0} /\ EventSlots \in Nat \ {0} /\ MaxEdits \in Nat
ASSUME KindsAssumption ==
  Kinds \in [Ids -> SUBSET {"sync", "setting", "load", "edit", "device", "plugin"}]

Immediate == {"sync", "setting"}
Actors == Conns \cup {UI, Closer, Plugin}
Active == {"queued", "running"}
Ended == {"succeeded", "failed", "canceled"}

VARIABLES
  \* the job store, under its mutex
  stored,        \* the IDs in the map
  state, kind,   \* of each job
  ended,         \* the stored jobs that ended, by FinishedAt
  old,           \* how many of them are past their TTL
  stopped,       \* the jobs whose context was canceled
  finisher,      \* who ended a job and has yet to send its event
  events,        \* the event channel
  published,     \* the jobs whose end was published
  \* the ordered queue
  pending, wake, batch, sender,
  \* the update loop, its commands and waiters
  ui,            \* what the current update does, for which job
  rev,           \* the version of the player and the playlist
  shown,         \* the version that was published last
  worker, reply, waiter, inbox,
  \* connections and shutdown
  conn, acked, closer, quit,
  \* history
  sent, taken,   \* jobs put in the queue, and handed to the update loop
  commits,       \* how often the effect of a job took place
  commitRev,     \* the version its effect produced
  snapshot       \* the version its record reports

storeVars == <<stored, state, kind, ended, old, stopped, finisher>>
eventVars == <<events, published>>
queueVars == <<pending, wake, batch, sender, sent, taken>>
uiVars == <<ui, rev, shown>>
workVars == <<worker, reply, waiter, inbox>>
connVars == <<conn, acked>>
endVars == <<closer, quit>>
effectVars == <<commits, commitRev, snapshot>>
vars == <<storeVars, eventVars, queueVars, uiVars, workVars, connVars, endVars,
          effectVars>>

NoUI == [does |-> "idle", job |-> None]
NoConn == [does |-> "idle", job |-> None]

Init ==
  /\ stored = {} /\ ended = <<>> /\ old = 0 /\ stopped = {}
  /\ state = [j \in Ids |-> "new"] /\ kind = [j \in Ids |-> None]
  /\ finisher = [j \in Ids |-> None]
  /\ events = <<>> /\ published = <<>>
  /\ pending = <<>> /\ wake = FALSE /\ batch = <<>> /\ sender = "waiting"
  /\ sent = <<>> /\ taken = <<>>
  /\ ui = NoUI /\ rev = 0 /\ shown = 0
  /\ worker = [j \in Ids |-> "none"] /\ reply = [j \in Ids |-> "none"]
  /\ waiter = [j \in Ids |-> "none"] /\ inbox = {}
  /\ conn = [c \in Conns |-> NoConn] /\ acked = {}
  /\ closer = [does |-> "serving", left |-> {}] /\ quit = FALSE
  /\ commits = [j \in Ids |-> 0] /\ commitRev = [j \in Ids |-> 0]
  /\ snapshot = [j \in Ids |-> 0]

ServerStopped == closer.does # "serving"

(* ctx.Err() of a job: its own cancel, or that of the server.              *)
CtxErr(j) == j \in stopped \/ ServerStopped

(* An actor that ended a job sends its event before it does anything else. *)
Busy(a) == \E j \in Ids : finisher[j] = a

-----------------------------------------------------------------------------
(* The job store.  Every call first prunes the jobs past their TTL.        *)

Kept == stored \ {ended[i] : i \in 1 .. old}
KeptEnded == SubSeq(ended, old + 1, Len(ended))

Prune ==
  /\ stored' = Kept /\ ended' = KeptEnded /\ old' = 0
  /\ UNCHANGED <<state, kind, stopped, finisher>>

(* Time passes for the oldest job that ended.                              *)
Age ==
  /\ old < Len(ended)
  /\ old' = old + 1
  /\ UNCHANGED <<stored, state, kind, ended, stopped, finisher, eventVars,
                 queueVars, uiVars, workVars, connVars, endVars, effectVars>>

(* A plausible bug is to allow one job too many.                           *)
BadFull == Cardinality(Kept) > Capacity
Full == Cardinality(Kept) >= Capacity

(* The job that evictTerminalLocked removes.  A plausible bug: it takes    *)
(* any job when none has ended.                                            *)
BadVictims == IF KeptEnded # <<>> THEN {Head(KeptEnded)} ELSE Kept
Victims == IF KeptEnded # <<>> THEN {Head(KeptEnded)} ELSE {}

(* CreateWithContext.                                                      *)
Store(j) ==
  /\ old' = 0
  /\ IF ~Full
       THEN /\ stored' = Kept \cup {j}
            /\ ended' = KeptEnded /\ stopped' = stopped
       ELSE \E v \in Victims :
            /\ stored' = (Kept \ {v}) \cup {j}
            /\ ended' = IF KeptEnded # <<>> THEN Tail(KeptEnded) ELSE <<>>
            /\ stopped' = stopped \cup {v}
  /\ state' = [state EXCEPT ![j] = "queued"]
  /\ \E k \in Kinds[j] : kind' = [kind EXCEPT ![j] = k]
  /\ finisher' = finisher

(* Start: queued becomes running, or the call fails.                       *)
Starts(j) == j \in Kept /\ state[j] = "queued"
Start(j) ==
  /\ stored' = Kept /\ ended' = KeptEnded /\ old' = 0
  /\ state' = IF Starts(j) THEN [state EXCEPT ![j] = "running"] ELSE state
  /\ UNCHANGED <<kind, stopped, finisher>>

(* The states that finish accepts; a plausible bug: a late result          *)
(* overwrites a cancellation.                                              *)
BadFinishable(j, outcome) == j \in Kept
Finishable(j, outcome) ==
  j \in Kept /\ IF outcome = "canceled" THEN state[j] \in Active
                                        ELSE state[j] = "running"

(* finish: the outcome, the context, and an event to send after unlocking. *)
Finish(a, j, outcome) ==
  /\ stored' = Kept /\ old' = 0 /\ kind' = kind
  /\ IF Finishable(j, outcome)
       THEN /\ state' = [state EXCEPT ![j] = outcome]
            /\ ended' = Append(KeptEnded, j)
            /\ stopped' = stopped \cup {j}
            /\ finisher' = [finisher EXCEPT ![j] = a]
       ELSE ended' = KeptEnded /\ UNCHANGED <<state, stopped, finisher>>

(* The actor sends the event, or drops it when the channel is full.        *)
SendEvent(j) ==
  /\ finisher[j] # None
  /\ finisher' = [finisher EXCEPT ![j] = None]
  /\ events' = IF Len(events) < EventSlots THEN Append(events, j) ELSE events
  /\ UNCHANGED <<stored, state, kind, ended, old, stopped, published, queueVars,
                 uiVars, workVars, connVars, endVars, effectVars>>

(* publishV2JobEvents, until the server is done.                           *)
PublishEvent ==
  /\ events # <<>> /\ closer.does # "done"
  /\ events' = Tail(events) /\ published' = Append(published, Head(events))
  /\ UNCHANGED <<storeVars, queueVars, uiVars, workVars, connVars, endVars,
                 effectVars>>

-----------------------------------------------------------------------------
(* A connection: submit, cancel and read a job.                            *)

Serves(c) == conn[c] = NoConn /\ ~Busy(c) /\ closer.does # "done"

(* newJobID draws an ID that no job has; which one does not matter.        *)
Drawn == CHOOSE j \in Ids : state[j] = "new"

Create(c, j) ==
  /\ Serves(c) /\ state[j] = "new" /\ j = Drawn
  /\ Store(j)
  /\ conn' = [conn EXCEPT ![c] = [does |-> "create", job |-> j]]
  /\ UNCHANGED <<eventVars, queueVars, uiVars, workVars, acked, endVars, effectVars>>

(* ErrJobStoreFull.                                                        *)
Refuse(c) ==
  /\ Serves(c) /\ Full /\ Victims = {}
  /\ Prune
  /\ UNCHANGED <<eventVars, queueVars, uiVars, workVars, connVars, endVars, effectVars>>

(* The dispatcher starts a plugin job, or queues the request.              *)
StartPlugin(c) ==
  LET j == conn[c].job IN
  /\ conn[c].does = "create" /\ kind[j] = "plugin"
  /\ worker' = [worker EXCEPT ![j] = "start"]
  /\ conn' = [conn EXCEPT ![c].does = "acknowledge"]
  /\ UNCHANGED <<storeVars, eventVars, queueVars, uiVars, reply, waiter, inbox,
                 acked, endVars, effectVars>>

Enqueue(c) ==
  LET j == conn[c].job IN
  /\ conn[c].does = "create" /\ kind[j] # "plugin"
  /\ pending' = Append(pending, j) /\ sent' = Append(sent, j)
  /\ conn' = [conn EXCEPT ![c].does = "wake"]
  /\ UNCHANGED <<storeVars, eventVars, wake, batch, sender, taken, uiVars,
                 workVars, acked, endVars, effectVars>>

Wake(c) ==
  /\ conn[c].does = "wake"
  /\ wake' = TRUE
  /\ conn' = [conn EXCEPT ![c].does = "acknowledge"]
  /\ UNCHANGED <<storeVars, eventVars, pending, batch, sender, sent, taken,
                 uiVars, workVars, acked, endVars, effectVars>>

Acknowledge(c) ==
  /\ conn[c].does = "acknowledge"
  /\ acked' = acked \cup {conn[c].job}
  /\ conn' = [conn EXCEPT ![c] = NoConn]
  /\ UNCHANGED <<storeVars, eventVars, queueVars, uiVars, workVars, endVars,
                 effectVars>>

(* job.cancel and job.get, for a job that some client knows.               *)
Cancel(c, j) ==
  /\ Serves(c) /\ j \in acked
  /\ Finish(c, j, "canceled")
  /\ UNCHANGED <<eventVars, queueVars, uiVars, workVars, connVars, endVars,
                 effectVars>>

Get(c, j) ==
  /\ Serves(c) /\ j \in acked
  /\ Prune
  /\ UNCHANGED <<eventVars, queueVars, uiVars, workVars, connVars, endVars,
                 effectVars>>

-----------------------------------------------------------------------------
(* The goroutine of the ordered queue.                                     *)

Awake ==
  /\ sender = "waiting" /\ wake
  /\ wake' = FALSE /\ sender' = "awake"
  /\ UNCHANGED <<storeVars, eventVars, pending, batch, sent, taken, uiVars,
                 workVars, connVars, endVars, effectVars>>

(* Under its mutex it takes all that is pending.  A plausible bug is to    *)
(* leave it there as well.                                                 *)
BadLeft == pending
Left == <<>>
Grab ==
  /\ sender = "awake"
  /\ batch' = pending /\ pending' = Left
  /\ sender' = "sending"
  /\ UNCHANGED <<storeVars, eventVars, wake, sent, taken, uiVars, workVars,
                 connVars, endVars, effectVars>>

(* prog.Send returns at once when the update loop has ended.               *)
Discard ==
  /\ quit /\ sender = "sending" /\ batch # <<>>
  /\ batch' = Tail(batch)
  /\ UNCHANGED <<storeVars, eventVars, pending, wake, sender, sent, taken, uiVars,
                 workVars, connVars, endVars, effectVars>>

EndBatch ==
  /\ sender = "sending" /\ batch = <<>>
  /\ sender' = "waiting"
  /\ UNCHANGED <<storeVars, eventVars, pending, wake, batch, sent, taken, uiVars,
                 workVars, connVars, endVars, effectVars>>

-----------------------------------------------------------------------------
(* The update loop.  An update publishes what it changed at its end.       *)

Reads == ui = NoUI /\ ~Busy(UI) /\ ~quit
Does(what, j) == [does |-> what, job |-> j]

(* Keys and media controls change the player and the playlist as well.     *)
Edit ==
  /\ Reads /\ rev < MaxEdits
  /\ rev' = rev + 1 /\ shown' = rev'
  /\ UNCHANGED <<ui, storeVars, eventVars, queueVars, workVars, connVars, endVars,
                 effectVars>>

(* handleV2Request: start the job.                                         *)
TakeRequest ==
  /\ Reads /\ sender = "sending" /\ batch # <<>>
  /\ LET j == Head(batch) IN
       /\ batch' = Tail(batch) /\ taken' = Append(taken, j)
       /\ Start(j)
       /\ ui' = IF Starts(j) THEN Does("begin", j) ELSE NoUI
  /\ UNCHANGED <<rev, shown, eventVars, pending, wake, sender, sent, workVars,
                 connVars, endVars, effectVars>>

(* It stops here if the context was canceled.  A plausible bug is not to   *)
(* look.                                                                   *)
BadDropped(j) == FALSE
Dropped(j) == CtxErr(j)

DropRequest ==
  /\ ui.does = "begin" /\ Dropped(ui.job)
  /\ ui' = NoUI
  /\ UNCHANGED <<rev, shown, storeVars, eventVars, queueVars, workVars, connVars,
                 endVars, effectVars>>

BeginSync ==
  /\ ui.does = "begin" /\ ~Dropped(ui.job) /\ kind[ui.job] \in Immediate
  /\ \E next \in {"apply", "fail"} : ui' = Does(next, ui.job)
  /\ UNCHANGED <<rev, shown, storeVars, eventVars, queueVars, workVars, connVars,
                 endVars, effectVars>>

(* The work goes to a command, and its end to a waiter; the command of a   *)
(* device operation sends its response itself.                             *)
BeginCommand ==
  LET j == ui.job IN
  /\ ui.does = "begin" /\ ~Dropped(j) /\ kind[j] \notin Immediate
  /\ worker' = [worker EXCEPT ![j] = "run"]
  /\ waiter' = [waiter EXCEPT ![j] = IF kind[j] = "device" THEN "none" ELSE "wait"]
  /\ ui' = NoUI
  /\ UNCHANGED <<rev, shown, storeVars, eventVars, queueVars, reply, inbox,
                 connVars, endVars, effectVars>>

(* The operation takes effect.  When a setting cannot be saved the job     *)
(* fails, and the setting stays.                                           *)
Apply ==
  LET j == ui.job IN
  /\ ui.does = "apply"
  /\ rev' = rev + 1
  /\ commits' = [commits EXCEPT ![j] = @ + 1]
  /\ commitRev' = [commitRev EXCEPT ![j] = rev']
  /\ \/ ui' = Does("complete", j)
     \/ kind[j] = "setting" /\ ui' = Does("fail", j)
  /\ UNCHANGED <<shown, snapshot, storeVars, eventVars, queueVars, workVars,
                 connVars, endVars>>

(* completeV2Job looks at the context, ...                                 *)
Complete ==
  LET j == ui.job IN
  /\ ui.does = "complete"
  /\ Prune
  /\ IF j \in Kept /\ ~CtxErr(j) THEN ui' = Does("finish", j) /\ shown' = shown
                                 ELSE ui' = NoUI /\ shown' = rev
  /\ UNCHANGED <<rev, eventVars, queueVars, workVars, connVars, endVars, effectVars>>

(* ... publishes the state, and finishes the job with a snapshot of what   *)
(* was published.  A plausible bug: the snapshot is taken before that.     *)
BadSnapshot == shown
Snapshot == rev
FinishDone ==
  LET j == ui.job IN
  /\ ui.does = "finish"
  /\ shown' = rev
  /\ Finish(UI, j, "succeeded")
  /\ snapshot' = IF Finishable(j, "succeeded") THEN [snapshot EXCEPT ![j] = Snapshot]
                                               ELSE snapshot
  /\ ui' = NoUI
  /\ UNCHANGED <<rev, commits, commitRev, eventVars, queueVars, workVars, connVars,
                 endVars>>

FinishFailed ==
  /\ ui.does = "fail"
  /\ Finish(UI, ui.job, "failed")
  /\ ui' = NoUI /\ shown' = rev
  /\ UNCHANGED <<rev, eventVars, queueVars, workVars, connVars, endVars, effectVars>>

(* What the reply channel of a request gets.  A plausible bug: the error   *)
(* path returns without a reply.                                           *)
BadReply(j, text) == reply' = IF text = "ok" THEN [reply EXCEPT ![j] = text] ELSE reply
Reply(j, text) == reply' = [reply EXCEPT ![j] = text]

(* handleIPCProviderLoad and handleIPCURLResult: drop the result of a      *)
(* canceled job, ...                                                       *)
TakeLoaded(j) ==
  \E ok \in BOOLEAN :
    /\ Reads /\ [what |-> "loaded", job |-> j, ok |-> ok] \in inbox
    /\ inbox' = inbox \ {[what |-> "loaded", job |-> j, ok |-> ok]}
    /\ IF CtxErr(j) THEN ui' = NoUI /\ reply' = reply
       ELSE IF ok   THEN ui' = Does("put", j) /\ reply' = reply
                    ELSE ui' = NoUI /\ Reply(j, "error")
    /\ UNCHANGED <<rev, shown, storeVars, eventVars, queueVars, worker, waiter,
                   connVars, endVars, effectVars>>

(* ... or put the tracks in and reply to the waiter.                       *)
PutLoaded ==
  LET j == ui.job IN
  /\ ui.does = "put"
  /\ rev' = rev + 1 /\ shown' = rev'
  /\ commits' = [commits EXCEPT ![j] = @ + 1]
  /\ commitRev' = [commitRev EXCEPT ![j] = rev']
  /\ Reply(j, "ok")
  /\ ui' = NoUI
  /\ UNCHANGED <<snapshot, storeVars, eventVars, queueVars, worker, waiter, inbox,
                 connVars, endVars>>

(* handleV2Response.  A new output device is recorded and saved first.     *)
TakeResponse(j) ==
  \E ok \in BOOLEAN :
    /\ Reads /\ [what |-> "response", job |-> j, ok |-> ok] \in inbox
    /\ inbox' = inbox \ {[what |-> "response", job |-> j, ok |-> ok]}
    /\ ui' = Does(IF ok THEN "complete" ELSE "fail", j)
    /\ IF ok /\ kind[j] = "device"
         THEN rev' = rev + 1 /\ commitRev' = [commitRev EXCEPT ![j] = rev']
         ELSE UNCHANGED <<rev, commitRev>>
    /\ UNCHANGED <<shown, commits, snapshot, storeVars, eventVars, queueVars,
                   worker, reply, waiter, connVars, endVars>>

-----------------------------------------------------------------------------
(* Commands, waiters and plugin goroutines.                                *)

Send(what, j, ok) == inbox' = inbox \cup {[what |-> what, job |-> j, ok |-> ok]}

Load(j) ==
  /\ worker[j] = "run" /\ kind[j] = "load"
  /\ worker' = [worker EXCEPT ![j] = "gone"]
  /\ \E ok \in BOOLEAN : Send("loaded", j, ok)
  /\ UNCHANGED <<reply, waiter, storeVars, eventVars, queueVars, uiVars, connVars,
                 endVars, effectVars>>

(* ipcMutationCmd: look at the context, then change the provider.          *)
CheckEdit(j) ==
  /\ worker[j] = "run" /\ kind[j] = "edit"
  /\ worker' = [worker EXCEPT ![j] = IF CtxErr(j) THEN "gone" ELSE "change"]
  /\ UNCHANGED <<reply, waiter, inbox, storeVars, eventVars, queueVars, uiVars,
                 connVars, endVars, effectVars>>

(* What runs outside the program may fail with its effect in place, or     *)
(* with a part of it (provider.AddTracks).                                 *)
TakesEffect(j, ok) ==
  \/ commits' = [commits EXCEPT ![j] = @ + 1]
  \/ ~ok /\ UNCHANGED commits

Answer(ok) == IF ok THEN "ok" ELSE "error"
ChangeProvider(j) ==
  /\ worker[j] = "change"
  /\ worker' = [worker EXCEPT ![j] = "gone"]
  /\ \E ok \in BOOLEAN :
       /\ TakesEffect(j, ok)
       /\ Reply(j, Answer(ok))
  /\ UNCHANGED <<waiter, inbox, commitRev, snapshot, storeVars, eventVars,
                 queueVars, uiVars, connVars, endVars>>

(* The command of handleV2Device does not look at the context.             *)
SwitchDevice(j) ==
  /\ worker[j] = "run" /\ kind[j] = "device"
  /\ worker' = [worker EXCEPT ![j] = "gone"]
  /\ \E ok \in BOOLEAN :
       /\ TakesEffect(j, ok)
       /\ Send("response", j, ok)
  /\ UNCHANGED <<reply, waiter, commitRev, snapshot, storeVars, eventVars,
                 queueVars, uiVars, connVars, endVars>>

(* waitV2ResponseCmd takes either when both are ready.                     *)
Await(j) ==
  /\ waiter[j] = "wait"
  /\ \/ reply[j] # "none" /\ Send("response", j, reply[j] = "ok")
     \/ CtxErr(j) /\ inbox' = inbox
  /\ waiter' = [waiter EXCEPT ![j] = "gone"]
  /\ UNCHANGED <<worker, reply, storeVars, eventVars, queueVars, uiVars, connVars,
                 endVars, effectVars>>

(* runV2PluginJob.                                                         *)
PluginStart(j) ==
  /\ worker[j] = "start"
  /\ Start(j)
  /\ worker' = [worker EXCEPT ![j] = IF Starts(j) /\ ~CtxErr(j) THEN "call" ELSE "gone"]
  /\ UNCHANGED <<reply, waiter, inbox, eventVars, queueVars, uiVars, connVars,
                 endVars, effectVars>>

PluginCall(j) ==
  /\ worker[j] = "call" /\ ~Busy(Plugin)
  /\ worker' = [worker EXCEPT ![j] = "gone"]
  /\ \E ok \in BOOLEAN :
       /\ TakesEffect(j, ok)
       /\ Finish(Plugin, j, IF ok THEN "succeeded" ELSE "failed")
  /\ UNCHANGED <<reply, waiter, inbox, commitRev, snapshot, eventVars, queueVars,
                 uiVars, connVars, endVars>>

-----------------------------------------------------------------------------
(* The program ends: the update loop first, then Server.Close cancels the  *)
(* context of the server, takes the IDs of the jobs that have not ended,   *)
(* cancels them one by one, and is done.                                   *)

Quit ==
  /\ Reads /\ quit' = TRUE
  /\ UNCHANGED <<closer, storeVars, eventVars, queueVars, uiVars, workVars,
                 connVars, effectVars>>

StopServer ==
  /\ quit /\ closer.does = "serving"
  /\ closer' = [closer EXCEPT !.does = "stopped"]
  /\ UNCHANGED <<quit, storeVars, eventVars, queueVars, uiVars, workVars, connVars,
                 effectVars>>

ListActive ==
  /\ closer.does = "stopped"
  /\ closer' = [does |-> "cancel", left |-> {j \in stored : state[j] \in Active}]
  /\ UNCHANGED <<quit, storeVars, eventVars, queueVars, uiVars, workVars, connVars,
                 effectVars>>

CancelListed(j) ==
  /\ closer.does = "cancel" /\ ~Busy(Closer) /\ j \in closer.left
  /\ closer' = [closer EXCEPT !.left = @ \ {j}]
  /\ Finish(Closer, j, "canceled")
  /\ UNCHANGED <<quit, eventVars, queueVars, uiVars, workVars, connVars, effectVars>>

EndServer ==
  /\ closer.does = "cancel" /\ ~Busy(Closer) /\ closer.left = {}
  /\ closer' = [closer EXCEPT !.does = "done"]
  /\ UNCHANGED <<quit, storeVars, eventVars, queueVars, uiVars, workVars, connVars,
                 effectVars>>

-----------------------------------------------------------------------------

Submits(c) == StartPlugin(c) \/ Enqueue(c) \/ Wake(c) \/ Acknowledge(c)
Asks(c) == Refuse(c) \/ \E j \in Ids : Create(c, j) \/ Cancel(c, j) \/ Get(c, j)
Sender == Awake \/ Grab \/ Discard \/ EndBatch
Updates ==
  \/ TakeRequest \/ DropRequest \/ BeginSync \/ BeginCommand
  \/ Apply \/ Complete \/ FinishDone \/ FinishFailed \/ PutLoaded
  \/ \E j \in Ids : TakeLoaded(j) \/ TakeResponse(j)
Works(j) ==
  \/ Load(j) \/ CheckEdit(j) \/ ChangeProvider(j) \/ SwitchDevice(j)
  \/ PluginStart(j) \/ PluginCall(j)
Closing == StopServer \/ ListActive \/ EndServer \/ \E j \in Ids : CancelListed(j)

(* Once the server is closed the process exits.                            *)
Next ==
  /\ closer.does # "done"
  /\ \/ \E c \in Conns : Submits(c) \/ Asks(c)
     \/ Sender \/ Updates \/ Edit
     \/ \E j \in Ids : Works(j) \/ Await(j) \/ SendEvent(j)
     \/ PublishEvent \/ Age
     \/ Quit \/ Closing

Spec == Init /\ [][Next]_vars

(* Every goroutine runs on: provider calls and plugin commands have time   *)
(* limits, and until the program ends the update loop reads the messages   *)
(* that wait for it.                                                       *)
FairSpec ==
  /\ Init /\ [][Next]_vars
  /\ WF_vars(Sender) /\ WF_vars(Updates)
  /\ \A c \in Conns : WF_vars(Submits(c))
  /\ \A j \in Ids : WF_vars(Works(j)) /\ WF_vars(Await(j)) /\ WF_vars(SendEvent(j))

-----------------------------------------------------------------------------
(* What must hold.                                                         *)

TypeOK ==
  /\ stored \subseteq Ids /\ Cardinality(stored) <= Capacity
  /\ state \in [Ids -> {"new"} \cup Active \cup Ended] /\ \A j \in Ids : kind[j] \in Kinds[j] \cup {None}
  /\ ended \in Seq(Ids) /\ old \in 0 .. Len(ended)
  /\ stopped \subseteq Ids /\ finisher \in [Ids -> Actors \cup {None}]
  /\ events \in Seq(Ids) /\ Len(events) <= EventSlots /\ published \in Seq(Ids)
  /\ pending \in Seq(Ids) /\ batch \in Seq(Ids) /\ wake \in BOOLEAN
  /\ sender \in {"waiting", "awake", "sending"}
  /\ ui.job \in Ids \cup {None} /\ rev \in Nat /\ shown \in Nat
  /\ acked \subseteq Ids /\ quit \in BOOLEAN

(* The store drops a job only after it ended (evictTerminalLocked,         *)
(* pruneExpiredLocked): a client that waits for a running job finds it.    *)
ActiveNeverDropped == \A j \in Ids : state[j] \in Active => j \in stored

(* While the program runs, the queue hands every message on, once and in   *)
(* order, and while messages wait its goroutine is awake or will be woken  *)
(* (newOrderedSender).                                                     *)
QueueLosesNothing ==
  /\ quit \/ sent = taken \o batch \o pending
  /\ pending # <<>> =>
       wake \/ sender = "awake" \/ \E c \in Conns : conn[c].does = "wake"

(* A job that a client submitted is lost nowhere before it ends: not in    *)
(* the store, not on its way to the update loop.                           *)
SubmissionsKept == ActiveNeverDropped /\ QueueLosesNothing

(* A job that succeeded took effect exactly once.  One that failed did not *)
(* if it edits or loads what the program plays; a setting that cannot be   *)
(* saved, a provider, the output and a plugin may fail with the effect in  *)
(* place, but not twice (completeV2Job, failV2Job and their callers).      *)
ToldTruly(j, ok) ==
  IF ok THEN commits[j] = 1
        ELSE commits[j] \in {0, 1} /\ (kind[j] \in {"sync", "load"} => commits[j] = 0)

OutcomeTold ==
  \A j \in Ids : /\ state[j] = "succeeded" => ToldTruly(j, TRUE)
                 /\ state[j] = "failed" => ToldTruly(j, FALSE)

(* The record of a job that succeeded never reports a state from before    *)
(* its effect, and that of a synchronous one exactly the state after it    *)
(* (SucceedWithSnapshot: "the state committed by the operation").          *)
SnapshotCoversEffect ==
  \A j \in Ids : state[j] = "succeeded" /\ kind[j] # "plugin" =>
    /\ snapshot[j] >= commitRev[j]
    /\ kind[j] \in Immediate => snapshot[j] = commitRev[j]

(* The end of a job is announced at most once, and only of a job that      *)
(* ended (finish, publishV2JobEvents).                                     *)
AnnouncedOnce ==
  \A i, k \in DOMAIN published :
    /\ state[published[i]] \in Ended
    /\ i # k => published[i] # published[k]

(* An outcome is final: a late result does not undo a cancellation, nor a  *)
(* late cancellation a result (finish).                                    *)
OutcomeFinal ==
  [][\A j \in Ids : state[j] \in Ended => state'[j] = state[j]]_vars

(* A job that was canceled before the update loop began it never takes     *)
(* effect (handleV2Request).                                               *)
CanceledNeverBegins ==
  [][\A j \in Ids : state[j] = "canceled" /\ ui = Does("begin", j) =>
       commits'[j] = 0 /\ ui'.does # "apply"]_vars

(* Every job ends, unless the program does: the waiter, the command and    *)
(* the queue all see to it.  (P ~> ~P \/ Q is []<>(~P \/ Q).)               *)
EveryJobEnds ==
  \A j \in Ids : []<>(state[j] \notin Active \/ quit)

(* "cancellation prevents late results from committing" (jobs.go:223).     *)
CanceledNeverCommits ==
  [][\A j \in Ids : commits'[j] > commits[j] => state[j] # "canceled"]_vars

(* "a job is acknowledged before the Model reads it" (main.go:708).        *)
AcknowledgedFirst == \A i \in DOMAIN taken : taken[i] \in acked

(* The final record has "the snapshot from the committed operation"        *)
(* (docs/remote-control.md:53).                                            *)
SnapshotOfCommit ==
  \A j \in Ids : state[j] = "succeeded" /\ kind[j] \in {"sync", "setting", "load"} =>
    snapshot[j] = commitRev[j]
=============================================================================
