------------------------------- MODULE Plugins -------------------------------
(***************************************************************************)
(* One Lua plugin and all that calls into it (luaplugin/): the worker that *)
(* runs its queue of events, timers, the callbacks of its processes, a     *)
(* command from a client, a visualizer's frames, its load, and Close.      *)
(* p.mu is held for each call, so at most one of them runs Lua.            *)
(***************************************************************************)
EXTENDS Naturals, Sequences, FiniteSets, SequencesExt

CONSTANTS
  Afters, Everies,  \* the timers of cliamp.timer.after and .every
  Execs,            \* the processes of cliamp.exec.run
  ExecCap,          \* how many may run at once (execMaxPerPlugin)
  QueueSize,        \* eventQueueSize
  HasVis,           \* whether the plugin is a visualizer
  MaxWork,          \* bound: events, timers, processes, commands and
                    \* visualizers in one behaviour, the last one counted twice
  Nobody

Timers == Afters \cup Everies

ASSUME PluginsAssumption ==
  /\ Afters \cap Everies = {} /\ Timers \cap Execs = {}
  /\ ExecCap \in Nat /\ QueueSize \in Nat /\ MaxWork \in Nat /\ HasVis \in BOOLEAN

(* Those who call into the plugin are told apart, and none of them is      *)
(* Nobody.                                                                 *)
Callers == {"load", "worker", "command", "quit", "render"}
ASSUME NamesAssumption ==
  /\ Nobody \notin Callers \cup Timers \cup Execs
  /\ Callers \cap (Timers \cup Execs) = {}

VARIABLES
  mu,                 \* p.mu: who runs Lua
  vmClosed,           \* p.closed
  loaded,             \* "loading", "loaded" or "failed"
  closing, cmdCanceled, ctxCanceled, dropQueued,
  closer, victims,    \* Close, or cleanupPlugin; the processes that it waits for
  queue, queueOpen, worker,
  timer, timers, stopped,  \* timer goroutines; tm.timers; closed done channels
  exec, killed,       \* process goroutines; canceled contexts
  command,            \* an EmitCommand goroutine, counted by m.wg
  retained,           \* whether the broker keeps a value of the plugin
  vis, pending,       \* the UI's visualizer driver; vis.pending
  emitted, accepted, ran, inited \* history

lockVars == <<mu, vmClosed>>
closeVars == <<loaded, closing, cmdCanceled, ctxCanceled, dropQueued, closer, victims>>
queueVars == <<queue, queueOpen, worker>>
timerVars == <<timer, timers, stopped>>
execVars == <<exec, killed>>
visVars == <<vis, pending>>
history == <<emitted, accepted, ran, inited>>
vars == <<lockVars, closeVars, queueVars, timerVars, execVars, command, retained, visVars, history>>

(* What waits in the queue: an event or a key, or a visualizer's call.     *)
Event(n) == [kind |-> "event", n |-> n]
VisCall(name) == [kind |-> name, n |-> 0]
Quit == VisCall("quit")
Idle == VisCall("idle")
Exited == VisCall("exited")
IsVis(call) == call.kind \in {"init", "destroy"}

Init ==
  /\ mu = "load" /\ vmClosed = FALSE /\ loaded = "loading"
  /\ closing = FALSE /\ cmdCanceled = FALSE /\ ctxCanceled = FALSE /\ dropQueued = FALSE
  /\ closer = "open" /\ victims = {}
  /\ queue = <<>> /\ queueOpen = TRUE /\ worker = Idle
  /\ timer = [t \in Timers |-> "new"] /\ timers = {} /\ stopped = {}
  /\ exec = [x \in Execs |-> "new"] /\ killed = {}
  /\ command = "new" /\ retained = FALSE
  /\ vis = "never" /\ pending = 0
  /\ emitted = 0 /\ accepted = <<>> /\ ran = <<>> /\ inited = FALSE

-----------------------------------------------------------------------------
(* call: a caller that gets p.mu runs its Lua unless the VM is closed or   *)
(* the parent context ended.                                               *)

BadOpen(parentEnded) == ~parentEnded
Open(parentEnded) == ~vmClosed /\ ~parentEnded

(* c has p.mu.  It keeps it to run Lua, or returns at once.                *)
Lock(c, runs) == mu = Nobody /\ mu' = IF runs THEN c ELSE Nobody

Unlock(c) == mu = c /\ mu' = Nobody

-----------------------------------------------------------------------------
(* What Lua does while it runs                                             *)

RunsLua == mu # Nobody

(* The bound on the model.                                                 *)
Work == emitted + (IF command = "new" THEN 0 ELSE 1) + (IF vis = "never" THEN 0 ELSE 2)
          + Cardinality({t \in Timers : timer[t] # "new"})
          + Cardinality({x \in Execs : exec[x] # "new"})

StartTimer(t) ==
  /\ RunsLua /\ timer[t] = "new" /\ Work < MaxWork
  /\ timer' = [timer EXCEPT ![t] = "wait"]
  /\ timers' = timers \cup {t}
  /\ UNCHANGED <<lockVars, closeVars, queueVars, stopped, execVars, command, retained, visVars,
                 history>>

CancelTimer(t) ==
  /\ RunsLua /\ t \in timers
  /\ timers' = timers \ {t}
  /\ stopped' = stopped \cup {t}
  /\ UNCHANGED <<lockVars, closeVars, queueVars, timer, execVars, command, retained, visVars,
                 history>>

Entries == {x \in Execs : exec[x] \in {"read", "line", "output"}}

StartProcess(x) ==
  /\ RunsLua /\ exec[x] = "new" /\ Work < MaxWork
  /\ Cardinality(Entries) < ExecCap
  /\ exec' = [exec EXCEPT ![x] = "read"]
  /\ UNCHANGED <<lockVars, closeVars, queueVars, timerVars, killed, command, retained, visVars,
                 history>>

CancelProcess(x) ==
  /\ RunsLua /\ x \in Entries \ killed
  /\ killed' = killed \cup {x}
  /\ UNCHANGED <<lockVars, closeVars, queueVars, timerVars, exec, command, retained, visVars,
                 history>>

Publish ==
  /\ RunsLua /\ ~retained
  /\ retained' = TRUE
  /\ UNCHANGED <<lockVars, closeVars, queueVars, timerVars, execVars, command, visVars, history>>

-----------------------------------------------------------------------------
(* Events, keys and visualizer calls: Emit, enqueue, runQueue              *)

(* The call is queued, or dropped when the queue is full.                  *)
Enqueue(call) == queue' = IF Len(queue) < QueueSize THEN Append(queue, call) ELSE queue

Emit ==
  /\ loaded = "loaded" /\ ~closing /\ Work < MaxWork
  /\ emitted' = emitted + 1
  /\ Enqueue(Event(emitted + 1))
  /\ accepted' = IF queue' # queue THEN Append(accepted, Event(emitted + 1)) ELSE accepted
  /\ UNCHANGED <<lockVars, closeVars, queueOpen, worker, timerVars, execVars, command, retained,
                 visVars, ran, inited>>

BadTakeCall == Last(queue)
TakeCall == Head(queue)

NextCall ==
  /\ loaded = "loaded" /\ worker = Idle /\ queue # <<>>
  /\ worker' = IF dropQueued THEN Idle ELSE TakeCall
  /\ queue' = Tail(queue)
  /\ UNCHANGED <<lockVars, closeVars, queueOpen, timerVars, execVars, command, retained, visVars,
                 history>>

WorkerCall ==
  /\ worker \notin {Idle, Exited}
  /\ LET runs == Open(ctxCanceled) IN
     /\ Lock("worker", runs)
     /\ IF runs
        THEN /\ ran' = IF IsVis(worker) THEN ran ELSE Append(ran, worker)
             /\ inited' = IF IsVis(worker) THEN worker.kind = "init" ELSE inited
             /\ UNCHANGED <<worker, pending>>
        ELSE /\ worker' = Idle
             /\ pending' = IF IsVis(worker) THEN pending - 1 ELSE pending
             /\ UNCHANGED <<ran, inited>>
  /\ UNCHANGED <<vmClosed, closeVars, queue, queueOpen, timerVars, execVars, command, retained,
                 vis, emitted, accepted>>

WorkerReturn ==
  /\ Unlock("worker")
  /\ worker' = Idle
  /\ pending' = IF IsVis(worker) THEN pending - 1 ELSE pending
  /\ UNCHANGED <<vmClosed, closeVars, queue, queueOpen, timerVars, execVars, command, retained,
                 vis, history>>

WorkerExit ==
  /\ worker = Idle /\ queue = <<>> /\ ~queueOpen
  /\ worker' = Exited
  /\ UNCHANGED <<lockVars, closeVars, queue, queueOpen, timerVars, execVars, command, retained,
                 visVars, history>>

-----------------------------------------------------------------------------
(* The visualizer: the UI's driver, queueVis and RenderVis                 *)

UI == HasVis /\ loaded = "loaded" /\ mu # "render"

SelectVis ==
  /\ UI
  /\ vis = "off" \/ (vis = "never" /\ Work + 2 <= MaxWork)
  /\ vis' = "entered"
  /\ UNCHANGED <<lockVars, closeVars, queueVars, timerVars, execVars, command, retained, pending,
                 history>>

(* queueVis counts the call as pending unless it was dropped.              *)
QueueVis(call) ==
  IF closing THEN UNCHANGED <<queue, pending>>
  ELSE /\ Enqueue(call)
       /\ pending' = IF queue' # queue THEN pending + 1 ELSE pending

InitVis ==
  /\ UI /\ vis = "entered"
  /\ vis' = "ready"
  /\ QueueVis(VisCall("init"))
  /\ UNCHANGED <<lockVars, closeVars, queueOpen, worker, timerVars, execVars, command, retained,
                 history>>

BadMayRender == mu = Nobody
MayRender == pending = 0 /\ mu = Nobody

(* RenderVis tries the lock, and gives up when a call of init or destroy   *)
(* waits; the last frame stays on the screen.                              *)
RenderVis ==
  /\ UI /\ vis = "ready" /\ MayRender /\ Open(ctxCanceled)
  /\ mu' = "render"
  /\ UNCHANGED <<vmClosed, closeVars, queueVars, timerVars, execVars, command, retained, visVars,
                 history>>

RenderReturn ==
  /\ Unlock("render")
  /\ UNCHANGED <<vmClosed, closeVars, queueVars, timerVars, execVars, command, retained, visVars,
                 history>>

LeaveVis ==
  /\ UI /\ vis \in {"entered", "ready"}
  /\ vis' = "off"
  /\ IF vis = "ready" THEN QueueVis(VisCall("destroy")) ELSE UNCHANGED <<queue, pending>>
  /\ UNCHANGED <<lockVars, closeVars, queueOpen, worker, timerVars, execVars, command, retained,
                 history>>

-----------------------------------------------------------------------------
(* Timers: the goroutine waits for its time or for its done channel        *)

TimerFires(t) ==
  /\ timer[t] = "wait" /\ t \notin stopped
  /\ timer' = [timer EXCEPT ![t] = "fired"]
  /\ UNCHANGED <<lockVars, closeVars, queueVars, timers, stopped, execVars, command, retained,
                 visVars, history>>

TimerStops(t) ==
  /\ timer[t] = "wait" /\ t \in stopped
  /\ timer' = [timer EXCEPT ![t] = "exited"]
  /\ UNCHANGED <<lockVars, closeVars, queueVars, timers, stopped, execVars, command, retained,
                 visVars, history>>

(* take and active run under p.mu, "so a cancel from another callback of   *)
(* this plugin always wins".                                               *)
BadMayRun(t) == TRUE
MayRun(t) == t \in timers

TimerCall(t) ==
  /\ timer[t] = "fired"
  /\ LET open == Open(ctxCanceled)
         runs == open /\ MayRun(t)
     IN
     /\ Lock(t, runs)
     /\ timers' = IF open /\ t \in Afters THEN timers \ {t} ELSE timers
     /\ timer' = [timer EXCEPT ![t] = IF runs THEN "run"
                                     ELSE IF open /\ t \in Everies THEN "wait" ELSE "exited"]
  /\ UNCHANGED <<vmClosed, closeVars, queueVars, stopped, execVars, command, retained, visVars,
                 history>>

TimerReturn(t) ==
  /\ Unlock(t)
  /\ timer' = [timer EXCEPT ![t] = IF t \in Everies THEN "wait" ELSE "exited"]
  /\ UNCHANGED <<vmClosed, closeVars, queueVars, timers, stopped, execVars, command, retained,
                 visVars, history>>

-----------------------------------------------------------------------------
(* Processes: a reader calls back for each line, and on_exit follows the   *)
(* end of the process and of its output                                    *)

(* A killed process may have left lines in its pipe.                       *)
ProcessPrints(x) ==
  /\ exec[x] = "read"
  /\ exec' = [exec EXCEPT ![x] = "line"]
  /\ UNCHANGED <<lockVars, closeVars, queueVars, timerVars, killed, command, retained, visVars,
                 history>>

(* The process ended, by itself, by its timeout or killed: remove.         *)
ProcessEnds(x) ==
  /\ exec[x] = "read"
  /\ exec' = [exec EXCEPT ![x] = "exit"]
  /\ UNCHANGED <<lockVars, closeVars, queueVars, timerVars, killed, command, retained, visVars,
                 history>>

ProcessCall(x) ==
  /\ exec[x] \in {"line", "exit"}
  /\ LET runs == Open(ctxCanceled) IN
     /\ Lock(x, runs)
     /\ exec' = [exec EXCEPT ![x] = CASE @ = "line" -> IF runs THEN "output" ELSE "read"
                                      [] @ = "exit" -> IF runs THEN "on_exit" ELSE "done"]
  /\ UNCHANGED <<vmClosed, closeVars, queueVars, timerVars, killed, command, retained, visVars,
                 history>>

ProcessReturn(x) ==
  /\ Unlock(x)
  /\ exec' = [exec EXCEPT ![x] = IF @ = "output" THEN "read" ELSE "done"]
  /\ UNCHANGED <<vmClosed, closeVars, queueVars, timerVars, killed, command, retained, visVars,
                 history>>

-----------------------------------------------------------------------------
(* EmitCommand                                                             *)

Command ==
  /\ loaded = "loaded" /\ ~closing /\ command = "new" /\ Work < MaxWork
  /\ command' = "wait"
  /\ UNCHANGED <<lockVars, closeVars, queueVars, timerVars, execVars, retained, visVars, history>>

(* The client's context may have ended, or Close canceled cmdCtx.          *)
CommandCall ==
  /\ command = "wait"
  /\ \E gone \in BOOLEAN :
       LET runs == Open(ctxCanceled \/ cmdCanceled \/ gone) IN
       /\ Lock("command", runs)
       /\ command' = IF runs THEN "run" ELSE "done"
  /\ UNCHANGED <<vmClosed, closeVars, queueVars, timerVars, execVars, retained, visVars, history>>

CommandReturn ==
  /\ Unlock("command")
  /\ command' = "done"
  /\ UNCHANGED <<vmClosed, closeVars, queueVars, timerVars, execVars, retained, visVars, history>>

-----------------------------------------------------------------------------
(* loadPlugin.  A plugin that fails to load is closed before its lock is   *)
(* released; then cleanupPlugin stops what its chunk started.              *)

Load ==
  /\ Unlock("load")
  /\ \/ loaded' = "loaded" /\ UNCHANGED <<vmClosed, closer>>
     \/ loaded' = "failed" /\ vmClosed' = TRUE /\ closer' = "timers again"
  /\ UNCHANGED <<closing, cmdCanceled, ctxCanceled, dropQueued, victims, queueVars, timerVars,
                 execVars, command, retained, visVars, history>>

-----------------------------------------------------------------------------
(* Close                                                                   *)

CloseStep(from, to) == closer = from /\ closer' = to

CloseMark ==
  /\ loaded = "loaded" /\ CloseStep("open", "commands")
  /\ closing' = TRUE
  /\ UNCHANGED <<lockVars, loaded, cmdCanceled, ctxCanceled, dropQueued, victims, queueVars,
                 timerVars, execVars, command, retained, visVars, history>>

CloseCommands ==
  /\ CloseStep("commands", "queue")
  /\ cmdCanceled' = TRUE
  /\ UNCHANGED <<lockVars, loaded, closing, ctxCanceled, dropQueued, victims, queueVars, timerVars,
                 execVars, command, retained, visVars, history>>

BadQueueOpen == TRUE
QueueOpen == FALSE

CloseQueue ==
  /\ CloseStep("queue", "drain")
  /\ queueOpen' = QueueOpen
  /\ UNCHANGED <<lockVars, loaded, closing, cmdCanceled, ctxCanceled, dropQueued, victims, queue,
                 worker, timerVars, execVars, command, retained, visVars, history>>

(* closeDrainBudget ends.                                                  *)
DropQueued ==
  /\ closer = "drain" /\ ~dropQueued
  /\ dropQueued' = TRUE
  /\ UNCHANGED <<lockVars, loaded, closing, cmdCanceled, ctxCanceled, closer, victims, queueVars,
                 timerVars, execVars, command, retained, visVars, history>>

BadDrained == TRUE
Drained == worker = Exited

QuitCall ==
  /\ Drained /\ Lock("quit", TRUE) /\ CloseStep("drain", "quit")
  /\ ran' = Append(ran, Quit)
  /\ UNCHANGED <<vmClosed, loaded, closing, cmdCanceled, ctxCanceled, dropQueued, victims,
                 queueVars, timerVars, execVars, command, retained, visVars, emitted, accepted,
                 inited>>

QuitReturn ==
  /\ Unlock("quit") /\ CloseStep("quit", "timers")
  /\ UNCHANGED <<vmClosed, loaded, closing, cmdCanceled, ctxCanceled, dropQueued, victims,
                 queueVars, timerVars, execVars, command, retained, visVars, history>>

(* stopAll, of the timers and of the processes, before and after the VM is *)
(* closed, or stopPlugin.                                                  *)
BadStopped(again) == IF again THEN {} ELSE timers
Stopped(again) == timers

StopTimers ==
  /\ \/ CloseStep("timers", "processes") /\ stopped' = stopped \cup Stopped(FALSE)
     \/ CloseStep("timers again", "processes again") /\ stopped' = stopped \cup Stopped(TRUE)
  /\ timers' = timers \ stopped'
  /\ UNCHANGED <<lockVars, loaded, closing, cmdCanceled, ctxCanceled, dropQueued, victims,
                 queueVars, timer, execVars, command, retained, visVars, history>>

StopProcesses ==
  /\ \/ CloseStep("processes", "wait") \/ CloseStep("processes again", "wait again")
  /\ victims' = Entries
  /\ killed' = killed \cup Entries
  /\ UNCHANGED <<lockVars, loaded, closing, cmdCanceled, ctxCanceled, dropQueued, queueVars,
                 timerVars, exec, command, retained, visVars, history>>

WaitProcesses ==
  /\ \/ CloseStep("wait", "context")
     \/ CloseStep("wait again", IF loaded = "failed" THEN "closed" ELSE "clear")
  /\ \A x \in victims : exec[x] = "done"
  /\ victims' = {}
  /\ UNCHANGED <<lockVars, loaded, closing, cmdCanceled, ctxCanceled, dropQueued, queueVars,
                 timerVars, execVars, command, retained, visVars, history>>

CloseContext ==
  /\ CloseStep("context", "goroutines")
  /\ ctxCanceled' = TRUE
  /\ UNCHANGED <<lockVars, loaded, closing, cmdCanceled, dropQueued, victims, queueVars, timerVars,
                 execVars, command, retained, visVars, history>>

(* m.wg.Wait, then each VM is closed under its lock.                       *)
CloseVM ==
  /\ command \in {"new", "done"} /\ mu = Nobody
  /\ CloseStep("goroutines", "timers again")
  /\ vmClosed' = TRUE
  /\ UNCHANGED <<mu, loaded, closing, cmdCanceled, ctxCanceled, dropQueued, victims, queueVars,
                 timerVars, execVars, command, retained, visVars, history>>

ClearPrefix ==
  /\ CloseStep("clear", "closed")
  /\ retained' = FALSE
  /\ UNCHANGED <<lockVars, loaded, closing, cmdCanceled, ctxCanceled, dropQueued, victims,
                 queueVars, timerVars, execVars, command, visVars, history>>

-----------------------------------------------------------------------------

Next ==
  \/ \E t \in Timers : StartTimer(t)
  \/ \E t \in Timers : CancelTimer(t)
  \/ \E t \in Timers : TimerFires(t)
  \/ \E t \in Timers : TimerStops(t)
  \/ \E t \in Timers : TimerCall(t)
  \/ \E t \in Timers : TimerReturn(t)
  \/ \E x \in Execs : StartProcess(x)
  \/ \E x \in Execs : CancelProcess(x)
  \/ \E x \in Execs : ProcessPrints(x)
  \/ \E x \in Execs : ProcessEnds(x)
  \/ \E x \in Execs : ProcessCall(x)
  \/ \E x \in Execs : ProcessReturn(x)
  \/ Publish \/ Load \/ Emit
  \/ NextCall \/ WorkerCall \/ WorkerReturn \/ WorkerExit
  \/ SelectVis \/ InitVis \/ RenderVis \/ RenderReturn \/ LeaveVis
  \/ Command \/ CommandCall \/ CommandReturn
  \/ CloseMark \/ CloseCommands \/ CloseQueue \/ DropQueued \/ QuitCall \/ QuitReturn
  \/ StopTimers \/ StopProcesses \/ WaitProcesses \/ CloseContext \/ CloseVM \/ ClearPrefix

Spec == Init /\ [][Next]_vars

Worker == NextCall \/ WorkerCall \/ WorkerExit
Timer(t) == TimerStops(t) \/ TimerCall(t)
KilledEnds(x) == x \in killed /\ ProcessEnds(x)
LuaReturns ==
  \/ Load \/ WorkerReturn \/ RenderReturn \/ CommandReturn \/ QuitReturn
  \/ \E t \in Timers : TimerReturn(t)
  \/ \E x \in Execs : ProcessReturn(x)
Close ==
  \/ CloseCommands \/ CloseQueue \/ QuitCall \/ StopTimers \/ StopProcesses
  \/ WaitProcesses \/ CloseContext \/ CloseVM \/ ClearPrefix

(* Goroutines run, and the lock goes to those who wait for it long enough; *)
(* of a command and several timers, and of several processes, one that     *)
(* waits gets it, which is enough.  Lua returns, since each call has a     *)
(* time limit, and a killed process ends after the lines left in its pipe, *)
(* which is closed after execPipeGrace.                                    *)
Fairness ==
  /\ WF_vars(LuaReturns) /\ SF_vars(Worker) /\ SF_vars(Close)
  /\ SF_vars(CommandCall \/ \E t \in Timers : Timer(t))
  /\ SF_vars(\E x \in Execs : ProcessCall(x)) /\ SF_vars(\E x \in Execs : KilledEnds(x))

FairSpec == Spec /\ Fairness

-----------------------------------------------------------------------------
(* Properties *)

TypeOK ==
  /\ mu \in {Nobody} \cup Callers \cup Timers \cup Execs
  /\ timers \subseteq Timers /\ stopped \subseteq Timers /\ timers \cap stopped = {}
  /\ Len(queue) <= QueueSize /\ pending \in Nat
  /\ Cardinality(Entries) <= ExecCap

(* "Each plugin runs its events one at a time, in the order they were      *)
(* emitted", none twice and none missing that was accepted unless Close    *)
(* ran out of patience, and "app.quit is the last event each plugin sees". *)
EventsInOrder ==
  LET quit == Contains(ran, Quit)
      seen == IF quit THEN Front(ran) ELSE ran
  IN  IsPrefix(seen, accepted) /\ (quit /\ ~dropQueued => seen = accepted)

(* No caller runs Lua in a closed VM, that of a plugin that failed to load *)
(* included.                                                               *)
NoLuaAfterClose == vmClosed => mu = Nobody

(* "A cancel from another callback of this plugin always wins", even when  *)
(* the timer has fired and waits for the lock, and `after` fires once.     *)
CanceledTimersStaySilent ==
  [][\A t \in Timers :
       timer'[t] = "run" /\ timer[t] # "run" => t \notin stopped /\ t \in timers]_vars

(* When Close or a failed load is over, no timer and no process is left,   *)
(* and "a late callback cannot leave a retained value behind".             *)
NothingLeft ==
  closer = "closed" =>
    /\ timers = {} /\ Entries = {}
    /\ loaded = "loaded" => ~retained

(* Close leaves nothing of a plugin behind that could still run or be seen *)
(* (Manager.Close, cleanupPlugin).                                         *)
ClosedForGood == NoLuaAfterClose /\ NothingLeft

(* What is over stays silent: a canceled timer, and all of a closed        *)
(* plugin.                                                                 *)
OverIsSilent == CanceledTimersStaySilent /\ []ClosedForGood

(* "Render never runs before init": no frame is drawn while a call of init *)
(* or destroy waits in the queue or runs.                                  *)
RenderWaitsForInit ==
  mu = "render" => ~IsVis(worker) /\ \A k \in DOMAIN queue : ~IsVis(queue[k])

RenderAfterInit == mu = "render" => inited

(* Close returns, whatever Lua, the processes and the clients do, and so   *)
(* does the cleanup of a failed load; each timer's goroutine ends.         *)
CloseReturns ==
  []<>(closing \/ loaded = "failed"
         => closer = "closed" /\ \A t \in Timers : timer[t] \in {"new", "exited"})
==============================================================================
