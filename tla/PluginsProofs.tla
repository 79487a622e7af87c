---------------------------- MODULE PluginsProofs ----------------------------
(***************************************************************************)
(* Proofs about Plugins.tla, for any timers, processes and queue size and  *)
(* any number of events: the events run in the order they were emitted and *)
(* app.quit is the last one, and what is over (a canceled timer, a closed  *)
(* plugin) stays silent.                                                   *)
(***************************************************************************)
EXTENDS Plugins, SequenceTheorems, TLAPS

Queued == [kind : {"event", "init", "destroy"}, n : Nat]
Events == [kind : {"event"}, n : Nat]

Draining == {"commands", "queue", "drain"}
Over == {"timers again", "processes again", "wait again", "clear", "closed"}
Stages == {"open", "quit", "timers", "processes", "wait", "context", "goroutines"}
            \cup Draining \cup Over

StageTypes ==
  /\ loaded \in {"loading", "loaded", "failed"} /\ closer \in Stages
  /\ vmClosed \in BOOLEAN /\ closing \in BOOLEAN
  /\ ctxCanceled \in BOOLEAN /\ queueOpen \in BOOLEAN

EventTypes ==
  /\ queue \in Seq(Queued) /\ worker \in Queued \cup {Idle, Exited}
  /\ emitted \in Nat /\ accepted \in Seq(Events) /\ ran \in Seq(Events \cup {Quit})
  /\ dropQueued \in BOOLEAN

BackTypes ==
  /\ timer \in [Timers -> {"new", "wait", "fired", "run", "exited"}]
  /\ exec \in [Execs -> {"new", "read", "line", "output", "exit", "on_exit", "done"}]
  /\ timers \subseteq Timers /\ stopped \subseteq Timers
  /\ victims \subseteq Execs /\ retained \in BOOLEAN

(* How far the load and Close are decides what may still run.              *)
StageInv ==
  /\ StageTypes
  /\ vmClosed <=> closer \in Over
  /\ vmClosed => mu = Nobody
  /\ mu = "load" <=> loaded = "loading"
  /\ loaded = "loading" => closer = "open"
  /\ loaded = "failed" => closer \in Over
  /\ closing <=> loaded = "loaded" /\ closer # "open"
  /\ ctxCanceled => closer = "goroutines" \/ closer \in Over
  /\ ~queueOpen => closing /\ closer \notin {"commands", "queue"}

(* app.quit has begun.                                                     *)
Quitted == closing /\ closer \notin Draining

WorkerInv ==
  /\ loaded # "loaded" => worker = Idle /\ queue = <<>> /\ accepted = <<>> /\ ran = <<>>
  /\ mu = "worker" => worker \in Queued
  /\ worker = Exited => queue = <<>> /\ ~queueOpen
  /\ Quitted => worker = Exited

(* Events carry their numbers upwards through the queue.                   *)
OrderInv ==
  /\ \A i \in DOMAIN accepted : accepted[i].n <= emitted
  /\ \A i, j \in DOMAIN accepted : i < j => accepted[i].n < accepted[j].n
  /\ \A k \in DOMAIN queue : queue[k].kind = "event" => queue[k].n <= emitted
  /\ \A j, k \in DOMAIN queue :
       j < k /\ queue[j].kind = "event" /\ queue[k].kind = "event" => queue[j].n < queue[k].n

(* The worker holds an event that has not run yet.                         *)
Taken == worker.kind = "event" /\ mu # "worker"

(* How many of the accepted events have run, and how many have left the    *)
(* queue to run.                                                           *)
Seen == IF Quitted THEN Len(ran) - 1 ELSE Len(ran)
Begun == IF Taken THEN Seen + 1 ELSE Seen

SeenInv ==
  /\ Begun <= Len(accepted)
  /\ \A i \in 1..Seen : ran[i] = accepted[i]
  /\ Quitted => Len(ran) >= 1 /\ ran[Len(ran)] = Quit
  /\ Taken => accepted[Begun] = worker

(* Until Close drops the queue, what waits in it are the accepted events   *)
(* that have not begun.                                                    *)
WaitingInv ==
  ~dropQueued =>
    /\ \A k \in DOMAIN queue : queue[k].kind = "event" =>
         \E j \in DOMAIN accepted : j > Begun /\ accepted[j] = queue[k]
    /\ \A j \in DOMAIN accepted : j > Begun => \E k \in DOMAIN queue : queue[k] = accepted[j]

TimersInv ==
  /\ timers \cap stopped = {}
  /\ \A t \in timers \cup stopped : timer[t] # "new"

(* What the second round of Close has found.                               *)
LeftInv ==
  /\ closer \in Over \ {"timers again"} => timers = {}
  /\ closer = "wait again" => Entries \subseteq victims
  /\ closer \in {"clear", "closed"} => Entries = {}
  /\ closer = "closed" /\ loaded = "loaded" => ~retained

EventInv == EventTypes /\ WorkerInv /\ OrderInv /\ SeenInv /\ WaitingInv
BackInv == BackTypes /\ TimersInv /\ LeftInv
PluginInv == StageInv /\ EventInv /\ BackInv

-----------------------------------------------------------------------------
(* What a step leaves alone                                                *)

StageVars == <<vmClosed, loaded, closing, ctxCanceled, closer, queueOpen>>
BackVars == <<timer, timers, stopped, exec, victims, retained>>

(* The lock stays, is taken to run Lua, or is released.                    *)
Hands ==
  \/ mu' = mu
  \/ mu = Nobody /\ ~vmClosed /\ mu' # "load"
  \/ mu # "load" /\ mu' = Nobody

(* No event moves.                                                         *)
Calm ==
  /\ UNCHANGED <<queue, worker, emitted, accepted, ran>>
  /\ (mu' = "worker") <=> (mu = "worker")
  /\ Quitted' <=> Quitted
  /\ loaded = "loaded" => loaded' = "loaded"
  /\ dropQueued => dropQueued'
  /\ dropQueued' \in BOOLEAN
  /\ ~queueOpen => ~queueOpen'

(* Timers, processes, frames and commands.                                 *)
TimerStep ==
  \E t \in Timers : \/ StartTimer(t) \/ CancelTimer(t) \/ TimerFires(t) \/ TimerStops(t)
                    \/ TimerCall(t) \/ TimerReturn(t)
ProcessStep ==
  \E x \in Execs : \/ StartProcess(x) \/ CancelProcess(x) \/ ProcessPrints(x)
                   \/ ProcessEnds(x) \/ ProcessCall(x) \/ ProcessReturn(x)
DrawStep == SelectVis \/ RenderVis \/ RenderReturn \/ Command \/ CommandCall \/ CommandReturn

(* Events and the worker.                                                  *)
EventStep == Emit \/ NextCall \/ WorkerCall \/ WorkerReturn \/ WorkerExit \/ InitVis \/ LeaveVis

(* Load and Close.                                                         *)
CloserStep ==
  \/ Load \/ CloseMark \/ CloseCommands \/ CloseQueue \/ DropQueued \/ QuitReturn
  \/ StopTimers \/ StopProcesses \/ WaitProcesses \/ CloseContext \/ CloseVM \/ ClearPrefix

(* Every step is one of these.                                             *)
LEMMA Steps ==
  [Next]_vars => \/ TimerStep \/ ProcessStep \/ DrawStep \/ Publish \/ EventStep \/ CloserStep
                 \/ QuitCall \/ UNCHANGED vars
BY DEF Next, TimerStep, ProcessStep, DrawStep, EventStep, CloserStep

(* What calls into Lua from outside the queue leaves the events alone, and *)
(* takes the lock of an open VM only.                                      *)
LEMMA TimerEffect ==
  ASSUME EventTypes, TimerStep
  PROVE  Calm /\ Hands /\ UNCHANGED <<StageVars, exec, victims, retained>>
<1> USE NamesAssumption DEF Calm, Hands, StageVars, Quitted, EventTypes, Callers, lockVars,
          closeVars,
        queueVars, timerVars, execVars, visVars, history, RunsLua, Lock, Unlock, Open
<1> PICK t \in Timers : \/ StartTimer(t) \/ CancelTimer(t) \/ TimerFires(t) \/ TimerStops(t)
                        \/ TimerCall(t) \/ TimerReturn(t)
  BY DEF TimerStep
<1>1. CASE StartTimer(t)
  BY <1>1 DEF StartTimer
<1>2. CASE CancelTimer(t)
  BY <1>2 DEF CancelTimer
<1>3. CASE TimerFires(t)
  BY <1>3 DEF TimerFires
<1>4. CASE TimerStops(t)
  BY <1>4 DEF TimerStops
<1>5. CASE TimerCall(t)
  BY <1>5 DEF TimerCall
<1>6. CASE TimerReturn(t)
  BY <1>6 DEF TimerReturn
<1> QED BY <1>1, <1>2, <1>3, <1>4, <1>5, <1>6

LEMMA ProcessEffect ==
  ASSUME EventTypes, ProcessStep
  PROVE  Calm /\ Hands /\ UNCHANGED <<StageVars, timer, timers, stopped, victims, retained>>
<1> USE NamesAssumption DEF Calm, Hands, StageVars, Quitted, EventTypes, Callers, lockVars,
          closeVars,
        queueVars, timerVars, execVars, visVars, history, RunsLua, Lock, Unlock, Open
<1> PICK x \in Execs : \/ StartProcess(x) \/ CancelProcess(x) \/ ProcessPrints(x)
                       \/ ProcessEnds(x) \/ ProcessCall(x) \/ ProcessReturn(x)
  BY DEF ProcessStep
<1>1. CASE StartProcess(x)
  BY <1>1 DEF StartProcess
<1>2. CASE CancelProcess(x)
  BY <1>2 DEF CancelProcess
<1>3. CASE ProcessPrints(x)
  BY <1>3 DEF ProcessPrints
<1>4. CASE ProcessEnds(x)
  BY <1>4 DEF ProcessEnds
<1>5. CASE ProcessCall(x)
  BY <1>5 DEF ProcessCall
<1>6. CASE ProcessReturn(x)
  BY <1>6 DEF ProcessReturn
<1> QED BY <1>1, <1>2, <1>3, <1>4, <1>5, <1>6

LEMMA DrawEffect ==
  ASSUME EventTypes, DrawStep
  PROVE  Calm /\ Hands /\ UNCHANGED <<StageVars, BackVars>>
<1> USE NamesAssumption DEF Calm, Hands, StageVars, BackVars, Quitted, EventTypes, Callers,
          lockVars,
        closeVars, queueVars, timerVars, execVars, visVars, history, RunsLua, Lock, Unlock, Open
<1>1. CASE SelectVis
  BY <1>1 DEF SelectVis
<1>2. CASE RenderVis
  BY <1>2 DEF RenderVis, MayRender
<1>3. CASE RenderReturn
  BY <1>3 DEF RenderReturn
<1>4. CASE Command
  BY <1>4 DEF Command
<1>5. CASE CommandCall
  BY <1>5 DEF CommandCall
<1>6. CASE CommandReturn
  BY <1>6 DEF CommandReturn
<1> QED BY <1>1, <1>2, <1>3, <1>4, <1>5, <1>6 DEF DrawStep

LEMMA EventEffect ==
  ASSUME EventTypes, EventStep
  PROVE  Hands /\ UNCHANGED <<StageVars, BackVars, dropQueued>>
<1> USE NamesAssumption DEF Hands, StageVars, BackVars, Callers, lockVars, closeVars, queueVars,
        timerVars, execVars, visVars, history, Lock, Unlock, Open
<1>1. CASE Emit
  BY <1>1 DEF Emit
<1>2. CASE NextCall
  BY <1>2 DEF NextCall
<1>3. CASE WorkerCall
  BY <1>3 DEF WorkerCall
<1>4. CASE WorkerReturn
  BY <1>4 DEF WorkerReturn
<1>5. CASE WorkerExit
  BY <1>5 DEF WorkerExit
<1>6. CASE InitVis
  BY <1>6 DEF InitVis
<1>7. CASE LeaveVis
  BY <1>7 DEF LeaveVis
<1> QED BY <1>1, <1>2, <1>3, <1>4, <1>5, <1>6, <1>7 DEF EventStep

(* Neither the load nor a step of Close but app.quit moves an event.       *)
LEMMA CloserEffect ==
  ASSUME StageInv, EventTypes, CloserStep
  PROVE  Calm
<1> USE NamesAssumption DEF Calm, StageInv, StageTypes, EventTypes, Quitted, Draining, Over, Stages,
        Callers, lockVars, closeVars, queueVars, timerVars, execVars, visVars, history,
        Lock, Unlock, CloseStep
<1>1. CASE Load
  BY <1>1 DEF Load
<1>2. CASE CloseMark
  BY <1>2 DEF CloseMark
<1>3. CASE CloseCommands
  BY <1>3 DEF CloseCommands
<1>4. CASE CloseQueue
  BY <1>4 DEF CloseQueue, QueueOpen
<1>5. CASE DropQueued
  BY <1>5 DEF DropQueued
<1>6. CASE QuitReturn
  BY <1>6 DEF QuitReturn
<1>7. CASE StopTimers
  BY <1>7 DEF StopTimers
<1>8. CASE StopProcesses
  BY <1>8 DEF StopProcesses
<1>9. CASE WaitProcesses
  BY <1>9 DEF WaitProcesses
<1>10. CASE CloseContext
  BY <1>10 DEF CloseContext
<1>11. CASE CloseVM
  BY <1>11 DEF CloseVM
<1>12. CASE ClearPrefix
  BY <1>12 DEF ClearPrefix
<1> QED
  BY <1>1, <1>2, <1>3, <1>4, <1>5, <1>6, <1>7, <1>8, <1>9, <1>10, <1>11, <1>12 DEF CloserStep

-----------------------------------------------------------------------------
(* The stages of Close                                                     *)

LEMMA StageKept ==
  ASSUME StageInv, WorkerInv, EventTypes, [Next]_vars
  PROVE  StageInv'
<1> USE NamesAssumption DEF StageInv, StageTypes, Draining, Over, Stages, Callers, lockVars,
        closeVars, queueVars, CloseStep, Unlock, Lock
<1>1. CASE Hands /\ UNCHANGED StageVars
  BY <1>1 DEF Hands, StageVars
<1>2. CASE Load
  <2>1. /\ loaded = "loading" /\ closer = "open" /\ ~vmClosed /\ ~closing /\ ~ctxCanceled
        /\ queueOpen /\ mu' = Nobody /\ Nobody # "load"
        /\ UNCHANGED <<closing, ctxCanceled, queueOpen>>
    BY <1>2 DEF Load
  <2>2. CASE loaded' = "loaded" /\ UNCHANGED <<vmClosed, closer>>
    BY <2>1, <2>2
  <2>3. CASE loaded' = "failed" /\ vmClosed' = TRUE /\ closer' = "timers again"
    BY <2>1, <2>3
  <2> QED BY <1>2, <2>2, <2>3 DEF Load
<1>3. CASE CloseMark
  BY <1>3 DEF CloseMark
<1>4. CASE CloseCommands
  BY <1>4 DEF CloseCommands
<1>5. CASE CloseQueue
  BY <1>5 DEF CloseQueue, QueueOpen
<1>6. CASE DropQueued
  BY <1>6 DEF DropQueued
<1>7. CASE QuitCall
  BY <1>7 DEF QuitCall
<1>8. CASE QuitReturn
  BY <1>8 DEF QuitReturn
<1>9. CASE StopTimers
  BY <1>9 DEF StopTimers
<1>10. CASE StopProcesses
  BY <1>10 DEF StopProcesses
<1>11. CASE WaitProcesses
  BY <1>11 DEF WaitProcesses
<1>12. CASE CloseContext
  BY <1>12 DEF CloseContext
<1>13. CASE CloseVM
  BY <1>13 DEF CloseVM
<1>14. CASE ClearPrefix
  BY <1>14 DEF ClearPrefix
<1>15. CASE Publish
  BY <1>15 DEF Publish
<1>16. CASE UNCHANGED vars
  BY <1>16 DEF vars
<1>17. TimerStep \/ ProcessStep \/ DrawStep \/ EventStep => Hands /\ UNCHANGED StageVars
  BY TimerEffect, ProcessEffect, DrawEffect, EventEffect
<1> QED
  BY <1>1, <1>2, <1>3, <1>4, <1>5, <1>6, <1>7, <1>8, <1>9, <1>10, <1>11, <1>12, <1>13, <1>14,
     <1>15, <1>16, <1>17, Steps DEF CloserStep

-----------------------------------------------------------------------------
(* Timers, processes and the retained value                                *)

(* Only Lua that runs adds a timer, and a canceled one is not added again. *)
LEMMA TimerKept ==
  ASSUME StageInv, BackInv, TimerStep, UNCHANGED <<StageVars, exec, victims, retained>>
  PROVE  BackInv'
<1> DEFINE Kept == /\ timer' \in [Timers -> {"new", "wait", "fired", "run", "exited"}]
                   /\ timers' \subseteq Timers /\ stopped' \subseteq Timers
                   /\ timers' \subseteq timers \/ mu # Nobody
                   /\ TimersInv'
<1>1. Kept
  <2> USE DEF BackInv, BackTypes, TimersInv, RunsLua
  <2> PICK t \in Timers : \/ StartTimer(t) \/ CancelTimer(t) \/ TimerFires(t) \/ TimerStops(t)
                          \/ TimerCall(t) \/ TimerReturn(t)
    BY DEF TimerStep
  <2>1. CASE StartTimer(t)
    BY <2>1 DEF StartTimer
  <2>2. CASE CancelTimer(t)
    BY <2>2 DEF CancelTimer
  <2>3. CASE TimerFires(t)
    BY <2>3 DEF TimerFires
  <2>4. CASE TimerStops(t)
    BY <2>4 DEF TimerStops
  <2>5. CASE TimerCall(t)
    BY <2>5 DEF TimerCall
  <2>6. CASE TimerReturn(t)
    BY <2>6 DEF TimerReturn
  <2> QED BY <2>1, <2>2, <2>3, <2>4, <2>5, <2>6
<1>2. Entries' = Entries
  BY DEF Entries
<1>3. LeftInv'
  BY <1>1, <1>2 DEF BackInv, LeftInv, StageInv, StageVars, Over
<1> QED BY <1>1, <1>3 DEF BackInv, BackTypes

(* Only Lua that runs starts a process, and an entry ends with it.         *)
LEMMA ProcessKept ==
  ASSUME StageInv, BackInv, ProcessStep,
         UNCHANGED <<StageVars, timer, timers, stopped, victims, retained>>
  PROVE  BackInv'
<1> DEFINE Kept == /\ exec' \in [Execs -> {"new", "read", "line", "output", "exit", "on_exit",
                                           "done"}]
                   /\ Entries' \subseteq Entries \/ mu # Nobody
<1>1. Kept
  <2> USE DEF BackInv, BackTypes, Entries, RunsLua
  <2> PICK x \in Execs : \/ StartProcess(x) \/ CancelProcess(x) \/ ProcessPrints(x)
                         \/ ProcessEnds(x) \/ ProcessCall(x) \/ ProcessReturn(x)
    BY DEF ProcessStep
  <2>1. CASE StartProcess(x)
    BY <2>1 DEF StartProcess
  <2>2. CASE CancelProcess(x)
    BY <2>2 DEF CancelProcess
  <2>3. CASE ProcessPrints(x)
    BY <2>3 DEF ProcessPrints
  <2>4. CASE ProcessEnds(x)
    BY <2>4 DEF ProcessEnds
  <2>5. CASE ProcessCall(x)
    <3>1. PICK at \in {"read", "output", "on_exit", "done"} :
            /\ exec' = [exec EXCEPT ![x] = at]
            /\ at \in {"read", "output"} => exec[x] = "line"
      BY <2>5 DEF ProcessCall
    <3> QED BY <3>1
  <2>6. CASE ProcessReturn(x)
    <3>1. PICK at \in {"read", "done"} :
            exec' = [exec EXCEPT ![x] = at] /\ (at = "read" => exec[x] = "output")
      BY <2>6 DEF ProcessReturn
    <3> QED BY <3>1
  <2> QED BY <2>1, <2>2, <2>3, <2>4, <2>5, <2>6
<1>2. LeftInv'
  BY <1>1 DEF BackInv, LeftInv, StageInv, StageVars, Over
<1>3. TimersInv'
  BY DEF BackInv, TimersInv
<1> QED BY <1>1, <1>2, <1>3 DEF BackInv, BackTypes

LEMMA BackKept ==
  ASSUME StageInv, EventTypes, BackInv, [Next]_vars
  PROVE  BackInv'
<1> USE NamesAssumption DEF BackInv, BackTypes, TimersInv, LeftInv, StageInv, StageTypes, Stages,
        Draining, Over, Callers, Entries, lockVars, closeVars, queueVars, timerVars, execVars,
        CloseStep, Unlock, RunsLua
<1>1. CASE UNCHANGED <<BackVars, closer, loaded>>
  BY <1>1 DEF BackVars
<1>2. CASE Load
  BY <1>2 DEF Load
<1>3. CASE CloseMark
  BY <1>3 DEF CloseMark
<1>4. CASE CloseCommands
  BY <1>4 DEF CloseCommands
<1>5. CASE CloseQueue
  BY <1>5 DEF CloseQueue
<1>6. CASE DropQueued
  BY <1>6 DEF DropQueued
<1>7. CASE QuitCall
  BY <1>7 DEF QuitCall
<1>8. CASE QuitReturn
  BY <1>8 DEF QuitReturn
<1>9. CASE StopTimers
  BY <1>9 DEF StopTimers, Stopped
<1>10. CASE StopProcesses
  BY <1>10 DEF StopProcesses
<1>11. CASE WaitProcesses
  BY <1>11 DEF WaitProcesses
<1>12. CASE CloseContext
  BY <1>12 DEF CloseContext
<1>13. CASE CloseVM
  BY <1>13 DEF CloseVM
<1>14. CASE ClearPrefix
  BY <1>14 DEF ClearPrefix
<1>15. CASE Publish
  BY <1>15 DEF Publish
<1>16. DrawStep \/ EventStep \/ UNCHANGED vars => UNCHANGED <<BackVars, closer, loaded>>
  BY DrawEffect, EventEffect DEF vars, StageVars, BackVars
<1>17. TimerStep => BackInv'
  BY TimerEffect, TimerKept
<1>18. ProcessStep => BackInv'
  BY ProcessEffect, ProcessKept
<1> QED
  BY <1>1, <1>2, <1>3, <1>4, <1>5, <1>6, <1>7, <1>8, <1>9, <1>10, <1>11, <1>12, <1>13, <1>14,
     <1>15, <1>16, <1>17, <1>18, Steps DEF CloserStep

-----------------------------------------------------------------------------
(* Events run in order                                                     *)

(* The lengths are numbers, and nothing is taken or has quit unless so.    *)
LEMMA EventFacts ==
  ASSUME EventInv
  PROVE  /\ Len(ran) \in Nat /\ Len(accepted) \in Nat /\ Len(queue) \in Nat
         /\ DOMAIN accepted = 1..Len(accepted) /\ DOMAIN queue = 1..Len(queue)
         /\ DOMAIN ran = 1..Len(ran)
         /\ Seen \in Nat /\ Begun \in Nat /\ Seen <= Begun /\ Begun <= Len(accepted)
         /\ \A i \in 1..Len(accepted) : accepted[i] \in Events
         /\ \A k \in 1..Len(queue) : queue[k] \in Queued
<1>1. /\ Len(ran) \in Nat /\ Len(accepted) \in Nat /\ Len(queue) \in Nat
      /\ DOMAIN accepted = 1..Len(accepted) /\ DOMAIN queue = 1..Len(queue)
      /\ DOMAIN ran = 1..Len(ran)
      /\ \A i \in 1..Len(accepted) : accepted[i] \in Events
      /\ \A k \in 1..Len(queue) : queue[k] \in Queued
  BY DEF EventInv, EventTypes
<1>2. Seen \in Nat
  BY <1>1 DEF EventInv, SeenInv, Seen
<1>3. Begun \in Nat /\ Seen <= Begun /\ Begun <= Len(accepted)
  BY <1>2 DEF EventInv, SeenInv, Begun
<1> QED BY <1>1, <1>2, <1>3

(* Idle, Exited and Quit are not calls that wait.                          *)
LEMMA Markers ==
  /\ Idle \notin Queued /\ Exited \notin Queued /\ Quit \notin Events
  /\ Idle # Exited /\ Idle.kind # "event" /\ Exited.kind # "event"
  /\ Events \subseteq Queued /\ \A c \in Queued : c.n \in Nat
BY DEF Idle, Exited, Quit, VisCall, Queued, Events

LEMMA CalmKept ==
  ASSUME EventInv, Calm
  PROVE  EventInv'
<1> USE DEF EventInv, Calm
<1>1. (Taken' <=> Taken) /\ Seen' = Seen
  BY DEF Taken, Seen
<1>2. Begun' = Begun
  BY <1>1 DEF Begun
<1>3. EventTypes'
  BY DEF EventTypes
<1>4. WorkerInv'
  BY DEF WorkerInv
<1>5. OrderInv'
  BY DEF OrderInv
<1>6. SeenInv'
  BY <1>1, <1>2 DEF SeenInv
<1>7. WaitingInv'
  BY <1>2 DEF WaitingInv
<1> QED BY <1>3, <1>4, <1>5, <1>6, <1>7

(* The position in the events stays where a step keeps what it depends on. *)
LEMMA PlaceStays ==
  ASSUME UNCHANGED <<worker, ran, closing, closer>>, mu' = "worker" <=> mu = "worker"
  PROVE  (Taken' <=> Taken) /\ (Quitted' <=> Quitted) /\ Seen' = Seen /\ Begun' = Begun
<1>1. (Taken' <=> Taken) /\ (Quitted' <=> Quitted)
  BY DEF Taken, Quitted
<1>2. Seen' = Seen
  BY <1>1 DEF Seen
<1> QED BY <1>1, <1>2 DEF Begun

(* An accepted event goes to the end of the queue and has the last number. *)
LEMMA EmitKept ==
  ASSUME StageInv, EventInv, Emit
  PROVE  EventInv'
<1> DEFINE e == Event(emitted + 1)
           m == Len(accepted)
           l == Len(queue)
<1>1. /\ m \in Nat /\ l \in Nat /\ Begun \in Nat /\ Begun <= m /\ emitted \in Nat
      /\ accepted \in Seq(Events) /\ queue \in Seq(Queued) /\ Seen \in Nat /\ Seen <= Begun
      /\ DOMAIN accepted = 1..m /\ DOMAIN queue = 1..l
      /\ \A i \in 1..m : accepted[i] \in Events
      /\ \A k \in 1..l : queue[k] \in Queued
  BY EventFacts DEF EventInv, EventTypes
<1>a. /\ \A i \in 1..m : accepted[i].n \in Nat
      /\ \A k \in 1..l : queue[k].n \in Nat
  BY <1>1, Markers
<1>2. e \in Events /\ e \in Queued /\ e.n = emitted + 1 /\ e.kind = "event"
  BY <1>1 DEF Event, Events, Queued
<1>3. /\ UNCHANGED <<worker, ran, closing, closer, mu, loaded, queueOpen, dropQueued>>
      /\ emitted' = emitted + 1 /\ loaded = "loaded" /\ ~closing
  BY DEF Emit, lockVars, closeVars
<1>4. (Taken' <=> Taken) /\ (Quitted' <=> Quitted) /\ Seen' = Seen /\ Begun' = Begun
  BY <1>3, PlaceStays
<1>5. \/ queue' = queue /\ accepted' = accepted
      \/ queue' = Append(queue, e) /\ accepted' = Append(accepted, e)
  <2>1. Append(queue, e) # queue
    <3> HIDE DEF e
    <3>1. Len(Append(queue, e)) = Len(queue) + 1
      BY <1>1, <1>2
    <3>2. Len(queue) \in Nat
      BY EventFacts
    <3>3. \A n \in Nat : n # n + 1
      OBVIOUS
    <3>4. Len(queue) # Len(queue) + 1
      BY <3>2, <3>3, Zenon
    <3>5. Append(queue, e) = queue => Len(Append(queue, e)) = Len(queue)
      BY Zenon
    <3> QED BY <3>1, <3>4, <3>5, Zenon
  <2> QED BY <2>1 DEF Emit, Enqueue
<1>6. CASE queue' = queue /\ accepted' = accepted
  <2>1. EventTypes' /\ WorkerInv'
    BY <1>1, <1>3, <1>4, <1>6 DEF EventInv, EventTypes, WorkerInv
  <2>2. OrderInv'
    <3>1. \A n \in Nat : n <= emitted => n <= emitted'
      BY <1>1, <1>3
    <3> QED BY <1>1, <1>a, <1>6, <3>1 DEF EventInv, OrderInv
  <2>3. SeenInv' /\ WaitingInv'
    BY <1>3, <1>4, <1>6 DEF EventInv, SeenInv, WaitingInv
  <2> QED BY <2>1, <2>2, <2>3 DEF EventInv
<1>7. CASE queue' = Append(queue, e) /\ accepted' = Append(accepted, e)
  <2> HIDE DEF e, m, l
  <2>1. /\ queue' \in Seq(Queued) /\ Len(queue') = l + 1 /\ DOMAIN queue' = 1..(l + 1)
        /\ \A k \in 1..l : queue'[k] = queue[k]
        /\ queue'[l + 1] = e
    BY <1>1, <1>2, <1>7 DEF l
  <2>2. /\ accepted' \in Seq(Events) /\ Len(accepted') = m + 1 /\ DOMAIN accepted' = 1..(m + 1)
        /\ \A i \in 1..m : accepted'[i] = accepted[i]
        /\ accepted'[m + 1] = e
    BY <1>1, <1>2, <1>7 DEF m
  <2>3. EventTypes'
    BY <1>1, <1>3, <2>1, <2>2 DEF EventInv, EventTypes
  <2>4. WorkerInv'
    <3>1. worker # Exited
      BY <1>3 DEF EventInv, WorkerInv, StageInv
    <3> QED BY <1>3, <1>4, <3>1 DEF EventInv, WorkerInv
  <2>5. OrderInv'
    <3>1. \A i \in 1..m : accepted[i].n \in Nat /\ accepted[i].n <= emitted
      BY <1>1, <1>a DEF EventInv, OrderInv
    <3>2. \A i \in 1..(m + 1) : accepted'[i].n <= emitted'
      BY <1>1, <1>2, <1>3, <2>2, <3>1
    <3>3. ASSUME NEW i \in 1..(m + 1), NEW j \in 1..(m + 1), i < j
          PROVE  accepted'[i].n < accepted'[j].n
      <4>1. i \in 1..m
        BY <1>1, <3>3
      <4>2. CASE j \in 1..m
        BY <1>1, <2>2, <3>3, <4>1, <4>2 DEF EventInv, OrderInv
      <4>3. CASE j = m + 1
        BY <1>1, <1>2, <2>2, <3>1, <4>1, <4>3
      <4> QED BY <1>1, <4>2, <4>3
    <3>4. \A k \in 1..l : queue[k].kind = "event" => queue[k].n \in Nat /\ queue[k].n <= emitted
      BY <1>1, <1>a DEF EventInv, OrderInv
    <3>5. \A k \in 1..(l + 1) : queue'[k].kind = "event" => queue'[k].n <= emitted'
      BY <1>1, <1>2, <1>3, <2>1, <3>4
    <3>6. ASSUME NEW j \in 1..(l + 1), NEW k \in 1..(l + 1), j < k,
                 queue'[j].kind = "event", queue'[k].kind = "event"
          PROVE  queue'[j].n < queue'[k].n
      <4>1. j \in 1..l
        BY <1>1, <3>6
      <4>2. CASE k \in 1..l
        BY <1>1, <2>1, <3>6, <4>1, <4>2 DEF EventInv, OrderInv
      <4>3. CASE k = l + 1
        BY <1>1, <1>2, <2>1, <3>4, <3>6, <4>1, <4>3
      <4> QED BY <1>1, <4>2, <4>3
    <3> QED BY <2>1, <2>2, <3>2, <3>3, <3>5, <3>6 DEF OrderInv
  <2>6. SeenInv'
    <3>1. Begun' <= Len(accepted')
      BY <1>1, <1>4, <2>2
    <3>2. \A i \in 1..Seen : i \in 1..m
      BY <1>1
    <3>3. Taken => Begun \in 1..m
      BY <1>1 DEF Begun
    <3> QED BY <1>3, <1>4, <2>2, <3>1, <3>2, <3>3 DEF EventInv, SeenInv
  <2>7. WaitingInv'
    <3> SUFFICES ASSUME ~dropQueued'
                 PROVE  /\ \A k \in 1..(l + 1) : queue'[k].kind = "event" =>
                             \E j \in 1..(m + 1) : j > Begun /\ accepted'[j] = queue'[k]
                        /\ \A j \in 1..(m + 1) : j > Begun =>
                             \E k \in 1..(l + 1) : queue'[k] = accepted'[j]
      BY <1>4, <2>1, <2>2 DEF WaitingInv
    <3>1. /\ \A k \in 1..l : queue[k].kind = "event" =>
               \E j \in 1..m : j > Begun /\ accepted[j] = queue[k]
          /\ \A j \in 1..m : j > Begun => \E k \in 1..l : queue[k] = accepted[j]
      BY <1>1, <1>3 DEF EventInv, WaitingInv
    <3>2. ASSUME NEW k \in 1..(l + 1), queue'[k].kind = "event"
          PROVE  \E j \in 1..(m + 1) : j > Begun /\ accepted'[j] = queue'[k]
      <4>1. CASE k \in 1..l
        <5>1. PICK j \in 1..m : j > Begun /\ accepted[j] = queue[k]
          BY <2>1, <3>1, <3>2, <4>1
        <5>2. j \in 1..(m + 1) /\ accepted'[j] = queue'[k]
          BY <1>1, <2>1, <2>2, <4>1, <5>1
        <5> QED BY <5>1, <5>2
      <4>2. CASE k = l + 1
        <5>1. m + 1 \in 1..(m + 1) /\ m + 1 > Begun
          BY <1>1
        <5> QED BY <2>1, <2>2, <4>2, <5>1
      <4> QED BY <1>1, <4>1, <4>2
    <3>3. ASSUME NEW j \in 1..(m + 1), j > Begun
          PROVE  \E k \in 1..(l + 1) : queue'[k] = accepted'[j]
      <4>1. CASE j \in 1..m
        <5>1. PICK k \in 1..l : queue[k] = accepted[j]
          BY <3>1, <3>3, <4>1
        <5>2. k \in 1..(l + 1) /\ queue'[k] = accepted'[j]
          BY <1>1, <2>1, <2>2, <4>1, <5>1
        <5> QED BY <5>2
      <4>2. CASE j = m + 1
        <5>1. l + 1 \in 1..(l + 1)
          BY <1>1
        <5> QED BY <2>1, <2>2, <4>2, <5>1
      <4> QED BY <1>1, <4>1, <4>2
    <3> QED BY <3>2, <3>3
  <2> QED BY <2>3, <2>4, <2>5, <2>6, <2>7 DEF EventInv
<1> QED BY <1>5, <1>6, <1>7

(* A visualizer's call between the events does not change their order.     *)
LEMMA VisQueued ==
  ASSUME EventInv, NEW c \in Queued, c.kind # "event",
         UNCHANGED <<worker, emitted, accepted, ran, closing, closer, mu, loaded, queueOpen,
                     dropQueued>>,
         queue' = Append(queue, c), loaded = "loaded", worker # Exited
  PROVE  EventInv'
<1> DEFINE l == Len(queue)
<1>1. /\ l \in Nat /\ Begun \in Nat /\ queue \in Seq(Queued)
      /\ DOMAIN accepted = 1..Len(accepted) /\ DOMAIN queue = 1..l
      /\ \A i \in 1..Len(accepted) : accepted[i].kind = "event"
  BY EventFacts DEF EventInv, EventTypes, Events
<1>2. (Taken' <=> Taken) /\ (Quitted' <=> Quitted) /\ Seen' = Seen /\ Begun' = Begun
  BY PlaceStays
<1>3. /\ queue' \in Seq(Queued) /\ Len(queue') = l + 1 /\ DOMAIN queue' = 1..(l + 1)
      /\ \A k \in 1..l : queue'[k] = queue[k]
      /\ queue'[l + 1] = c
  BY <1>1
<1> HIDE DEF l
<1>4. \A k \in 1..(l + 1) : queue'[k].kind = "event" => k \in 1..l
  BY <1>1, <1>3
<1>5. EventTypes' /\ WorkerInv'
  BY <1>2, <1>3 DEF EventInv, EventTypes, WorkerInv
<1>6. OrderInv'
  BY <1>1, <1>3, <1>4 DEF EventInv, OrderInv
<1>7. SeenInv'
  BY <1>2 DEF EventInv, SeenInv
<1>8. WaitingInv'
  <2> SUFFICES ASSUME ~dropQueued
               PROVE  /\ \A k \in 1..(l + 1) : queue'[k].kind = "event" =>
                           \E j \in DOMAIN accepted : j > Begun /\ accepted[j] = queue'[k]
                      /\ \A j \in DOMAIN accepted : j > Begun =>
                           \E k \in 1..(l + 1) : queue'[k] = accepted[j]
    BY <1>2, <1>3 DEF WaitingInv
  <2>1. /\ \A k \in 1..l : queue[k].kind = "event" =>
             \E j \in DOMAIN accepted : j > Begun /\ accepted[j] = queue[k]
        /\ \A j \in DOMAIN accepted : j > Begun => \E k \in 1..l : queue[k] = accepted[j]
    BY <1>1 DEF EventInv, WaitingInv
  <2>2. \A k \in 1..l : k \in 1..(l + 1)
    BY <1>1
  <2> QED BY <1>3, <1>4, <2>1, <2>2
<1> QED BY <1>5, <1>6, <1>7, <1>8 DEF EventInv

LEMMA VisKept ==
  ASSUME StageInv, EventInv, InitVis \/ LeaveVis
  PROVE  EventInv'
<1>1. /\ UNCHANGED <<worker, emitted, accepted, ran, closing, closer, mu, vmClosed, loaded,
                     queueOpen, dropQueued>>
      /\ loaded = "loaded"
      /\ \/ queue' = queue
         \/ ~closing /\ \E c \in {VisCall("init"), VisCall("destroy")} : queue' = Append(queue, c)
  BY DEF InitVis, LeaveVis, QueueVis, Enqueue, UI, lockVars, closeVars, history
<1>2. CASE queue' = queue
  BY <1>1, <1>2, CalmKept DEF Calm, Quitted, EventInv, EventTypes
<1>3. CASE queue' # queue
  <2>1. PICK c \in {VisCall("init"), VisCall("destroy")} : queue' = Append(queue, c)
    BY <1>1, <1>3
  <2>2. c \in Queued /\ c.kind # "event"
    BY DEF VisCall, Queued
  <2>3. worker # Exited
    BY <1>1, <1>3 DEF EventInv, WorkerInv, StageInv
  <2> QED BY <1>1, <2>1, <2>2, <2>3, VisQueued
<1> QED BY <1>2, <1>3

(* The worker takes the first call; the first event in the queue is the    *)
(* first accepted one that has not begun.                                  *)
LEMMA NextKept ==
  ASSUME StageInv, EventInv, NextCall
  PROVE  EventInv'
<1> DEFINE m == Len(accepted)
           l == Len(queue)
<1>1. /\ m \in Nat /\ l \in Nat /\ Begun \in Nat /\ Begun <= m /\ Seen \in Nat
      /\ DOMAIN accepted = 1..m /\ DOMAIN queue = 1..l
      /\ \A i \in 1..m : /\ accepted[i] \in Events
                         /\ accepted[i].n \in Nat /\ accepted[i].kind = "event"
      /\ \A k \in 1..l : queue[k] \in Queued /\ queue[k].n \in Nat
  BY EventFacts, Markers DEF Events
<1>2. /\ UNCHANGED <<emitted, accepted, ran, closing, closer, mu, loaded, queueOpen, dropQueued>>
      /\ worker = Idle /\ loaded = "loaded" /\ queue # <<>> /\ queue \in Seq(Queued)
      /\ worker' = (IF dropQueued THEN Idle ELSE queue[1]) /\ queue' = Tail(queue)
  BY DEF NextCall, TakeCall, lockVars, closeVars, history, EventInv, EventTypes
<1>3. /\ l >= 1 /\ queue' \in Seq(Queued) /\ Len(queue') = l - 1 /\ DOMAIN queue' = 1..(l - 1)
      /\ \A k \in 1..(l - 1) : k + 1 \in 1..l /\ queue'[k] = queue[k + 1]
  BY <1>1, <1>2
<1>4. ~Quitted /\ ~Quitted' /\ ~Taken /\ mu # "worker"
  BY <1>2, Markers DEF EventInv, WorkerInv, Quitted, Taken
<1>5. Seen' = Seen /\ Begun = Seen
  BY <1>2, <1>4 DEF Seen, Begun
<1>6. EventTypes' /\ WorkerInv'
  <2>1. worker' \in Queued \cup {Idle}
    BY <1>1, <1>2, <1>3
  <2> QED BY <1>2, <1>3, <1>4, <2>1, Markers DEF EventInv, EventTypes, WorkerInv
<1>7. OrderInv'
  <2>1. \A k \in 1..(l - 1) : queue'[k].kind = "event" => queue'[k].n <= emitted
    BY <1>1, <1>3 DEF EventInv, OrderInv
  <2>2. ASSUME NEW j \in 1..(l - 1), NEW k \in 1..(l - 1), j < k,
               queue'[j].kind = "event", queue'[k].kind = "event"
        PROVE  queue'[j].n < queue'[k].n
    <3>1. j + 1 \in 1..l /\ k + 1 \in 1..l /\ j + 1 < k + 1
      BY <1>3, <2>2
    <3> QED BY <1>1, <1>3, <2>2, <3>1 DEF EventInv, OrderInv
  <2> QED BY <1>2, <1>3, <2>1, <2>2 DEF EventInv, OrderInv
<1>8. CASE dropQueued
  <2>1. ~Taken' /\ Begun' = Begun
    BY <1>2, <1>5, <1>8, Markers DEF Taken, Begun
  <2>2. SeenInv'
    BY <1>2, <1>4, <1>5, <2>1 DEF EventInv, SeenInv
  <2>3. WaitingInv'
    BY <1>2, <1>8 DEF WaitingInv
  <2> QED BY <1>6, <1>7, <2>2, <2>3 DEF EventInv
<1>9. CASE ~dropQueued
  <2>1. /\ \A k \in 1..l : queue[k].kind = "event" =>
             \E j \in 1..m : j > Begun /\ accepted[j] = queue[k]
        /\ \A j \in 1..m : j > Begun => \E k \in 1..l : queue[k] = accepted[j]
    BY <1>1, <1>9 DEF EventInv, WaitingInv
  <2>2. \A j, k \in 1..l :
          j < k /\ queue[j].kind = "event" /\ queue[k].kind = "event" => queue[j].n < queue[k].n
    BY <1>1 DEF EventInv, OrderInv
  <2>3. \A i, j \in 1..m : i < j => accepted[i].n < accepted[j].n
    BY <1>1 DEF EventInv, OrderInv
  <2>4. CASE queue[1].kind = "event"
    <3>1. Taken' /\ Begun' = Begun + 1
      BY <1>2, <1>4, <1>5, <1>9, <2>4 DEF Taken, Begun
    <3>2. Begun + 1 \in 1..m /\ accepted[Begun + 1] = queue[1]
      <4>0. 1 \in 1..l
        BY <1>1, <1>3
      <4>1. PICK j \in 1..m : j > Begun /\ accepted[j] = queue[1]
        BY <2>1, <2>4, <4>0
      <4>2. Begun + 1 \in 1..m /\ Begun + 1 > Begun
        BY <1>1, <4>1
      <4>3. PICK k \in 1..l : queue[k] = accepted[Begun + 1]
        BY <2>1, <4>2
      <4>4. CASE j = Begun + 1
        BY <4>1, <4>2, <4>4
      <4>5. CASE j # Begun + 1
        <5>1. accepted[Begun + 1].n < accepted[j].n
          BY <1>1, <2>3, <4>1, <4>2, <4>5
        <5>2. queue[k].n < queue[1].n
          BY <4>1, <4>3, <5>1
        <5>3. k # 1 /\ 1 \in 1..l /\ queue[k].kind = "event"
          BY <1>1, <1>3, <4>2, <4>3, <5>2
        <5>4. queue[1].n < queue[k].n
          BY <1>1, <2>2, <2>4, <5>3
        <5> QED BY <1>1, <1>3, <5>2, <5>4
      <4> QED BY <4>4, <4>5
    <3>3. SeenInv'
      BY <1>1, <1>2, <1>4, <1>5, <1>9, <3>1, <3>2 DEF EventInv, SeenInv
    <3>4. ASSUME NEW k \in 1..(l - 1), queue'[k].kind = "event"
          PROVE  \E j \in 1..m : j > Begun' /\ accepted[j] = queue'[k]
      <4>0. k + 1 \in 1..l /\ queue'[k] = queue[k + 1]
        BY <1>3
      <4>1. k + 1 \in 1..l /\ 1 \in 1..l /\ 1 < k + 1 /\ queue'[k] = queue[k + 1]
        <5>1. l \in Nat
          BY <1>1
        <5> HIDE DEF l
        <5>2. 1 \in 1..l /\ 1 < k + 1
          BY <4>0, <5>1
        <5> QED BY <4>0, <5>2
      <4>2. PICK j \in 1..m : j > Begun /\ accepted[j] = queue[k + 1]
        BY <2>1, <3>4, <4>1
      <4>3. queue[1].n < queue[k + 1].n
        BY <2>2, <2>4, <3>4, <4>1
      <4>4. j # Begun + 1
        <5>1. queue[1].n \in Nat
          BY <1>1, <4>1
        <5>2. queue[1].n # queue[k + 1].n
          BY <4>3, <5>1
        <5> QED BY <3>2, <4>2, <5>2
      <4>5. j > Begun'
        BY <1>1, <3>1, <4>2, <4>4
      <4> QED BY <4>1, <4>2, <4>5
    <3>5. ASSUME NEW j \in 1..m, j > Begun'
          PROVE  \E k \in 1..(l - 1) : queue'[k] = accepted[j]
      <4>1. j > Begun /\ Begun + 1 < j
        BY <1>1, <3>1, <3>5
      <4>2. PICK k \in 1..l : queue[k] = accepted[j]
        BY <2>1, <4>1
      <4>3. accepted[Begun + 1].n < accepted[j].n
        BY <2>3, <3>2, <4>1
      <4>4. k # 1
        BY <1>1, <3>2, <4>2, <4>3
      <4>5. k - 1 \in 1..(l - 1) /\ (k - 1) + 1 = k
        BY <1>1, <4>4
      <4> QED BY <1>3, <4>2, <4>5
    <3>6. WaitingInv'
      <4>1. DOMAIN accepted' = 1..m /\ accepted' = accepted /\ DOMAIN queue' = 1..(l - 1)
        BY <1>1, <1>2, <1>3
      <4> HIDE DEF m, l
      <4> QED BY <3>4, <3>5, <4>1 DEF WaitingInv
    <3> QED BY <1>6, <1>7, <3>3, <3>6 DEF EventInv
  <2>5. CASE queue[1].kind # "event"
    <3>1. ~Taken' /\ Begun' = Begun
      BY <1>2, <1>5, <1>9, <2>5 DEF Taken, Begun
    <3>2. SeenInv'
      BY <1>2, <1>4, <1>5, <3>1 DEF EventInv, SeenInv
    <3>3. \A k \in 1..(l - 1) : queue'[k].kind = "event" =>
            \E j \in 1..m : j > Begun' /\ accepted[j] = queue'[k]
      <4> HIDE DEF m, l
      <4> QED BY <1>3, <2>1, <3>1
    <3>4. ASSUME NEW j \in 1..m, j > Begun'
          PROVE  \E k \in 1..(l - 1) : queue'[k] = accepted[j]
      <4>1. PICK k \in 1..l : queue[k] = accepted[j]
        BY <2>1, <3>1, <3>4
      <4>2. k # 1
        BY <1>1, <2>5, <4>1
      <4>3. k - 1 \in 1..(l - 1) /\ (k - 1) + 1 = k
        BY <1>1, <4>2
      <4> QED BY <1>3, <4>1, <4>3
    <3>5. WaitingInv'
      <4>1. DOMAIN accepted' = 1..m /\ accepted' = accepted /\ DOMAIN queue' = 1..(l - 1)
        BY <1>1, <1>2, <1>3
      <4> HIDE DEF m, l
      <4> QED BY <3>3, <3>4, <4>1 DEF WaitingInv
    <3> QED BY <1>6, <1>7, <3>2, <3>5 DEF EventInv
  <2> QED BY <2>4, <2>5
<1> QED BY <1>8, <1>9

(* Until app.quit the VM is open: a call that was taken runs.              *)
LEMMA CallKept ==
  ASSUME StageInv, EventInv, WorkerCall
  PROVE  EventInv'
<1>1. worker \in Queued /\ worker # Exited /\ loaded = "loaded" /\ ~Quitted
  BY DEF WorkerCall, EventInv, EventTypes, WorkerInv
<1>2. Open(ctxCanceled)
  BY <1>1 DEF StageInv, StageTypes, Stages, Quitted, Draining, Over, Open
<1>3. /\ UNCHANGED <<queue, worker, emitted, accepted, closing, closer, loaded, queueOpen,
                     dropQueued>>
      /\ mu = Nobody /\ mu' = "worker"
      /\ ran' = IF IsVis(worker) THEN ran ELSE Append(ran, worker)
  BY <1>2 DEF WorkerCall, Lock, closeVars
<1>4. Nobody # "worker"
  BY NamesAssumption DEF Callers
<1>5. ~Quitted' /\ ~Taken'
  BY <1>1, <1>3 DEF Quitted, Taken
<1>6. /\ Len(ran) \in Nat /\ Seen = Len(ran) /\ ran \in Seq(Events \cup {Quit})
      /\ Len(accepted) \in Nat
  BY <1>1, EventFacts DEF Seen, EventInv, EventTypes
<1>7. WorkerInv' /\ OrderInv'
  BY <1>1, <1>3, <1>5 DEF EventInv, WorkerInv, OrderInv
<1>8. CASE worker.kind = "event"
  <2>1. Taken /\ Begun = Seen + 1 /\ ~IsVis(worker) /\ worker \in Events
    BY <1>1, <1>3, <1>4, <1>8 DEF Taken, Begun, IsVis, Queued, Events
  <2>2. /\ ran' \in Seq(Events \cup {Quit}) /\ Len(ran') = Len(ran) + 1
        /\ \A i \in 1..Len(ran) : ran'[i] = ran[i]
        /\ ran'[Len(ran) + 1] = worker
    BY <1>3, <1>6, <2>1
  <2>3. Seen' = Begun /\ Begun' = Begun
    BY <1>5, <1>6, <2>1, <2>2 DEF Seen, Begun
  <2>4. \A i \in 1..Begun : i \in 1..Seen \/ i = Begun
    BY <1>6, <2>1
  <2>5. SeenInv'
    BY <1>3, <1>5, <1>6, <2>1, <2>2, <2>3, <2>4 DEF EventInv, SeenInv
  <2>6. WaitingInv' /\ EventTypes'
    BY <1>3, <2>2, <2>3 DEF EventInv, WaitingInv, EventTypes
  <2> QED BY <1>7, <2>5, <2>6 DEF EventInv
<1>9. CASE worker.kind # "event"
  <2>1. ~Taken /\ IsVis(worker)
    BY <1>1, <1>9 DEF Taken, IsVis, Queued
  <2>2. ran' = ran /\ Seen' = Seen /\ Begun' = Begun
    BY <1>1, <1>3, <1>5, <2>1 DEF Seen, Begun
  <2>3. SeenInv' /\ WaitingInv' /\ EventTypes'
    BY <1>1, <1>3, <1>5, <2>2 DEF EventInv, SeenInv, WaitingInv, EventTypes
  <2> QED BY <1>7, <2>3 DEF EventInv
<1> QED BY <1>8, <1>9

(* The end of a call, and the end of the worker.                           *)
LEMMA ReturnKept ==
  ASSUME StageInv, EventInv, WorkerReturn \/ WorkerExit
  PROVE  EventInv'
<1>1. /\ UNCHANGED <<queue, emitted, accepted, ran, closing, closer, loaded, queueOpen, dropQueued>>
      /\ worker' \in {Idle, Exited} /\ mu' # "worker"
      /\ worker' = Exited => queue = <<>> /\ ~queueOpen
      /\ worker = Exited => worker' = Exited
      /\ ~Taken
  <2>1. CASE WorkerReturn
    BY <2>1, NamesAssumption, Markers
       DEF WorkerReturn, Unlock, closeVars, history, Callers, EventInv, WorkerInv, Taken
  <2>2. CASE WorkerExit
    BY <2>2, Markers DEF WorkerExit, lockVars, closeVars, history, EventInv, WorkerInv, Taken
  <2> QED BY <2>1, <2>2
<1>2. ~Taken' /\ Quitted' = Quitted /\ Seen' = Seen
  BY <1>1, Markers DEF Taken, Quitted, Seen
<1>3. Begun' = Begun
  BY <1>1, <1>2 DEF Begun
<1>4. EventTypes' /\ OrderInv'
  BY <1>1 DEF EventInv, EventTypes, OrderInv
<1>5. WorkerInv'
  <2>1. loaded # "loaded" => worker' = Idle
    BY <1>1 DEF EventInv, WorkerInv, StageInv
  <2> QED BY <1>1, <1>2, <2>1, Markers DEF EventInv, WorkerInv
<1>6. SeenInv' /\ WaitingInv'
  BY <1>1, <1>2, <1>3 DEF EventInv, SeenInv, WaitingInv
<1> QED BY <1>4, <1>5, <1>6 DEF EventInv

(* app.quit follows the end of the worker.                                 *)
LEMMA QuitKept ==
  ASSUME StageInv, EventInv, QuitCall
  PROVE  EventInv'
<1>1. /\ UNCHANGED <<queue, worker, emitted, accepted, closing, loaded, queueOpen, dropQueued>>
      /\ worker = Exited /\ mu' # "worker" /\ closer = "drain" /\ closer' = "quit"
      /\ ran' = Append(ran, Quit)
  BY NamesAssumption DEF QuitCall, Drained, Lock, CloseStep, Callers, queueVars
<1>2. closing /\ ~Quitted /\ Quitted' /\ ~Taken /\ ~Taken'
  BY <1>1, Markers DEF StageInv, StageTypes, Over, Quitted, Draining, Taken
<1>3. ran \in Seq(Events \cup {Quit}) /\ Len(ran) \in Nat
  BY EventFacts DEF EventInv, EventTypes
<1>4. /\ ran' \in Seq(Events \cup {Quit}) /\ Len(ran') = Len(ran) + 1
      /\ \A i \in 1..Len(ran) : ran'[i] = ran[i]
      /\ ran'[Len(ran) + 1] = Quit
  BY <1>1, <1>3
<1>5. Seen = Len(ran) /\ Seen' = Len(ran) /\ Begun' = Begun
  BY <1>2, <1>3, <1>4 DEF Seen, Begun
<1>6. EventTypes' /\ OrderInv'
  BY <1>1, <1>4 DEF EventInv, EventTypes, OrderInv
<1>7. WorkerInv'
  BY <1>1, <1>2 DEF EventInv, WorkerInv, StageInv
<1>8. SeenInv'
  BY <1>1, <1>2, <1>3, <1>4, <1>5 DEF EventInv, SeenInv
<1>9. WaitingInv'
  BY <1>1, <1>5 DEF EventInv, WaitingInv
<1> QED BY <1>6, <1>7, <1>8, <1>9 DEF EventInv

LEMMA EventKept ==
  ASSUME StageInv, EventInv, [Next]_vars
  PROVE  EventInv'
<1>1. CASE Calm
  BY <1>1, CalmKept
<1>2. CASE EventStep
  BY <1>2, EmitKept, NextKept, CallKept, ReturnKept, VisKept DEF EventStep
<1>3. CASE QuitCall
  BY <1>3, QuitKept
<1>4. Publish \/ UNCHANGED vars => Calm
  BY DEF Publish, vars, Calm, Quitted, lockVars, closeVars, queueVars, history, EventInv, EventTypes
<1>5. TimerStep \/ ProcessStep \/ DrawStep \/ CloserStep => Calm
  BY TimerEffect, ProcessEffect, DrawEffect, CloserEffect DEF EventInv
<1> QED BY <1>1, <1>2, <1>3, <1>4, <1>5, Steps

-----------------------------------------------------------------------------
(* Theorems                                                                *)

LEMMA PluginInvInit == Init => PluginInv
<1> SUFFICES ASSUME Init PROVE PluginInv
  OBVIOUS
<1>1. StageInv
  BY NamesAssumption DEF Init, StageInv, StageTypes, Stages, Over, Draining, Callers
<1>2. EventTypes /\ WorkerInv
  <2>1. EventTypes
    <3>1. /\ queue = <<>> /\ worker = Idle /\ emitted = 0 /\ accepted = <<>> /\ ran = <<>>
          /\ dropQueued = FALSE
      BY DEF Init
    <3>2. <<>> \in Seq(Queued) /\ <<>> \in Seq(Events) /\ <<>> \in Seq(Events \cup {Quit})
      OBVIOUS
    <3>3. emitted \in Nat
      BY <3>1
    <3> QED BY <3>1, <3>2, <3>3, Zenon DEF EventTypes
  <2>2. mu # "worker" /\ worker # Exited /\ ~Quitted
    BY Markers DEF Init, Quitted
  <2>3. WorkerInv
    BY <2>2 DEF Init, WorkerInv
  <2> QED BY <2>1, <2>3
<1>3. ~Taken /\ Seen = 0 /\ Begun = 0
  BY Markers DEF Init, Taken, Seen, Begun, Quitted
<1>4. OrderInv /\ SeenInv /\ WaitingInv
  BY <1>3 DEF Init, OrderInv, SeenInv, WaitingInv, Quitted
<1>5. BackInv
  BY DEF Init, BackInv, BackTypes, TimersInv, LeftInv, Entries, Over
<1> QED BY <1>1, <1>2, <1>4, <1>5 DEF PluginInv, EventInv

LEMMA PluginInvStep == PluginInv /\ [Next]_vars => PluginInv'
BY StageKept, EventKept, BackKept DEF PluginInv, EventInv

(* What was seen is a prefix of what was accepted, all of it once app.quit *)
(* has run, unless Close dropped the rest.                                 *)
LEMMA InOrderFollows ==
  ASSUME PluginInv
  PROVE  EventsInOrder
<1>1. /\ Len(ran) \in Nat /\ Len(accepted) \in Nat /\ DOMAIN accepted = 1..Len(accepted)
      /\ \A i \in 1..Len(accepted) : accepted[i] \in Events
      /\ accepted \in Seq(Events) /\ ran \in Seq(Events \cup {Quit})
      /\ Seen \in Nat /\ Seen <= Len(accepted)
      /\ \A i \in 1..Seen : ran[i] = accepted[i]
      /\ Quitted => Len(ran) >= 1 /\ ran[Len(ran)] = Quit
  BY EventFacts DEF PluginInv, EventInv, EventTypes, SeenInv
<1>2. Contains(ran, Quit) <=> Quitted
  BY <1>1, Markers DEF Contains, Seen
<1> DEFINE seen == IF Contains(ran, Quit) THEN Front(ran) ELSE ran
<1>3. /\ Len(seen) = Seen /\ seen \in Seq(Events \cup {Quit})
      /\ \A i \in 1..Seen : seen[i] = accepted[i]
  BY <1>1, <1>2 DEF Front, Seen
<1> HIDE DEF seen
<1>4. IsPrefix(seen, accepted)
  BY <1>1, <1>3 DEF IsPrefix
<1>5. Quitted /\ ~dropQueued => Seen = Len(accepted)
  <2> SUFFICES ASSUME Quitted, ~dropQueued PROVE Seen = Len(accepted)
    OBVIOUS
  <2>1. queue = <<>> /\ Begun = Seen
    BY Markers DEF PluginInv, EventInv, WorkerInv, Begun, Taken
  <2>2. ~\E j \in 1..Len(accepted) : j > Seen
    BY <1>1, <2>1 DEF PluginInv, EventInv, WaitingInv
  <2> QED BY <1>1, <2>2
<1>6. Quitted /\ ~dropQueued => seen = accepted
  BY <1>1, <1>3, <1>5
<1> QED BY <1>2, <1>4, <1>6 DEF EventsInOrder, seen

(* "Each plugin runs its events one at a time, in the order they were      *)
(* emitted", whatever fills the queue and whenever Close runs, and         *)
(* app.quit comes after all of them.                                       *)
THEOREM EventsRunInOrder == Spec => []EventsInOrder
BY PluginInvInit, PluginInvStep, InOrderFollows, PTL DEF Spec

(* A canceled timer does not run its callback though it has fired, no      *)
(* caller enters a closed VM, and when Close is over there is no timer,    *)
(* process or retained value of the plugin.                                *)
THEOREM OverStaysSilent == Spec => OverIsSilent
<1>1. PluginInv => ClosedForGood
  BY DEF PluginInv, StageInv, BackInv, LeftInv, ClosedForGood, NoLuaAfterClose, NothingLeft, Over
<1>2. ASSUME PluginInv, [Next]_vars
      PROVE  \A t \in Timers :
               timer'[t] = "run" /\ timer[t] # "run" => t \notin stopped /\ t \in timers
  <2>1. CASE TimerStep
    <3> SUFFICES ASSUME NEW t \in Timers, timer'[t] = "run", timer[t] # "run"
                 PROVE  t \notin stopped /\ t \in timers
      OBVIOUS
    <3>1. /\ timer \in [Timers -> {"new", "wait", "fired", "run", "exited"}]
          /\ timers \cap stopped = {}
      BY <1>2 DEF PluginInv, BackInv, BackTypes, TimersInv
    <3>2. PICK u \in Timers : \/ StartTimer(u) \/ CancelTimer(u) \/ TimerFires(u) \/ TimerStops(u)
                              \/ TimerCall(u) \/ TimerReturn(u)
      BY <2>1 DEF TimerStep
    <3>3. ~CancelTimer(u)
      BY DEF CancelTimer
    <3>4. ASSUME NEW s, timer' = [timer EXCEPT ![u] = s]
          PROVE  t = u /\ s = "run"
      BY <3>1, <3>4
    <3>5. \A s : timer' = [timer EXCEPT ![u] = s] => t = u /\ s = "run"
      BY <3>4
    <3>6. ~(StartTimer(u) \/ TimerFires(u) \/ TimerStops(u) \/ TimerReturn(u))
      BY <3>5 DEF StartTimer, TimerFires, TimerStops, TimerReturn
    <3>7. TimerCall(u) /\ MayRun(u) /\ t = u
      BY <3>2, <3>3, <3>5, <3>6 DEF TimerCall
    <3> QED BY <3>1, <3>7 DEF MayRun
  <2>2. CASE timer' = timer
    BY <2>2
  <2>3. ~TimerStep => timer' = timer
    <3>1. ProcessStep \/ DrawStep \/ EventStep => timer' = timer
      BY <1>2, ProcessEffect, DrawEffect, EventEffect DEF PluginInv, EventInv, BackVars
    <3>2. CloserStep \/ QuitCall \/ Publish \/ UNCHANGED vars => timer' = timer
      BY DEF CloserStep, Load, CloseMark, CloseCommands, CloseQueue, DropQueued, QuitReturn,
         StopTimers, StopProcesses, WaitProcesses, CloseContext, CloseVM, ClearPrefix, QuitCall,
         Publish, vars, timerVars
    <3> QED BY <1>2, <3>1, <3>2, Steps
  <2> QED BY <2>1, <2>2, <2>3
<1>3. PluginInv /\ [Next]_vars =>
        [\A t \in Timers :
           timer'[t] = "run" /\ timer[t] # "run" => t \notin stopped /\ t \in timers]_vars
  BY <1>2
<1> QED BY <1>1, <1>3, PluginInvInit, PluginInvStep, PTL
       DEF Spec, OverIsSilent, CanceledTimersStaySilent

==============================================================================
