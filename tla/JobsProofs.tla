----------------------------- MODULE JobsProofs -----------------------------
(***************************************************************************)
(* Proofs about Jobs.tla, for every capacity and any number of jobs and    *)
(* connections: the store never drops a job that is active, an outcome is  *)
(* final, the end of a job is announced at most once, the ordered queue    *)
(* loses nothing, what is told of a job's effect is so, its snapshot is    *)
(* not older than that effect, and a job canceled before it began has      *)
(* none.                                                                   *)
(***************************************************************************)
EXTENDS Jobs, SequenceTheorems, TLAPS

JobStates == {"new"} \cup Active \cup Ended

(* The store: what has ended is listed in the order that it ended.         *)
StoreInv ==
  /\ stored \subseteq Ids
  /\ state \in [Ids -> JobStates]
  /\ ended \in Seq(Ids) /\ old \in 0 .. Len(ended)
  /\ \A i \in 1 .. Len(ended) : state[ended[i]] \in Ended
  /\ ActiveNeverDropped

(* All ends that were announced or are about to be, oldest first.          *)
Told == published \o events

(* Who ended a job owes its event; then it is in the channel, then out.    *)
ToldInv ==
  /\ finisher \in [Ids -> Actors \cup {None}]
  /\ \A j \in Ids : finisher[j] # None => state[j] \in Ended
  /\ events \in Seq(Ids) /\ published \in Seq(Ids)
  /\ \A i \in 1 .. Len(Told) : state[Told[i]] \in Ended /\ finisher[Told[i]] = None
  /\ \A i, k \in 1 .. Len(Told) : i # k => Told[i] # Told[k]

(* The queue, and the connections that feed it.                            *)
QueueInv ==
  /\ sent \in Seq(Ids) /\ taken \in Seq(Ids)
  /\ batch \in Seq(Ids) /\ pending \in Seq(Ids)
  /\ sender \in {"waiting", "awake", "sending"} /\ wake \in BOOLEAN
  /\ sender # "sending" => batch = <<>>
  /\ conn \in [Conns -> [does : {"idle", "create", "wake", "acknowledge"},
                         job : Ids \cup {None}]]
  /\ \A c \in Conns : conn[c].does = "create" => conn[c].job \in Ids
  /\ quit \in BOOLEAN
  /\ QueueLosesNothing

-----------------------------------------------------------------------------
(* The store.                                                              *)

(* Pruning leaves a list of jobs that ended, and every active job.         *)
LEMMA KeptFacts ==
  ASSUME StoreInv
  PROVE  /\ Kept \subseteq stored
         /\ KeptEnded \in Seq(Ids)
         /\ \A i \in 1 .. Len(KeptEnded) : state[KeptEnded[i]] \in Ended
         /\ \A j \in Ids : state[j] \in Active => j \in Kept
<1> USE DEF StoreInv
<1>1. old + 1 \in Int /\ Len(ended) \in Int
  OBVIOUS
<1>2. \A i \in old + 1 .. Len(ended) : ended[i] \in Ids
  OBVIOUS
<1>3. /\ KeptEnded \in Seq(Ids)
      /\ Len(KeptEnded) = IF old + 1 <= Len(ended) THEN Len(ended) - old ELSE 0
      /\ \A i \in 1 .. Len(ended) - old : KeptEnded[i] = ended[old + i]
  <2> HIDE DEF StoreInv
  <2> QED BY <1>1, <1>2, SubSeqProperties, old \in 0 .. Len(ended) DEF KeptEnded, StoreInv
<1>4. \A i \in 1 .. Len(KeptEnded) : state[KeptEnded[i]] \in Ended
  BY <1>3
<1>5. \A j \in Ids : state[j] \in Active => j \in Kept
  BY DEF Kept, ActiveNeverDropped, Active, Ended
<1> QED BY <1>3, <1>4, <1>5 DEF Kept

(* A call that only prunes keeps the invariant of the store.               *)
LEMMA PruneKeeps ==
  ASSUME StoreInv, Prune
  PROVE  StoreInv'
BY KeptFacts DEF StoreInv, Prune, ActiveNeverDropped

(* CreateWithContext evicts a job that ended, or stores nothing.           *)
LEMMA StoreKeeps ==
  ASSUME StoreInv, NEW j \in Ids, state[j] = "new", Store(j)
  PROVE  StoreInv'
<1>1. state' = [state EXCEPT ![j] = "queued"] /\ old' = 0
  BY DEF Store
<1>2. \A i \in 1 .. Len(KeptEnded) : KeptEnded[i] # j
  BY KeptFacts DEF Ended
<1>3. CASE stored' = Kept \cup {j} /\ ended' = KeptEnded
  BY <1>1, <1>2, <1>3, KeptFacts
     DEF StoreInv, ActiveNeverDropped, Active, Ended, JobStates
<1>4. CASE \E v \in Victims : /\ stored' = (Kept \ {v}) \cup {j}
                              /\ ended' = IF KeptEnded # <<>> THEN Tail(KeptEnded) ELSE <<>>
  <2>1. KeptEnded # <<>> /\ stored' = (Kept \ {Head(KeptEnded)}) \cup {j}
        /\ ended' = Tail(KeptEnded)
    BY <1>4 DEF Victims
  <2>2. Head(KeptEnded) = KeptEnded[1] /\ 1 \in 1 .. Len(KeptEnded)
    BY <2>1, KeptFacts
  <2>3. state[Head(KeptEnded)] \in Ended
    BY <2>2, KeptFacts
  <2>4. /\ Tail(KeptEnded) \in Seq(Ids) /\ Len(Tail(KeptEnded)) = Len(KeptEnded) - 1
        /\ \A i \in 1 .. Len(Tail(KeptEnded)) : Tail(KeptEnded)[i] = KeptEnded[i + 1]
    BY <2>1, KeptFacts, HeadTailProperties
  <2>5. \A i \in 1 .. Len(ended') : state'[ended'[i]] \in Ended
    BY <1>1, <1>2, <2>1, <2>4, KeptFacts DEF StoreInv
  <2> QED BY <1>1, <2>1, <2>3, <2>4, <2>5, KeptFacts
             DEF StoreInv, ActiveNeverDropped, Active, Ended, JobStates
<1> QED BY <1>3, <1>4 DEF Store

(* Start changes a job that is stored and queued, or nothing.              *)
LEMMA StartKeeps ==
  ASSUME StoreInv, NEW j, Start(j)
  PROVE  StoreInv'
<1>1. CASE Starts(j)
  <2>1. j \in Ids /\ state[j] = "queued" /\ state' = [state EXCEPT ![j] = "running"]
    BY <1>1, KeptFacts DEF Start, Starts, StoreInv
  <2> QED BY <2>1, KeptFacts DEF Start, StoreInv, ActiveNeverDropped, Active, Ended, JobStates
<1>2. CASE ~Starts(j)
  BY <1>2, KeptFacts DEF Start, StoreInv, ActiveNeverDropped
<1> QED BY <1>1, <1>2

(* finish appends a job to the list of the ended, or changes nothing.      *)
LEMMA FinishKeeps ==
  ASSUME StoreInv, NEW a, NEW j, NEW outcome \in Ended, Finish(a, j, outcome)
  PROVE  StoreInv'
<1>1. CASE Finishable(j, outcome)
  <2>1. j \in Ids /\ state[j] \in Active
    BY <1>1, KeptFacts DEF Finishable, StoreInv, Active
  <2>2. /\ state' = [state EXCEPT ![j] = outcome] /\ ended' = Append(KeptEnded, j)
        /\ stored' = Kept /\ old' = 0
    BY <1>1 DEF Finish
  <2>3. /\ ended' \in Seq(Ids) /\ Len(ended') = Len(KeptEnded) + 1
        /\ \A i \in 1 .. Len(KeptEnded) : ended'[i] = KeptEnded[i]
        /\ ended'[Len(KeptEnded) + 1] = j
    BY <2>1, <2>2, KeptFacts, AppendProperties
  <2>4. \A i \in 1 .. Len(ended') : state'[ended'[i]] \in Ended
    BY <2>1, <2>2, <2>3, KeptFacts DEF StoreInv
  <2> QED BY <2>1, <2>2, <2>3, <2>4, KeptFacts
             DEF StoreInv, ActiveNeverDropped, Active, Ended, JobStates
<1>2. CASE ~Finishable(j, outcome)
  BY <1>2, KeptFacts DEF Finish, StoreInv, ActiveNeverDropped
<1> QED BY <1>1, <1>2

-----------------------------------------------------------------------------
(* What a step does to the store and to the events.                        *)
Calls ==
  \/ Prune
  \/ \E j \in Ids : state[j] = "new" /\ Store(j)
  \/ \E j : Start(j)
  \/ \E a \in Actors, outcome \in Ended : \E j : Finish(a, j, outcome)
Quiet == UNCHANGED <<stored, state, kind, stopped, ended, old, finisher, events, published>>
StoreStep ==
  \/ Quiet
  \/ Calls /\ UNCHANGED eventVars
  \/ Age \/ PublishEvent
  \/ \E j \in Ids : SendEvent(j)

(* Ending a job is one of the calls.                                       *)
LEMMA FinishIsCall ==
  ASSUME NEW a \in Actors, NEW j, NEW outcome \in Ended, Finish(a, j, outcome),
         UNCHANGED eventVars
  PROVE  StoreStep
BY DEF StoreStep, Calls

(* Every step is one of these.                                             *)
LEMMA StepCases ==
  ASSUME [Next]_vars
  PROVE  StoreStep
<1> DEFINE Ends(a, j, o) == Finish(a, j, o) /\ UNCHANGED eventVars
<1>0. /\ \A c \in Conns : \A j : Ends(c, j, "canceled") => StoreStep
      /\ \A j : Ends(UI, j, "succeeded") \/ Ends(UI, j, "failed") => StoreStep
      /\ \A j : Ends(Plugin, j, "succeeded") \/ Ends(Plugin, j, "failed") => StoreStep
      /\ \A j : Ends(Closer, j, "canceled") => StoreStep
  BY FinishIsCall DEF Actors, Ended
<1>1. CASE UNCHANGED vars
  BY <1>1 DEF vars, storeVars, eventVars, StoreStep, Quiet
<1>2. ASSUME NEW c \in Conns, Submits(c)
      PROVE  StoreStep
  BY <1>2 DEF Submits, StartPlugin, Enqueue, Wake, Acknowledge, storeVars, eventVars,
              StoreStep, Quiet
<1>3. ASSUME NEW c \in Conns, Asks(c)
      PROVE  StoreStep
  <2>1. CASE Refuse(c)
    BY <2>1 DEF Refuse, StoreStep, Calls
  <2>2. ASSUME NEW j \in Ids, Create(c, j)
        PROVE  StoreStep
    BY <2>2 DEF Create, StoreStep, Calls
  <2>3. ASSUME NEW j \in Ids, Cancel(c, j)
        PROVE  StoreStep
    BY <2>3, <1>0 DEF Cancel
  <2>4. ASSUME NEW j \in Ids, Get(c, j)
        PROVE  StoreStep
    BY <2>4 DEF Get, StoreStep, Calls
  <2> QED BY <1>3, <2>1, <2>2, <2>3, <2>4 DEF Asks
<1>4. CASE Sender
  BY <1>4 DEF Sender, Awake, Grab, Discard, EndBatch, storeVars, eventVars, StoreStep, Quiet
<1>5. CASE Updates
  <2>1. CASE TakeRequest
    BY <2>1 DEF TakeRequest, StoreStep, Calls
  <2>2. CASE DropRequest \/ BeginSync \/ BeginCommand \/ Apply \/ PutLoaded
    BY <2>2 DEF DropRequest, BeginSync, BeginCommand, Apply, PutLoaded,
                storeVars, eventVars, StoreStep, Quiet
  <2>3. CASE Complete
    BY <2>3 DEF Complete, StoreStep, Calls
  <2>4. CASE FinishDone
    BY <2>4, <1>0 DEF FinishDone
  <2>5. CASE FinishFailed
    BY <2>5, <1>0 DEF FinishFailed
  <2>6. ASSUME NEW j \in Ids, TakeLoaded(j) \/ TakeResponse(j)
        PROVE  StoreStep
    BY <2>6 DEF TakeLoaded, TakeResponse, storeVars, eventVars, StoreStep, Quiet
  <2> QED BY <1>5, <2>1, <2>2, <2>3, <2>4, <2>5, <2>6 DEF Updates
<1>6. CASE Edit \/ Quit
  BY <1>6 DEF Edit, Quit, storeVars, eventVars, StoreStep, Quiet
<1>7. ASSUME NEW j \in Ids, Works(j) \/ Await(j)
      PROVE  StoreStep
  <2>1. CASE Load(j) \/ CheckEdit(j) \/ ChangeProvider(j) \/ SwitchDevice(j) \/ Await(j)
    BY <2>1 DEF Load, CheckEdit, ChangeProvider, SwitchDevice, Await,
                storeVars, eventVars, StoreStep, Quiet
  <2>2. CASE PluginStart(j)
    BY <2>2 DEF PluginStart, StoreStep, Calls
  <2>3. CASE PluginCall(j)
    BY <2>3, <1>0 DEF PluginCall
  <2> QED BY <1>7, <2>1, <2>2, <2>3 DEF Works
<1>8. CASE Closing
  <2>1. CASE StopServer \/ ListActive \/ EndServer
    BY <2>1 DEF StopServer, ListActive, EndServer, storeVars, eventVars, StoreStep, Quiet
  <2>2. ASSUME NEW j \in Ids, CancelListed(j)
        PROVE  StoreStep
    <3>1. Finish(Closer, j, "canceled") /\ UNCHANGED eventVars
      BY <2>2, Zenon DEF CancelListed
    <3> QED BY <3>1, <1>0
  <2> QED BY <1>8, <2>1, <2>2 DEF Closing
<1>9. CASE PublishEvent \/ Age \/ \E j \in Ids : SendEvent(j)
  BY <1>9 DEF StoreStep
<1> QED BY <1>1, <1>2, <1>3, <1>4, <1>5, <1>6, <1>7, <1>8, <1>9 DEF Next

(* Every step keeps the invariant of the store.                            *)
LEMMA StoreKept ==
  ASSUME StoreInv, [Next]_vars
  PROVE  StoreInv'
<1>1. StoreStep
  BY StepCases
<1>2. CASE Quiet
  BY <1>2 DEF Quiet, StoreInv, ActiveNeverDropped
<1>3. CASE Calls
  BY <1>3, PruneKeeps, StoreKeeps, StartKeeps, FinishKeeps DEF Calls
<1>4. CASE Age
  BY <1>4 DEF Age, StoreInv, ActiveNeverDropped
<1>5. CASE PublishEvent
  BY <1>5 DEF PublishEvent, storeVars, StoreInv, ActiveNeverDropped
<1>6. ASSUME NEW j \in Ids, SendEvent(j)
      PROVE  StoreInv'
  BY <1>6 DEF SendEvent, StoreInv, ActiveNeverDropped
<1> QED BY <1>1, <1>2, <1>3, <1>4, <1>5, <1>6 DEF StoreStep

(* The store starts empty.                                                 *)
LEMMA StoreInit ==
  ASSUME Init
  PROVE  StoreInv
BY DEF Init, StoreInv, ActiveNeverDropped, JobStates, Active, Ended

(* For every capacity, a job that is queued or running is in the store: a  *)
(* client that waits for it finds it (evictTerminalLocked and              *)
(* pruneExpiredLocked drop only what has ended).                           *)
THEOREM ActiveJobsKept == Spec => []ActiveNeverDropped
<1>1. Init => StoreInv
  BY StoreInit
<1>2. StoreInv /\ [Next]_vars => StoreInv'
  BY StoreKept
<1>3. StoreInv => ActiveNeverDropped
  BY DEF StoreInv
<1> QED BY <1>1, <1>2, <1>3, PTL DEF Spec

(* No call on the store changes the state of a job that ended.             *)
LEMMA StateFinal ==
  ASSUME StoreInv, [Next]_vars, NEW j \in Ids, state[j] \in Ended
  PROVE  state'[j] = state[j]
<1> USE DEF Active, Ended
<1>1. StoreStep
  BY StepCases
<1>2. CASE UNCHANGED state
  BY <1>2
<1>3. ASSUME NEW k \in Ids, state[k] = "new", Store(k)
      PROVE  state'[j] = state[j]
  BY <1>3 DEF Store, StoreInv
<1>4. ASSUME NEW k, Start(k)
      PROVE  state'[j] = state[j]
  BY <1>4 DEF Start, Starts, StoreInv
<1>5. ASSUME NEW a, NEW k, NEW outcome, Finish(a, k, outcome)
      PROVE  state'[j] = state[j]
  BY <1>5 DEF Finish, Finishable, StoreInv
<1> QED BY <1>1, <1>2, <1>3, <1>4, <1>5
           DEF StoreStep, Quiet, Calls, Prune, Age, PublishEvent, storeVars, SendEvent

(* An outcome is final: a late result does not undo a cancellation, and a  *)
(* late cancellation does not undo a result (finish).                      *)
THEOREM OutcomesFinal == Spec => OutcomeFinal
<1>1. Init => StoreInv
  BY StoreInit
<1>2. StoreInv /\ [Next]_vars => StoreInv'
  BY StoreKept
<1>3. StoreInv /\ [Next]_vars =>
        [\A j \in Ids : state[j] \in Ended => state'[j] = state[j]]_vars
  BY StateFinal
<1> QED BY <1>1, <1>2, <1>3, PTL DEF Spec, OutcomeFinal

-----------------------------------------------------------------------------
(* The events.                                                             *)

(* Moving the head of one sequence to the end of another keeps the order.  *)
LEMMA MovedHead ==
  ASSUME NEW S, NEW s \in Seq(S), NEW t \in Seq(S), t # <<>>
  PROVE  /\ Append(s, Head(t)) \in Seq(S) /\ Tail(t) \in Seq(S)
         /\ Append(s, Head(t)) \o Tail(t) = s \o t
<1>1. /\ Head(t) \in S /\ Tail(t) \in Seq(S)
      /\ Len(Tail(t)) = Len(t) - 1
      /\ \A i \in 1 .. Len(Tail(t)) : Tail(t)[i] = t[i + 1]
      /\ Head(t) = t[1] /\ Len(t) >= 1
  BY HeadTailProperties
<1> DEFINE u == Append(s, Head(t))
<1>2. /\ u \in Seq(S) /\ Len(u) = Len(s) + 1
      /\ \A i \in 1 .. Len(s) : u[i] = s[i]
      /\ u[Len(s) + 1] = Head(t)
  BY <1>1, AppendProperties
<1> HIDE DEF u
<1>3. /\ u \o Tail(t) \in Seq(S) /\ Len(u \o Tail(t)) = Len(s) + Len(t)
      /\ \A i \in 1 .. Len(s) + Len(t) : (u \o Tail(t))[i] =
            IF i <= Len(u) THEN u[i] ELSE Tail(t)[i - Len(u)]
  <2>1. /\ u \o Tail(t) \in Seq(S) /\ Len(u \o Tail(t)) = Len(u) + Len(Tail(t))
        /\ \A i \in 1 .. Len(u) + Len(Tail(t)) : (u \o Tail(t))[i] =
              IF i <= Len(u) THEN u[i] ELSE Tail(t)[i - Len(u)]
    BY <1>1, <1>2, ConcatProperties
  <2>2. Len(u) + Len(Tail(t)) = Len(s) + Len(t)
    BY <1>1, <1>2
  <2> QED BY <2>1, <2>2
<1>4. /\ s \o t \in Seq(S) /\ Len(s \o t) = Len(s) + Len(t)
      /\ \A i \in 1 .. Len(s) + Len(t) : (s \o t)[i] =
            IF i <= Len(s) THEN s[i] ELSE t[i - Len(s)]
  BY ConcatProperties
<1>5. ASSUME NEW i \in 1 .. Len(s) + Len(t)
      PROVE  (u \o Tail(t))[i] = (s \o t)[i]
  <2>1. CASE i <= Len(s)
    BY <2>1, <1>2, <1>3, <1>4
  <2>2. CASE i = Len(s) + 1
    BY <2>2, <1>1, <1>2, <1>3, <1>4
  <2>3. CASE i > Len(s) + 1
    BY <2>3, <1>1, <1>2, <1>3, <1>4
  <2>4. i \in Nat /\ Len(s) \in Nat
    OBVIOUS
  <2>5. i <= Len(s) \/ i = Len(s) + 1 \/ i > Len(s) + 1
    BY <2>4
  <2> QED BY <2>1, <2>2, <2>3, <2>5, Zenon
<1>6. u \o Tail(t) = s \o t
  BY <1>3, <1>4, <1>5, SeqEqual
<1> QED BY <1>1, <1>2, <1>6 DEF u

(* Appending to the second of two sequences appends to both together.      *)
LEMMA AppendedLater ==
  ASSUME NEW S, NEW s \in Seq(S), NEW t \in Seq(S), NEW e \in S
  PROVE  s \o Append(t, e) = Append(s \o t, e)
<1> DEFINE one == <<e>>
<1>1. one \in Seq(S)
  OBVIOUS
<1>2. s \o t \in Seq(S)
  BY ConcatProperties
<1>3. Append(t, e) = t \o one /\ Append(s \o t, e) = (s \o t) \o one
  BY <1>2, AppendIsConcat
<1> QED BY <1>1, <1>3, ConcatAssociative

(* Every step keeps the invariant of the events.                           *)
LEMMA ToldKept ==
  ASSUME StoreInv, ToldInv, [Next]_vars
  PROVE  ToldInv'
<1> USE DEF Ended
<1>0. StoreStep
  BY StepCases
<1>1. CASE /\ UNCHANGED <<events, published, finisher>>
           /\ \A j \in Ids : state[j] \in Ended => state'[j] \in Ended
  <2>1. /\ Told' = Told /\ \A i \in 1 .. Len(Told) : Told[i] \in Ids
    BY <1>1, ConcatProperties DEF Told, ToldInv
  <2> QED BY <1>1, <2>1 DEF ToldInv
<1>2. \A j \in Ids : state[j] \in Ended => state'[j] \in Ended
  BY StateFinal
<1>3. ASSUME NEW a \in Actors, NEW outcome \in Ended, NEW j, Finish(a, j, outcome),
             UNCHANGED eventVars
      PROVE  ToldInv'
  <2>1. CASE Finishable(j, outcome)
    <3>1. /\ j \in Ids /\ state[j] \in Active
          /\ state' = [state EXCEPT ![j] = outcome]
          /\ finisher' = [finisher EXCEPT ![j] = a]
          /\ events' = events /\ published' = published
      BY <1>3, <2>1, KeptFacts DEF Finish, Finishable, StoreInv, Active, eventVars
    <3>2. /\ Told' = Told
          /\ \A i \in 1 .. Len(Told) : Told[i] \in Ids /\ Told[i] # j
      <4>1. Told' = Told
        BY <3>1 DEF Told
      <4>2. Told \in Seq(Ids)
        BY ConcatProperties DEF Told, ToldInv
      <4>3. ~(state[j] \in Ended)
        BY <3>1 DEF Active
      <4>4. \A i \in 1 .. Len(Told) : state[Told[i]] \in Ended
        BY DEF ToldInv
      <4> QED BY <4>1, <4>2, <4>3, <4>4
    <3> QED BY <3>1, <3>2, <1>2 DEF ToldInv, StoreInv
  <2>2. CASE ~Finishable(j, outcome)
    BY <1>1, <1>2, <1>3, <2>2 DEF Finish, eventVars
  <2> QED BY <2>1, <2>2
<1>4. CASE PublishEvent
  <2>1. /\ events # <<>> /\ published' = Append(published, Head(events))
        /\ events' = Tail(events) /\ UNCHANGED <<state, finisher>>
    BY <1>4 DEF PublishEvent, storeVars
  <2>2. events' \in Seq(Ids) /\ published' \in Seq(Ids) /\ Told' = Told
    BY <2>1, MovedHead DEF ToldInv, Told
  <2> QED BY <2>1, <2>2 DEF ToldInv
<1>5. ASSUME NEW j \in Ids, SendEvent(j)
      PROVE  ToldInv'
  <2>1. /\ finisher[j] # None /\ finisher' = [finisher EXCEPT ![j] = None]
        /\ state' = state /\ published' = published
        /\ events' = Append(events, j) \/ events' = events
    BY <1>5 DEF SendEvent
  <2>2. \A i \in 1 .. Len(Told) : Told[i] \in Ids /\ Told[i] # j
    BY <2>1, ConcatProperties DEF Told, ToldInv
  <2>3. state[j] \in Ended
    BY <2>1 DEF ToldInv
  <2>4. CASE events' = events
    BY <2>1, <2>2, <2>4 DEF ToldInv, Told
  <2>5. CASE events' = Append(events, j)
    <3>1. events' \in Seq(Ids) /\ Told' = Append(Told, j)
      BY <2>1, <2>5, AppendedLater DEF ToldInv, Told
    <3>2. Told \in Seq(Ids)
      BY ConcatProperties DEF ToldInv, Told
    <3>3. /\ Len(Told') = Len(Told) + 1 /\ Told'[Len(Told) + 1] = j
          /\ \A i \in 1 .. Len(Told) : Told'[i] = Told[i]
      BY <3>1, <3>2, AppendProperties
    <3>4. \A i \in 1 .. Len(Told') :
            state'[Told'[i]] \in Ended /\ finisher'[Told'[i]] = None
      BY <2>1, <2>2, <2>3, <3>2, <3>3 DEF ToldInv
    <3>5. \A i, k \in 1 .. Len(Told') : i # k => Told'[i] # Told'[k]
      <4> SUFFICES ASSUME NEW i \in 1 .. Len(Told'), NEW k \in 1 .. Len(Told'), i # k
                   PROVE  Told'[i] # Told'[k]
        OBVIOUS
      <4>1. \A m \in 1 .. Len(Told') : m \in 1 .. Len(Told) \/ m = Len(Told) + 1
        BY <3>2, <3>3
      <4>2. CASE i \in 1 .. Len(Told) /\ k \in 1 .. Len(Told)
        BY <3>3, <4>2 DEF ToldInv
      <4>3. CASE i = Len(Told) + 1
        BY <2>2, <3>3, <4>1, <4>3
      <4>4. CASE k = Len(Told) + 1
        BY <2>2, <3>3, <4>1, <4>4
      <4> QED BY <4>1, <4>2, <4>3, <4>4
    <3>6. /\ finisher' \in [Ids -> Actors \cup {None}]
          /\ \A m \in Ids : finisher'[m] # None => state'[m] \in Ended
      BY <2>1 DEF ToldInv
    <3> QED BY <2>1, <3>1, <3>4, <3>5, <3>6 DEF ToldInv
  <2> QED BY <2>1, <2>4, <2>5
<1>6. CASE Quiet \/ Age
  BY <1>1, <1>2, <1>6 DEF Quiet, Age, eventVars
<1>7. ASSUME UNCHANGED eventVars, Prune \/ (\E j \in Ids : Store(j)) \/ (\E j : Start(j))
      PROVE  ToldInv'
  BY <1>1, <1>2, <1>7 DEF Prune, Store, Start, eventVars
<1> QED BY <1>0, <1>3, <1>4, <1>5, <1>6, <1>7 DEF StoreStep, Calls

(* At first nothing was announced.                                         *)
LEMMA ToldInit ==
  ASSUME Init
  PROVE  ToldInv
<1>1. Told = <<>>
  BY DEF Init, Told
<1> QED BY <1>1 DEF Init, ToldInv

(* Told without a repetition leaves none in what was published.            *)
LEMMA ToldOnce ==
  ASSUME ToldInv
  PROVE  AnnouncedOnce
<1>1. /\ Len(published) \in Nat /\ Len(events) \in Nat
      /\ Len(Told) = Len(published) + Len(events)
      /\ \A i \in 1 .. Len(published) : Told[i] = published[i]
  BY ConcatProperties DEF Told, ToldInv
<1>2. DOMAIN published = 1 .. Len(published) /\ 1 .. Len(published) \subseteq 1 .. Len(Told)
  BY <1>1 DEF ToldInv
<1> QED BY <1>1, <1>2 DEF ToldInv, AnnouncedOnce

(* For any number of jobs, whoever ends them and however slow the reader   *)
(* of the channel is, the end of a job is announced at most once, and only *)
(* of a job that ended (finish, publishV2JobEvents).                       *)
THEOREM AnnouncementsUnique == Spec => []AnnouncedOnce
<1>1. Init => StoreInv /\ ToldInv
  BY StoreInit, ToldInit
<1>2. StoreInv /\ ToldInv /\ [Next]_vars => (StoreInv /\ ToldInv)'
  BY StoreKept, ToldKept
<1>3. ToldInv => AnnouncedOnce
  BY ToldOnce
<1> QED BY <1>1, <1>2, <1>3, PTL DEF Spec

-----------------------------------------------------------------------------
(* The ordered queue.                                                      *)

QueueQuiet == UNCHANGED <<sent, taken, batch, pending, wake, sender, conn>>

(* Every step that is not a submission or one of the queue leaves it.      *)
LEMMA QueueCases ==
  ASSUME [Next]_vars
  PROVE  \/ QueueQuiet /\ (quit' = quit \/ quit' = TRUE)
         \/ TakeRequest \/ Sender
         \/ \E c \in Conns : Submits(c) \/ \E j \in Ids : Create(c, j)
<1> DEFINE Rest == QueueQuiet /\ (quit' = quit \/ quit' = TRUE)
<1> USE DEF queueVars, connVars, endVars, QueueQuiet
<1>1. CASE UNCHANGED vars
  BY <1>1 DEF vars
<1>2. ASSUME NEW c \in Conns, Asks(c)
      PROVE  Rest \/ \E j \in Ids : Create(c, j)
  BY <1>2 DEF Asks, Refuse, Cancel, Get
<1>3. CASE Updates
  BY <1>3 DEF Updates, DropRequest, BeginSync, BeginCommand, Apply, Complete,
              FinishDone, FinishFailed, PutLoaded, TakeLoaded, TakeResponse
<1>4. CASE Edit \/ Quit
  BY <1>4 DEF Edit, Quit
<1>5. ASSUME NEW j \in Ids, Works(j) \/ Await(j) \/ SendEvent(j)
      PROVE  Rest
  BY <1>5 DEF Works, Load, CheckEdit, ChangeProvider, SwitchDevice, PluginStart,
              PluginCall, Await, SendEvent
<1>6. CASE Closing
  <2>1. CASE StopServer \/ ListActive \/ EndServer
    BY <2>1, Zenon DEF StopServer, ListActive, EndServer
  <2>2. ASSUME NEW j \in Ids, CancelListed(j)
        PROVE  Rest
    BY <2>2, Zenon DEF CancelListed
  <2> QED BY <1>6, <2>1, <2>2 DEF Closing
<1>7. CASE PublishEvent \/ Age
  BY <1>7 DEF PublishEvent, Age
<1> QED BY <1>1, <1>2, <1>3, <1>4, <1>5, <1>6, <1>7 DEF Next

(* The queue starts empty.                                                 *)
LEMMA QueueInit ==
  ASSUME Init
  PROVE  QueueInv
<1>1. <<>> \o <<>> \o <<>> = <<>>
  OBVIOUS
<1>2. [c \in Conns |-> NoConn] \in [Conns -> [does : {"idle", "create", "wake", "acknowledge"},
                                            job : Ids \cup {None}]]
  BY DEF NoConn
<1>3. \A c \in Conns : [d \in Conns |-> NoConn][c].does = "idle"
  BY DEF NoConn
<1>4. /\ pending = <<>> /\ wake = FALSE /\ batch = <<>> /\ sender = "waiting"
      /\ sent = <<>> /\ taken = <<>> /\ quit = FALSE
      /\ conn = [c \in Conns |-> NoConn]
  BY DEF Init
<1>5. QueueLosesNothing
  BY <1>1, <1>4 DEF QueueLosesNothing
<1>6. \A c \in Conns : conn[c].does # "create"
  BY <1>3, <1>4
<1>7. sent \in Seq(Ids) /\ taken \in Seq(Ids) /\ batch \in Seq(Ids) /\ pending \in Seq(Ids)
  BY <1>4
<1> QED BY <1>2, <1>4, <1>5, <1>6, <1>7 DEF QueueInv

(* A connection in the middle of a submission.                             *)
LEMMA SubmitKeeps ==
  ASSUME QueueInv, NEW c \in Conns,
         Submits(c) \/ \E j \in Ids : Create(c, j)
  PROVE  QueueInv'
<1> DEFINE S == [does : {"idle", "create", "wake", "acknowledge"}, job : Ids \cup {None}]
<1> USE DEF queueVars, connVars, endVars
<1>1. conn \in [Conns -> S]
  BY DEF QueueInv
<1>2. CASE Enqueue(c)
  <2> DEFINE j == conn[c].job
  <2>1. /\ conn[c].does = "create" /\ conn' = [conn EXCEPT ![c].does = "wake"]
        /\ pending' = Append(pending, j) /\ sent' = Append(sent, j)
        /\ UNCHANGED <<taken, batch, wake, sender, quit>>
    BY <1>2 DEF Enqueue
  <2>2. j \in Ids
    BY <2>1 DEF QueueInv
  <2>3. conn' \in [Conns -> S] /\ conn'[c].does = "wake"
        /\ \A d \in Conns : conn'[d].does = "create" =>
             conn[d].does = "create" /\ conn'[d].job = conn[d].job
    BY <1>1, <2>1
  <2>4. pending' \in Seq(Ids) /\ sent' \in Seq(Ids)
    BY <2>1, <2>2 DEF QueueInv
  <2>5. sent = taken \o batch \o pending => sent' = taken' \o batch' \o pending'
    <3>1. taken \o batch \in Seq(Ids)
      BY ConcatProperties DEF QueueInv
    <3> HIDE DEF j
    <3>2. (taken \o batch) \o Append(pending, j) = Append((taken \o batch) \o pending, j)
      BY <2>2, <3>1, AppendedLater DEF QueueInv
    <3> QED BY <2>1, <3>2 DEF j
  <2> QED BY <2>1, <2>3, <2>4, <2>5 DEF QueueInv, QueueLosesNothing
<1>3. CASE StartPlugin(c) \/ Wake(c) \/ Acknowledge(c) \/ \E j \in Ids : Create(c, j)
  <2>1. /\ UNCHANGED <<sent, taken, batch, pending, sender, quit>>
        /\ wake' = wake \/ wake' = TRUE
    BY <1>3 DEF StartPlugin, Wake, Acknowledge, Create
  <2>2. /\ conn' \in [Conns -> S]
        /\ \A d \in Conns : conn'[d].does = "create" => conn'[d].job \in Ids
        /\ \A d \in Conns \ {c} : conn'[d] = conn[d]
    <3>1. CASE conn' = [conn EXCEPT ![c].does = "acknowledge"]
      BY <1>1, <3>1 DEF QueueInv
    <3>2. CASE conn' = [conn EXCEPT ![c] = NoConn]
      BY <1>1, <3>2 DEF QueueInv, NoConn
    <3>3. ASSUME NEW j \in Ids, conn' = [conn EXCEPT ![c] = [does |-> "create", job |-> j]]
          PROVE  /\ conn' \in [Conns -> S]
                 /\ \A d \in Conns : conn'[d].does = "create" => conn'[d].job \in Ids
                 /\ \A d \in Conns \ {c} : conn'[d] = conn[d]
      BY <1>1, <3>3 DEF QueueInv
    <3> QED BY <1>3, <3>1, <3>2, <3>3 DEF StartPlugin, Wake, Acknowledge, Create
  <2>3. conn[c].does = "wake" => wake' = TRUE
    BY <1>3 DEF StartPlugin, Wake, Acknowledge, Create, Serves, NoConn
  <2> QED BY <2>1, <2>2, <2>3 DEF QueueInv, QueueLosesNothing
<1> QED BY <1>2, <1>3 DEF Submits

(* Every step keeps the invariant of the queue.                            *)
LEMMA QueueKept ==
  ASSUME QueueInv, [Next]_vars
  PROVE  QueueInv'
<1> USE DEF queueVars, connVars, endVars
<1>1. CASE QueueQuiet /\ (quit' = quit \/ quit' = TRUE)
  BY <1>1 DEF QueueQuiet, QueueInv, QueueLosesNothing
<1>2. CASE TakeRequest
  <2>1. /\ sender = "sending" /\ batch # <<>>
        /\ batch' = Tail(batch) /\ taken' = Append(taken, Head(batch))
        /\ UNCHANGED <<sent, pending, wake, sender, conn, quit>>
    BY <1>2 DEF TakeRequest
  <2>2. batch' \in Seq(Ids) /\ taken' \in Seq(Ids) /\ taken' \o batch' = taken \o batch
    BY <2>1, MovedHead DEF QueueInv
  <2> QED BY <2>1, <2>2 DEF QueueInv, QueueLosesNothing
<1>3. CASE Awake
  BY <1>3 DEF Awake, QueueInv, QueueLosesNothing
<1>4. CASE Grab
  <2>1. /\ batch = <<>> /\ batch' = pending /\ pending' = <<>> /\ sender' = "sending"
        /\ UNCHANGED <<sent, taken, wake, conn, quit>>
    BY <1>4 DEF Grab, Left, QueueInv
  <2>2. /\ taken \o <<>> = taken /\ taken \o pending \in Seq(Ids)
    BY ConcatEmptySeq, ConcatProperties DEF QueueInv
  <2>3. (taken \o pending) \o <<>> = taken \o pending
    BY <2>2, ConcatEmptySeq
  <2> QED BY <2>1, <2>2, <2>3 DEF QueueInv, QueueLosesNothing
<1>5. CASE Discard
  <2>1. batch # <<>> /\ batch' = Tail(batch) /\ quit
        /\ UNCHANGED <<sent, taken, pending, wake, sender, conn, quit>> /\ sender = "sending"
    BY <1>5 DEF Discard
  <2>2. batch' \in Seq(Ids)
    BY <2>1 DEF QueueInv
  <2> QED BY <2>1, <2>2 DEF QueueInv, QueueLosesNothing
<1>6. CASE EndBatch
  BY <1>6 DEF EndBatch, QueueInv, QueueLosesNothing
<1> QED BY <1>1, <1>2, <1>3, <1>4, <1>5, <1>6, QueueCases, SubmitKeeps DEF Sender

(* For any number of jobs and connections: while the program runs, the     *)
(* queue hands every message on once and in order, and a message that      *)
(* waits has somebody to wake the goroutine (newOrderedSender).            *)
THEOREM QueueSound == Spec => []QueueLosesNothing
<1>1. Init => QueueInv
  BY QueueInit
<1>2. QueueInv /\ [Next]_vars => QueueInv'
  BY QueueKept
<1>3. QueueInv => QueueLosesNothing
  BY DEF QueueInv
<1> QED BY <1>1, <1>2, <1>3, PTL DEF Spec

(* For any number of jobs and any capacity, neither the store nor the      *)
(* queue loses a job that a client waits for.                              *)
THEOREM SubmissionsSound == Spec => []SubmissionsKept
<1>1. ActiveNeverDropped /\ QueueLosesNothing => SubmissionsKept
  BY DEF SubmissionsKept
<1> QED BY <1>1, ActiveJobsKept, QueueSound, PTL

-----------------------------------------------------------------------------
(* Where a job is on its way.                                              *)

At(j) == ui.does # "idle" /\ ui.job = j                 \* in the update loop
AtWork(j) == worker[j] \in {"start", "run", "change", "call"}
Mailed(j) == \E m \in inbox : m.job = j                 \* on its way to the update loop
Loaded(j) == \E m \in inbox : m.job = j /\ m.what = "loaded"
Answered(j) == waiter[j] = "wait" /\ reply[j] # "none"
Over(j) == state[j] \in {"succeeded", "failed"}

(* Nothing was done for the job, except that its goroutine may be due.     *)
Untouched(j) ==
  /\ worker[j] \in {"none", "start"} /\ reply[j] = "none" /\ waiter[j] = "none"
  /\ commits[j] = 0 /\ ~At(j) /\ ~Mailed(j)

(* The effect is still to come.                                            *)
Ahead(j) == AtWork(j) \/ Loaded(j) \/ (At(j) /\ ui.does \in {"begin", "apply", "put"})

WorkTypes ==
  /\ worker \in [Ids -> {"none", "start", "run", "change", "call", "gone"}]
  /\ reply \in [Ids -> {"none", "ok", "error"}]
  /\ waiter \in [Ids -> {"none", "wait", "gone"}]
  /\ inbox \subseteq [what : {"loaded", "response"}, job : Ids, ok : BOOLEAN]
  /\ ui \in [does : {"idle", "begin", "apply", "complete", "finish", "fail", "put"},
             job : Ids \cup {None}]
  /\ ui.does # "idle" => ui.job \in Ids
  /\ kind \in [Ids -> Immediate \cup {"load", "edit", "device", "plugin", None}]
  /\ rev \in Nat /\ commits \in [Ids -> Nat] /\ commitRev \in [Ids -> Nat]
  /\ snapshot \in [Ids -> Nat]

(* Which jobs go which way.                                                *)
KindInv ==
  /\ \A j \in Ids :
       /\ worker[j] \in {"start", "call"} => kind[j] = "plugin"
       /\ worker[j] = "run" => kind[j] \notin Immediate \cup {"plugin"}
       /\ worker[j] = "change" => kind[j] = "edit"
       /\ waiter[j] = "wait" => kind[j] \notin Immediate \cup {"plugin"}
       /\ Mailed(j) => kind[j] \notin Immediate \cup {"plugin"}
       /\ At(j) => kind[j] # "plugin"

(* Only jobs for the update loop are queued. *)
QueueKinds ==
  /\ \A i \in 1 .. Len(pending) : kind[pending[i]] # "plugin" /\ state[pending[i]] # "new"
  /\ \A i \in 1 .. Len(batch) : kind[batch[i]] # "plugin" /\ state[batch[i]] # "new"

(* A job is in one place at a time, and in none once it is over; until its *)
(* effect comes it has had none, and no answer, and is not over.           *)
PlaceInv ==
  \A j \in Ids :
       /\ state[j] \in {"new", "queued"} => Untouched(j)
       /\ state[j] = "new" => worker[j] = "none"
       /\ Ahead(j) => reply[j] = "none" /\ commits[j] = 0
       /\ At(j) => ~AtWork(j) /\ ~Mailed(j) /\ ~Answered(j)
       /\ Mailed(j) => ~AtWork(j) /\ ~Answered(j)
       /\ Over(j) => ~At(j) /\ ~AtWork(j) /\ ~Mailed(j) /\ ~Answered(j)

OneMessage == \A m, n \in inbox : m.job = n.job => m = n

(* A connection that has a new job in hand is the only one, and what it is *)
(* to start in a goroutine is nowhere else.                                *)
Fresh(j) == kind[j] = "plugin" => Untouched(j) /\ worker[j] = "none" /\ ~Over(j)
SubmitInv ==
  \A c \in Conns : conn[c].does = "create" =>
    /\ state[conn[c].job] # "new" /\ Fresh(conn[c].job)
    /\ \A d \in Conns : conn[d] = conn[c] => d = c

(* What is told of the effect is so.                                       *)
TruthInv ==
  /\ \A j \in Ids :
       /\ reply[j] = "ok" => ToldTruly(j, TRUE)
       /\ reply[j] = "error" => ToldTruly(j, FALSE)
       /\ At(j) /\ ui.does \in {"complete", "finish"} => ToldTruly(j, TRUE)
       /\ At(j) /\ ui.does = "fail" => ToldTruly(j, FALSE)
  /\ \A m \in inbox : m.what = "response" => ToldTruly(m.job, m.ok)
  /\ OutcomeTold

(* While the update loop has a synchronous job in hand it does nothing     *)
(* else, so the version is the one its effect made.                        *)
VersionInv ==
  /\ \A j \in Ids :
       /\ commitRev[j] <= rev
       /\ At(j) /\ ui.does \in {"complete", "finish"} /\ kind[j] \in Immediate => commitRev[j] = rev
  /\ SnapshotCoversEffect

CanceledStopped == \A j \in Ids : state[j] = "canceled" => j \in stopped

EffectInv ==
  /\ WorkTypes /\ KindInv /\ QueueKinds /\ PlaceInv /\ OneMessage /\ SubmitInv
  /\ TruthInv /\ VersionInv /\ CanceledStopped

-----------------------------------------------------------------------------
(* What a step does to the jobs.                                           *)

(* Start changes a job that is stored and queued, or nothing.              *)
LEMMA StartFacts ==
  ASSUME StoreInv, NEW j \in Ids, Start(j)
  PROVE  /\ UNCHANGED <<kind, stopped>>
         /\ \/ /\ state[j] = "queued" /\ Starts(j)
               /\ state' = [state EXCEPT ![j] = "running"]
            \/ state[j] # "queued" /\ ~Starts(j) /\ state' = state
BY KeptFacts DEF StoreInv, Start, Starts, Active

(* finish ends a job, or changes nothing.                                  *)
LEMMA FinishFacts ==
  ASSUME StoreInv, NEW a, NEW j, NEW o \in Ended, Finish(a, j, o)
  PROVE  /\ kind' = kind
         /\ \/ UNCHANGED <<state, stopped>>
            \/ /\ j \in Ids /\ state[j] \in Active
               /\ o # "canceled" => state[j] = "running"
               /\ state' = [state EXCEPT ![j] = o] /\ stopped' = stopped \cup {j}
BY KeptFacts DEF StoreInv, Finish, Finishable, Active

(* The update loop takes a request, and has the job in hand if it starts.  *)
LEMMA TakeFacts ==
  ASSUME StoreInv, QueueInv, QueueKinds, TakeRequest
  PROVE  /\ ui.does = "idle"
         /\ UNCHANGED <<kind, stopped, rev, workVars, effectVars>>
         /\ \/ ui' = NoUI /\ state' = state
            \/ \E j \in Ids : /\ kind[j] # "plugin" /\ state[j] = "queued"
                             /\ state' = [state EXCEPT ![j] = "running"]
                             /\ ui' = Does("begin", j)
<1> DEFINE j == Head(batch)
<1>1. j \in Ids /\ kind[j] # "plugin"
  BY DEF TakeRequest, QueueInv, QueueKinds
<1>2. /\ ui = NoUI /\ Start(j) /\ ui' = IF Starts(j) THEN Does("begin", j) ELSE NoUI
      /\ UNCHANGED <<rev, workVars, effectVars>>
  BY DEF TakeRequest, Reads
<1> HIDE DEF j
<1> QED BY <1>1, <1>2, StartFacts DEF NoUI

(* A waiter ends with the reply or with the context.                       *)
LEMMA AwaitFacts ==
  ASSUME NEW j \in Ids, Await(j)
  PROVE  /\ waiter[j] = "wait" /\ waiter' = [waiter EXCEPT ![j] = "gone"]
         /\ UNCHANGED <<state, kind, stopped, ui, rev, worker, reply, effectVars>>
         /\ \/ inbox' = inbox
            \/ \E ok \in BOOLEAN :
                 /\ reply[j] # "none" /\ (ok <=> reply[j] = "ok")
                 /\ inbox' = inbox \cup {[what |-> "response", job |-> j, ok |-> ok]}
BY Zenon DEF Await, Send, storeVars, uiVars

JobVars == <<state, kind, stopped, ui, rev, workVars, effectVars>>
Cancels(a, j) == Finish(a, j, "canceled") /\ UNCHANGED <<ui, rev, workVars, effectVars>>
JobStep ==
  \/ UNCHANGED JobVars
  \/ \E a : \E j \in Ids : Cancels(a, j)
  \/ \E c \in Conns : StartPlugin(c) \/ \E j \in Ids : Create(c, j)
  \/ Updates \/ Edit
  \/ \E j \in Ids : Works(j) \/ Await(j)

(* The other steps leave the jobs alone.                                   *)
LEMMA JobCases ==
  ASSUME [Next]_vars
  PROVE  JobStep
<1> USE DEF JobStep, JobVars, storeVars, eventVars, queueVars, uiVars, workVars,
            connVars, endVars, effectVars
<1>1. CASE UNCHANGED vars
  BY <1>1 DEF vars
<1>2. ASSUME NEW c \in Conns, Enqueue(c) \/ Wake(c) \/ Acknowledge(c)
      PROVE  UNCHANGED JobVars
  BY <1>2 DEF Enqueue, Wake, Acknowledge
<1>3. ASSUME NEW c \in Conns, Refuse(c) \/ \E j \in Ids : Get(c, j)
      PROVE  UNCHANGED JobVars
  BY <1>3 DEF Refuse, Get, Prune
<1>4. ASSUME NEW c \in Conns, NEW j \in Ids, Cancel(c, j)
      PROVE  Cancels(c, j)
  BY <1>4, Zenon DEF Cancel, Cancels
<1>5. ASSUME NEW j \in Ids, CancelListed(j)
      PROVE  Cancels(Closer, j)
  BY <1>5, Zenon DEF CancelListed, Cancels
<1>6. CASE Sender \/ PublishEvent \/ Age \/ Quit
  BY <1>6 DEF Sender, Awake, Grab, Discard, EndBatch, PublishEvent, Age, Quit
<1>7. ASSUME NEW j \in Ids, SendEvent(j)
      PROVE  UNCHANGED JobVars
  BY <1>7 DEF SendEvent
<1>8. CASE StopServer \/ ListActive \/ EndServer
  BY <1>8 DEF StopServer, ListActive, EndServer
<1> HIDE DEF JobVars
<1>9. ASSUME NEW c \in Conns, Submits(c) \/ Asks(c)
      PROVE  JobStep
  BY <1>2, <1>3, <1>4, <1>9 DEF Submits, Asks
<1>10. CASE Closing
  BY <1>5, <1>8, <1>10 DEF Closing
<1> QED BY <1>1, <1>6, <1>7, <1>9, <1>10 DEF Next

(* Typing.  A stored job has one of the kinds that clients submit.         *)
LEMMA WorkTypesKept ==
  ASSUME EffectInv, StoreInv, QueueInv, [Next]_vars
  PROVE  WorkTypes'
<1>0. /\ StoreInv /\ QueueInv /\ Kept \subseteq Ids
      /\ state \in [Ids -> JobStates]
  BY KeptFacts DEF StoreInv
<1> USE <1>0 DEF EffectInv, WorkTypes, JobStates, Active, Ended, storeVars,
            eventVars, queueVars, uiVars, workVars, connVars, endVars,
            effectVars
<1>1. CASE UNCHANGED JobVars
  BY <1>1 DEF JobVars
<1>2. ASSUME NEW a, NEW j \in Ids, Cancels(a, j)
      PROVE  WorkTypes'
  BY <1>2, FinishFacts DEF Cancels, Active
<1>3. ASSUME NEW c \in Conns, NEW j \in Ids, Create(c, j)
      PROVE  WorkTypes'
  <2>1. /\ UNCHANGED <<workVars, ui, rev, effectVars>>
        /\ \E k \in Kinds[j] : kind' = [kind EXCEPT ![j] = k]
    BY <1>3 DEF Create, Store
  <2>2. PICK k \in Kinds[j] : kind' = [kind EXCEPT ![j] = k]
    BY <2>1
  <2>3. k \in Immediate \cup {"load", "edit", "device", "plugin"}
    BY KindsAssumption DEF Immediate
  <2> QED BY <2>1, <2>2, <2>3
<1>4. ASSUME NEW c \in Conns, StartPlugin(c)
      PROVE  WorkTypes'
  BY <1>4 DEF StartPlugin
<1>5. CASE TakeRequest
  BY <1>5, TakeFacts DEF NoUI, Does
<1>6. CASE DropRequest \/ BeginSync \/ BeginCommand
  BY <1>6 DEF DropRequest, Dropped, CtxErr, ServerStopped, NoUI, BeginSync,
      Does, BeginCommand
<1>7. CASE Apply \/ Complete \/ Edit \/ PutLoaded
  BY <1>7 DEF Apply, Does, Complete, Prune, CtxErr, ServerStopped, NoUI, Edit,
      Reads, PutLoaded, Reply
<1>8. CASE FinishDone
  BY <1>8 DEF FinishDone, Finish, Finishable, Active, Snapshot, NoUI
<1>9. CASE FinishFailed
  BY <1>9, FinishFacts DEF FinishFailed, Active, NoUI
<1>10. ASSUME NEW j \in Ids, TakeLoaded(j)
       PROVE  WorkTypes'
  BY <1>10 DEF TakeLoaded, Reads, NoUI, CtxErr, ServerStopped, Does, Reply
<1>11. ASSUME NEW j \in Ids, TakeResponse(j)
       PROVE  WorkTypes'
  BY <1>11 DEF TakeResponse, Reads, NoUI, Does
<1>12. ASSUME NEW j \in Ids, Load(j) \/ CheckEdit(j) \/ SwitchDevice(j)
       PROVE  WorkTypes'
  BY <1>12 DEF Load, Send, CheckEdit, CtxErr, ServerStopped, SwitchDevice, TakesEffect
<1>13. ASSUME NEW j \in Ids, ChangeProvider(j)
       PROVE  WorkTypes'
  BY <1>13 DEF ChangeProvider, TakesEffect, Reply, Answer
<1>14. ASSUME NEW j \in Ids, PluginStart(j)
       PROVE  WorkTypes'
  BY <1>14, StartFacts DEF PluginStart, CtxErr, ServerStopped
<1>15. ASSUME NEW j \in Ids, PluginCall(j)
       PROVE  WorkTypes'
  BY <1>15, FinishFacts DEF PluginCall, TakesEffect, Active
<1>16. ASSUME NEW j \in Ids, Await(j)
       PROVE  WorkTypes'
  BY <1>16, AwaitFacts
<1> QED BY <1>1, <1>2, <1>3, <1>4, <1>5, <1>6, <1>7, <1>8, <1>9, <1>10, <1>11,
           <1>12, <1>13, <1>14, <1>15, <1>16, JobCases DEF JobStep, Updates,
           Works

(* A kind is given once, and tells the way.                                *)
LEMMA KindKept ==
  ASSUME EffectInv, StoreInv, QueueInv, [Next]_vars
  PROVE  KindInv'
<1>0. /\ StoreInv /\ QueueInv /\ Kept \subseteq Ids
      /\ state \in [Ids -> JobStates]
  BY KeptFacts DEF StoreInv
<1> USE <1>0 DEF EffectInv, KindInv, PlaceInv, QueueKinds, WorkTypes, JobStates,
            Active, Ended, Untouched, At, AtWork, Mailed, Answered, Over,
            Loaded, Ahead, storeVars, eventVars, queueVars, uiVars, workVars,
            connVars, endVars, effectVars
<1>1. CASE UNCHANGED JobVars
  BY <1>1 DEF JobVars
<1>2. ASSUME NEW a, NEW j \in Ids, Cancels(a, j)
      PROVE  KindInv'
  BY <1>2, FinishFacts DEF Cancels, Active
<1>3. ASSUME NEW c \in Conns, NEW j \in Ids, Create(c, j)
      PROVE  KindInv'
  BY <1>3 DEF Create, NoConn, Store
<1>4. ASSUME NEW c \in Conns, StartPlugin(c)
      PROVE  KindInv'
  BY <1>4 DEF StartPlugin
<1>5. CASE TakeRequest
  BY <1>5, TakeFacts DEF NoUI, Does
<1>6. CASE DropRequest \/ BeginSync \/ BeginCommand
  BY <1>6 DEF DropRequest, Dropped, CtxErr, ServerStopped, NoUI, BeginSync,
      Does, BeginCommand
<1>7. CASE Apply \/ Complete \/ Edit \/ PutLoaded
  BY <1>7 DEF Apply, Does, Complete, Prune, CtxErr, ServerStopped, NoUI, Edit,
      Reads, PutLoaded, Reply
<1>8. CASE FinishDone
  BY <1>8 DEF FinishDone, Finish, Finishable, Active, Snapshot, NoUI
<1>9. CASE FinishFailed
  BY <1>9, FinishFacts DEF FinishFailed, Active, NoUI
<1>10. ASSUME NEW j \in Ids, TakeLoaded(j)
       PROVE  KindInv'
  BY <1>10 DEF TakeLoaded, Reads, NoUI, CtxErr, ServerStopped, Does, Reply
<1>11. ASSUME NEW j \in Ids, TakeResponse(j)
       PROVE  KindInv'
  BY <1>11 DEF TakeResponse, Reads, NoUI, Does
<1>12. ASSUME NEW j \in Ids, Load(j) \/ CheckEdit(j) \/ SwitchDevice(j)
       PROVE  KindInv'
  BY <1>12 DEF Load, Send, CheckEdit, CtxErr, ServerStopped, SwitchDevice, TakesEffect
<1>13. ASSUME NEW j \in Ids, ChangeProvider(j)
       PROVE  KindInv'
  BY <1>13 DEF ChangeProvider, TakesEffect, Reply, Answer
<1>14. ASSUME NEW j \in Ids, PluginStart(j)
       PROVE  KindInv'
  BY <1>14, StartFacts DEF PluginStart, CtxErr, ServerStopped
<1>15. ASSUME NEW j \in Ids, PluginCall(j)
       PROVE  KindInv'
  BY <1>15, FinishFacts DEF PluginCall, TakesEffect, Active
<1>16. ASSUME NEW j \in Ids, Await(j)
       PROVE  KindInv'
  BY <1>16, AwaitFacts
<1> QED BY <1>1, <1>2, <1>3, <1>4, <1>5, <1>6, <1>7, <1>8, <1>9, <1>10, <1>11,
           <1>12, <1>13, <1>14, <1>15, <1>16, JobCases DEF JobStep, Updates,
           Works

(* A job has one message on the way at most.                               *)
LEMMA OneMessageKept ==
  ASSUME EffectInv, StoreInv, QueueInv, [Next]_vars
  PROVE  OneMessage'
<1>0. /\ StoreInv /\ QueueInv /\ Kept \subseteq Ids
      /\ state \in [Ids -> JobStates]
  BY KeptFacts DEF StoreInv
<1> USE <1>0 DEF EffectInv, OneMessage, PlaceInv, WorkTypes, JobStates, Active,
            Ended, Untouched, At, AtWork, Mailed, Answered, Over, Loaded, Ahead,
            storeVars, eventVars, queueVars, uiVars, workVars, connVars,
            endVars, effectVars
<1>1. CASE UNCHANGED JobVars
  BY <1>1 DEF JobVars
<1>2. ASSUME NEW a, NEW j \in Ids, Cancels(a, j)
      PROVE  OneMessage'
  BY <1>2, FinishFacts DEF Cancels, Active
<1>3. ASSUME NEW c \in Conns, NEW j \in Ids, Create(c, j)
      PROVE  OneMessage'
  BY <1>3 DEF Create, NoConn, Store
<1>4. ASSUME NEW c \in Conns, StartPlugin(c)
      PROVE  OneMessage'
  BY <1>4 DEF StartPlugin
<1>5. CASE TakeRequest
  BY <1>5, TakeFacts DEF NoUI, Does
<1>6. CASE DropRequest \/ BeginSync \/ BeginCommand
  BY <1>6 DEF DropRequest, Dropped, CtxErr, ServerStopped, NoUI, BeginSync,
      Does, BeginCommand
<1>7. CASE Apply \/ Complete \/ Edit \/ PutLoaded
  BY <1>7 DEF Apply, Does, Complete, Prune, CtxErr, ServerStopped, NoUI, Edit,
      Reads, PutLoaded, Reply
<1>8. CASE FinishDone
  BY <1>8 DEF FinishDone, Finish, Finishable, Active, Snapshot, NoUI
<1>9. CASE FinishFailed
  BY <1>9, FinishFacts DEF FinishFailed, Active, NoUI
<1>10. ASSUME NEW j \in Ids, TakeLoaded(j)
       PROVE  OneMessage'
  BY <1>10 DEF TakeLoaded, Reads, NoUI, CtxErr, ServerStopped, Does, Reply
<1>11. ASSUME NEW j \in Ids, TakeResponse(j)
       PROVE  OneMessage'
  BY <1>11 DEF TakeResponse, Reads, NoUI, Does
<1>12. ASSUME NEW j \in Ids, Load(j) \/ CheckEdit(j) \/ SwitchDevice(j)
       PROVE  OneMessage'
  BY <1>12 DEF Load, Send, CheckEdit, CtxErr, ServerStopped, SwitchDevice, TakesEffect
<1>13. ASSUME NEW j \in Ids, ChangeProvider(j)
       PROVE  OneMessage'
  BY <1>13 DEF ChangeProvider, TakesEffect, Reply, Answer
<1>14. ASSUME NEW j \in Ids, PluginStart(j)
       PROVE  OneMessage'
  BY <1>14, StartFacts DEF PluginStart, CtxErr, ServerStopped
<1>15. ASSUME NEW j \in Ids, PluginCall(j)
       PROVE  OneMessage'
  BY <1>15, FinishFacts DEF PluginCall, TakesEffect, Active
<1>16. ASSUME NEW j \in Ids, Await(j)
       PROVE  OneMessage'
  BY <1>16, AwaitFacts
<1> QED BY <1>1, <1>2, <1>3, <1>4, <1>5, <1>6, <1>7, <1>8, <1>9, <1>10, <1>11,
           <1>12, <1>13, <1>14, <1>15, <1>16, JobCases DEF JobStep, Updates,
           Works

(* A job is in one place.                                                  *)
LEMMA PlaceKept ==
  ASSUME EffectInv, StoreInv, QueueInv, [Next]_vars
  PROVE  PlaceInv'
<1>0. /\ StoreInv /\ QueueInv /\ Kept \subseteq Ids
      /\ state \in [Ids -> JobStates]
  BY KeptFacts DEF StoreInv
<1> USE <1>0 DEF EffectInv, KindInv, OneMessage, PlaceInv, SubmitInv, WorkTypes,
            JobStates, Active, Ended, Untouched, At, AtWork, Mailed, Answered,
            Over, Loaded, Ahead, Fresh, storeVars, eventVars, queueVars, uiVars,
            workVars, connVars, endVars, effectVars
<1>1. CASE UNCHANGED JobVars
  BY <1>1 DEF JobVars
<1>2. ASSUME NEW a, NEW j \in Ids, Cancels(a, j)
      PROVE  PlaceInv'
  BY <1>2, FinishFacts DEF Cancels, Active
<1>3. ASSUME NEW c \in Conns, NEW j \in Ids, Create(c, j)
      PROVE  PlaceInv'
  BY <1>3 DEF Create, NoConn, Store
<1>4. ASSUME NEW c \in Conns, StartPlugin(c)
      PROVE  PlaceInv'
  BY <1>4 DEF StartPlugin
<1>5. CASE TakeRequest
  BY <1>5, TakeFacts DEF NoUI, Does
<1>6. CASE DropRequest \/ BeginSync \/ BeginCommand
  BY <1>6 DEF DropRequest, Dropped, CtxErr, ServerStopped, NoUI, BeginSync,
      Does, BeginCommand
<1>7. CASE Apply \/ Complete \/ Edit \/ PutLoaded
  BY <1>7 DEF Apply, Does, Complete, Prune, CtxErr, ServerStopped, NoUI, Edit,
      Reads, PutLoaded, Reply
<1>8. CASE FinishDone
  BY <1>8 DEF FinishDone, Finish, Finishable, Active, Snapshot, NoUI
<1>9. CASE FinishFailed
  BY <1>9, FinishFacts DEF FinishFailed, Active, NoUI
<1>10. ASSUME NEW j \in Ids, TakeLoaded(j)
       PROVE  PlaceInv'
  BY <1>10 DEF TakeLoaded, Reads, NoUI, CtxErr, ServerStopped, Does, Reply
<1>11. ASSUME NEW j \in Ids, TakeResponse(j)
       PROVE  PlaceInv'
  BY <1>11 DEF TakeResponse, Reads, NoUI, Does
<1>12. ASSUME NEW j \in Ids, Load(j) \/ CheckEdit(j) \/ SwitchDevice(j)
       PROVE  PlaceInv'
  BY <1>12 DEF Load, Send, CheckEdit, CtxErr, ServerStopped, SwitchDevice, TakesEffect
<1>13. ASSUME NEW j \in Ids, ChangeProvider(j)
       PROVE  PlaceInv'
  BY <1>13 DEF ChangeProvider, TakesEffect, Reply, Answer
<1>14. ASSUME NEW j \in Ids, PluginStart(j)
       PROVE  PlaceInv'
  BY <1>14, StartFacts DEF PluginStart, CtxErr, ServerStopped
<1>15. ASSUME NEW j \in Ids, PluginCall(j)
       PROVE  PlaceInv'
  BY <1>15, FinishFacts DEF PluginCall, TakesEffect, Active
<1>16. ASSUME NEW j \in Ids, Await(j)
       PROVE  PlaceInv'
  BY <1>16, AwaitFacts
<1> QED BY <1>1, <1>2, <1>3, <1>4, <1>5, <1>6, <1>7, <1>8, <1>9, <1>10, <1>11,
           <1>12, <1>13, <1>14, <1>15, <1>16, JobCases DEF JobStep, Updates,
           Works

(* What is told of the effect stays so.                                    *)
LEMMA TruthKept ==
  ASSUME EffectInv, StoreInv, QueueInv, [Next]_vars
  PROVE  TruthInv'
<1>0. /\ StoreInv /\ QueueInv /\ Kept \subseteq Ids
      /\ state \in [Ids -> JobStates]
  BY KeptFacts DEF StoreInv
<1> USE <1>0 DEF EffectInv, KindInv, PlaceInv, TruthInv, WorkTypes, JobStates, Active,
            Ended, Untouched, At, AtWork, Mailed, Answered, Over, Loaded, Ahead,
            OutcomeTold, ToldTruly, storeVars, eventVars, queueVars, uiVars, workVars,
            connVars, endVars, effectVars
<1>1. CASE UNCHANGED JobVars
  BY <1>1 DEF JobVars
<1>2. ASSUME NEW a, NEW j \in Ids, Cancels(a, j)
      PROVE  TruthInv'
  BY <1>2, FinishFacts DEF Cancels, Active
<1>3. ASSUME NEW c \in Conns, NEW j \in Ids, Create(c, j)
      PROVE  TruthInv'
  BY <1>3 DEF Create, NoConn, Store
<1>4. ASSUME NEW c \in Conns, StartPlugin(c)
      PROVE  TruthInv'
  BY <1>4 DEF StartPlugin
<1>5. CASE TakeRequest
  BY <1>5, TakeFacts DEF NoUI, Does
<1>6. CASE DropRequest \/ BeginSync \/ BeginCommand
  BY <1>6 DEF DropRequest, Dropped, CtxErr, ServerStopped, NoUI, BeginSync,
      Does, BeginCommand
<1>7. CASE Apply \/ Complete \/ Edit \/ PutLoaded
  BY <1>7 DEF Apply, Does, Complete, Prune, CtxErr, ServerStopped, NoUI, Edit,
      Reads, PutLoaded, Reply
<1>8. CASE FinishDone
  BY <1>8 DEF FinishDone, Finish, Finishable, Active, Snapshot, NoUI
<1>9. CASE FinishFailed
  BY <1>9, FinishFacts DEF FinishFailed, Active, NoUI
<1>10. ASSUME NEW j \in Ids, TakeLoaded(j)
       PROVE  TruthInv'
  BY <1>10 DEF TakeLoaded, Reads, NoUI, CtxErr, ServerStopped, Does, Reply
<1>11. ASSUME NEW j \in Ids, TakeResponse(j)
       PROVE  TruthInv'
  BY <1>11 DEF TakeResponse, Reads, NoUI, Does
<1>12. ASSUME NEW j \in Ids, Load(j) \/ CheckEdit(j) \/ SwitchDevice(j)
       PROVE  TruthInv'
  BY <1>12 DEF Load, Send, CheckEdit, CtxErr, ServerStopped, SwitchDevice, TakesEffect
<1>13. ASSUME NEW j \in Ids, ChangeProvider(j)
       PROVE  TruthInv'
  BY <1>13 DEF ChangeProvider, TakesEffect, Reply, Answer
<1>14. ASSUME NEW j \in Ids, PluginStart(j)
       PROVE  TruthInv'
  BY <1>14, StartFacts DEF PluginStart, CtxErr, ServerStopped
<1>15. ASSUME NEW j \in Ids, PluginCall(j)
       PROVE  TruthInv'
  BY <1>15, FinishFacts DEF PluginCall, TakesEffect, Active
<1>16. ASSUME NEW j \in Ids, Await(j)
       PROVE  TruthInv'
  BY <1>16, AwaitFacts
<1> QED BY <1>1, <1>2, <1>3, <1>4, <1>5, <1>6, <1>7, <1>8, <1>9, <1>10, <1>11,
           <1>12, <1>13, <1>14, <1>15, <1>16, JobCases DEF JobStep, Updates,
           Works

(* The snapshots.                                                          *)
LEMMA VersionKept ==
  ASSUME EffectInv, StoreInv, QueueInv, [Next]_vars
  PROVE  VersionInv'
<1>0. /\ StoreInv /\ QueueInv /\ Kept \subseteq Ids
      /\ state \in [Ids -> JobStates]
  BY KeptFacts DEF StoreInv
<1> USE <1>0 DEF EffectInv, KindInv, PlaceInv, VersionInv, WorkTypes, JobStates,
            Active, Ended, Untouched, At, AtWork, Mailed, Answered, Over,
            Loaded, Ahead, SnapshotCoversEffect, storeVars, eventVars,
            queueVars, uiVars, workVars, connVars, endVars, effectVars
<1>1. CASE UNCHANGED JobVars
  BY <1>1 DEF JobVars
<1>2. ASSUME NEW a, NEW j \in Ids, Cancels(a, j)
      PROVE  VersionInv'
  BY <1>2, FinishFacts DEF Cancels, Active
<1>3. ASSUME NEW c \in Conns, NEW j \in Ids, Create(c, j)
      PROVE  VersionInv'
  BY <1>3 DEF Create, NoConn, Store
<1>4. ASSUME NEW c \in Conns, StartPlugin(c)
      PROVE  VersionInv'
  BY <1>4 DEF StartPlugin
<1>5. CASE TakeRequest
  BY <1>5, TakeFacts DEF NoUI, Does
<1>6. CASE DropRequest \/ BeginSync \/ BeginCommand
  BY <1>6 DEF DropRequest, Dropped, CtxErr, ServerStopped, NoUI, BeginSync,
      Does, BeginCommand
<1>7. CASE Apply \/ Complete \/ Edit \/ PutLoaded
  BY <1>7 DEF Apply, Does, Complete, Prune, CtxErr, ServerStopped, NoUI, Edit,
      Reads, PutLoaded, Reply
<1>8. CASE FinishDone
  BY <1>8 DEF FinishDone, Finish, Finishable, Active, Snapshot, NoUI
<1>9. CASE FinishFailed
  BY <1>9, FinishFacts DEF FinishFailed, Active, NoUI
<1>10. ASSUME NEW j \in Ids, TakeLoaded(j)
       PROVE  VersionInv'
  BY <1>10 DEF TakeLoaded, Reads, NoUI, CtxErr, ServerStopped, Does, Reply
<1>11. ASSUME NEW j \in Ids, TakeResponse(j)
       PROVE  VersionInv'
  BY <1>11 DEF TakeResponse, Reads, NoUI, Does
<1>12. ASSUME NEW j \in Ids, Load(j) \/ CheckEdit(j) \/ SwitchDevice(j)
       PROVE  VersionInv'
  BY <1>12 DEF Load, Send, CheckEdit, CtxErr, ServerStopped, SwitchDevice, TakesEffect
<1>13. ASSUME NEW j \in Ids, ChangeProvider(j)
       PROVE  VersionInv'
  BY <1>13 DEF ChangeProvider, TakesEffect, Reply, Answer
<1>14. ASSUME NEW j \in Ids, PluginStart(j)
       PROVE  VersionInv'
  BY <1>14, StartFacts DEF PluginStart, CtxErr, ServerStopped
<1>15. ASSUME NEW j \in Ids, PluginCall(j)
       PROVE  VersionInv'
  BY <1>15, FinishFacts DEF PluginCall, TakesEffect, Active
<1>16. ASSUME NEW j \in Ids, Await(j)
       PROVE  VersionInv'
  BY <1>16, AwaitFacts
<1> QED BY <1>1, <1>2, <1>3, <1>4, <1>5, <1>6, <1>7, <1>8, <1>9, <1>10, <1>11,
           <1>12, <1>13, <1>14, <1>15, <1>16, JobCases DEF JobStep, Updates,
           Works

(* A canceled job had its context canceled with it (finish).               *)
LEMMA CanceledStoppedKept ==
  ASSUME EffectInv, StoreInv, QueueInv, [Next]_vars
  PROVE  CanceledStopped'
<1> USE DEF EffectInv, CanceledStopped, StoreInv, Active, Ended
<1>1. CASE UNCHANGED <<state, stopped>>
  BY <1>1
<1>2. ASSUME NEW k \in Ids, state[k] = "new", Store(k)
      PROVE  CanceledStopped'
  BY <1>2 DEF Store
<1>3. ASSUME NEW k, Start(k)
      PROVE  CanceledStopped'
  BY <1>3 DEF Start
<1>4. ASSUME NEW a, NEW k, NEW outcome \in Ended, Finish(a, k, outcome)
      PROVE  CanceledStopped'
  BY <1>4, FinishFacts DEF Finish
<1> QED BY <1>1, <1>2, <1>3, <1>4, StepCases
           DEF StoreStep, Quiet, Calls, Prune, Age, PublishEvent, storeVars, SendEvent

(* What a connection is to start stays fresh until it does.                *)
LEMMA FreshKept ==
  ASSUME EffectInv, StoreInv, QueueInv, [Next]_vars, NEW k \in Ids, state[k] # "new", Fresh(k),
         \A c \in Conns : conn[c].job = k => ~StartPlugin(c)
  PROVE  Fresh(k)'
<1>0. /\ StoreInv /\ QueueInv /\ Kept \subseteq Ids
      /\ state \in [Ids -> JobStates]
  BY KeptFacts DEF StoreInv
<1> USE <1>0 DEF EffectInv, KindInv, PlaceInv, WorkTypes, Fresh, JobStates,
            Active, Ended, Untouched, At, AtWork, Mailed, Answered, Over,
            Loaded, Ahead, storeVars, eventVars, queueVars, uiVars, workVars,
            connVars, endVars, effectVars
<1>1. CASE UNCHANGED JobVars
  BY <1>1 DEF JobVars
<1>2. ASSUME NEW a, NEW j \in Ids, Cancels(a, j)
      PROVE  Fresh(k)'
  BY <1>2, FinishFacts DEF Cancels, Active
<1>3. ASSUME NEW c \in Conns, NEW j \in Ids, Create(c, j)
      PROVE  Fresh(k)'
  BY <1>3 DEF Create, NoConn, Store
<1>4. ASSUME NEW c \in Conns, StartPlugin(c)
      PROVE  Fresh(k)'
  <2>1. worker' = [worker EXCEPT ![conn[c].job] = "start"] /\ conn[c].job # k
    BY <1>4 DEF StartPlugin
  <2>2. worker'[k] = worker[k]
    BY <2>1
  <2>3. UNCHANGED <<kind, state, reply, waiter, commits, ui, inbox>>
    BY <1>4 DEF StartPlugin
  <2> QED BY <2>2, <2>3
<1>5. CASE TakeRequest
  BY <1>5, TakeFacts DEF NoUI, Does
<1>6. CASE DropRequest \/ BeginSync \/ BeginCommand
  BY <1>6 DEF DropRequest, Dropped, CtxErr, ServerStopped, NoUI, BeginSync,
      Does, BeginCommand
<1>7. CASE Apply \/ Complete \/ Edit \/ PutLoaded
  BY <1>7 DEF Apply, Does, Complete, Prune, CtxErr, ServerStopped, NoUI, Edit,
      Reads, PutLoaded, Reply
<1>8. CASE FinishDone
  BY <1>8 DEF FinishDone, Finish, Finishable, Active, Snapshot, NoUI
<1>9. CASE FinishFailed
  BY <1>9, FinishFacts DEF FinishFailed, Active, NoUI
<1>10. ASSUME NEW j \in Ids, TakeLoaded(j)
       PROVE  Fresh(k)'
  BY <1>10 DEF TakeLoaded, Reads, NoUI, CtxErr, ServerStopped, Does, Reply
<1>11. ASSUME NEW j \in Ids, TakeResponse(j)
       PROVE  Fresh(k)'
  BY <1>11 DEF TakeResponse, Reads, NoUI, Does
<1>12. ASSUME NEW j \in Ids, Load(j) \/ CheckEdit(j) \/ SwitchDevice(j)
       PROVE  Fresh(k)'
  BY <1>12 DEF Load, Send, CheckEdit, CtxErr, ServerStopped, SwitchDevice, TakesEffect
<1>13. ASSUME NEW j \in Ids, ChangeProvider(j)
       PROVE  Fresh(k)'
  BY <1>13 DEF ChangeProvider, TakesEffect, Reply, Answer
<1>14. ASSUME NEW j \in Ids, PluginStart(j)
       PROVE  Fresh(k)'
  BY <1>14, StartFacts DEF PluginStart, CtxErr, ServerStopped
<1>15. ASSUME NEW j \in Ids, PluginCall(j)
       PROVE  Fresh(k)'
  BY <1>15, FinishFacts DEF PluginCall, TakesEffect, Active
<1>16. ASSUME NEW j \in Ids, Await(j)
       PROVE  Fresh(k)'
  BY <1>16, AwaitFacts
<1> QED BY <1>1, <1>2, <1>3, <1>4, <1>5, <1>6, <1>7, <1>8, <1>9, <1>10, <1>11,
           <1>12, <1>13, <1>14, <1>15, <1>16, JobCases DEF JobStep, Updates,
           Works

(* A job that exists keeps its kind.                                       *)
LEMMA NewJobs ==
  ASSUME StoreInv, WorkTypes, [Next]_vars, NEW j \in Ids, state[j] # "new"
  PROVE  state'[j] # "new" /\ kind'[j] = kind[j]
<1> USE DEF Active, Ended
<1>1. StoreStep
  BY StepCases
<1>2. CASE UNCHANGED <<state, kind>>
  BY <1>2
<1>3. ASSUME NEW k \in Ids, state[k] = "new", Store(k)
      PROVE  state'[j] # "new" /\ kind'[j] = kind[j]
  <2>1. /\ j # k /\ state' = [state EXCEPT ![k] = "queued"]
        /\ \E d \in Kinds[k] : kind' = [kind EXCEPT ![k] = d]
    BY <1>3 DEF Store
  <2> QED BY <2>1 DEF StoreInv, WorkTypes
<1>4. ASSUME NEW k, Start(k)
      PROVE  state'[j] # "new" /\ kind'[j] = kind[j]
  BY <1>4 DEF Start, Starts, StoreInv
<1>5. ASSUME NEW a, NEW k, NEW outcome \in Ended, Finish(a, k, outcome)
      PROVE  state'[j] # "new" /\ kind'[j] = kind[j]
  BY <1>5 DEF Finish, Finishable, StoreInv
<1> QED BY <1>1, <1>2, <1>3, <1>4, <1>5
           DEF StoreStep, Quiet, Calls, Prune, Age, PublishEvent, storeVars, SendEvent

(* Jobs for the update loop stay such; those that join are new in the      *)
(* queue.                                                                  *)
LEMMA QueueKindsKept ==
  ASSUME EffectInv, StoreInv, QueueInv, [Next]_vars
  PROVE  QueueKinds'
<1> USE DEF queueVars, connVars
<1> DEFINE For == {j \in Ids : kind[j] # "plugin" /\ state[j] # "new"}
<1>1. For \subseteq For'
  BY NewJobs DEF EffectInv
<1>2. /\ pending \in Seq(Ids) /\ \A i \in 1 .. Len(pending) : pending[i] \in For
      /\ batch \in Seq(Ids) /\ \A i \in 1 .. Len(batch) : batch[i] \in For
  BY DEF EffectInv, QueueKinds, QueueInv
<1> SUFFICES /\ \A i \in 1 .. Len(pending') : pending'[i] \in For'
             /\ \A i \in 1 .. Len(batch') : batch'[i] \in For'
  BY DEF QueueKinds
<1>3. ASSUME NEW c \in Conns, Enqueue(c)
      PROVE  /\ \A i \in 1 .. Len(pending') : pending'[i] \in For'
             /\ \A i \in 1 .. Len(batch') : batch'[i] \in For'
  <2> DEFINE j == conn[c].job
  <2>1. /\ conn[c].does = "create" /\ kind[j] # "plugin"
        /\ pending' = Append(pending, j) /\ batch' = batch
    BY <1>3 DEF Enqueue
  <2>2. j \in Ids /\ j \in For
    BY <2>1 DEF QueueInv, EffectInv, SubmitInv
  <2> HIDE DEF j, For
  <2>3. /\ Len(pending') = Len(pending) + 1 /\ pending'[Len(pending) + 1] = j
        /\ \A i \in 1 .. Len(pending) : pending'[i] = pending[i]
    BY <1>2, <2>1, <2>2, AppendProperties
  <2>4. \A i \in 1 .. Len(pending') : i \in 1 .. Len(pending) \/ i = Len(pending) + 1
    BY <1>2, <2>3
  <2> QED BY <1>1, <1>2, <2>1, <2>2, <2>3, <2>4
<1> HIDE DEF For
<1>4. CASE UNCHANGED <<pending, batch>>
  BY <1>1, <1>2, <1>4
<1>5. CASE batch # <<>> /\ batch' = Tail(batch) /\ pending' = pending
  <2>1. /\ Len(Tail(batch)) = Len(batch) - 1
        /\ \A i \in 1 .. Len(Tail(batch)) : Tail(batch)[i] = batch[i + 1]
    BY <1>2, <1>5, HeadTailProperties
  <2> QED BY <1>1, <1>2, <1>5, <2>1
<1>6. CASE batch' = pending /\ pending' = <<>>
  BY <1>1, <1>2, <1>6
<1>7. CASE TakeRequest \/ Sender
  BY <1>4, <1>5, <1>6, <1>7 DEF TakeRequest, Sender, Awake, Grab, Discard, EndBatch, Left
<1>8. ASSUME NEW c \in Conns, Submits(c) \/ \E j \in Ids : Create(c, j)
      PROVE  /\ \A i \in 1 .. Len(pending') : pending'[i] \in For'
             /\ \A i \in 1 .. Len(batch') : batch'[i] \in For'
  BY <1>4, <1>3, <1>8 DEF Submits, StartPlugin, Wake, Acknowledge, Create
<1> QED BY <1>4, <1>7, <1>8, QueueCases DEF QueueQuiet

(* What a step does to the connections.                                    *)
LEMMA ConnCases ==
  ASSUME QueueInv, [Next]_vars
  PROVE  \/ conn' = conn
         \/ \E c \in Conns :
              /\ \A d \in Conns \ {c} : conn'[d] = conn[d]
              /\ \/ conn'[c].does # "create"
                 \/ \E j \in Ids : Create(c, j) /\ conn'[c].job = j
<1> USE DEF queueVars, connVars
<1>1. CASE QueueQuiet \/ TakeRequest \/ Sender
  BY <1>1 DEF QueueQuiet, TakeRequest, Sender, Awake, Grab, Discard, EndBatch
<1>2. ASSUME NEW c \in Conns, Submits(c)
      PROVE  /\ conn'[c].does # "create"
             /\ \A d \in Conns \ {c} : conn'[d] = conn[d]
  BY <1>2 DEF Submits, StartPlugin, Enqueue, Wake, Acknowledge, QueueInv, NoConn
<1>3. ASSUME NEW c \in Conns, NEW j \in Ids, Create(c, j)
      PROVE  /\ conn'[c].job = j
             /\ \A d \in Conns \ {c} : conn'[d] = conn[d]
  BY <1>3 DEF Create, QueueInv
<1> QED BY <1>1, <1>2, <1>3, QueueCases

(* A connection with a new job in hand keeps it to itself.                 *)
LEMMA SubmitKept ==
  ASSUME EffectInv, StoreInv, QueueInv, [Next]_vars
  PROVE  SubmitInv'
<1>1. /\ SubmitInv /\ WorkTypes /\ PlaceInv
      /\ \A c \in Conns : conn[c].does = "create" => conn[c].job \in Ids
  BY DEF EffectInv, QueueInv
<1>2. ASSUME NEW d \in Conns, NEW k \in Ids, conn[d].does = "create", conn[d].job = k,
             conn'[d] = conn[d]
      PROVE  state'[k] # "new" /\ Fresh(k)'
  <2>1. state[k] # "new" /\ Fresh(k)
    BY <1>1, <1>2 DEF SubmitInv, Fresh, Untouched, At, Mailed, Over
  <2>2. \A c \in Conns : conn[c].job = k => ~StartPlugin(c)
    <3> SUFFICES ASSUME NEW c \in Conns, conn[c].job = k, StartPlugin(c)
                 PROVE  FALSE
      OBVIOUS
    <3>1. conn[c].does = "create" /\ conn'[c].does = "acknowledge"
      BY DEF StartPlugin, QueueInv
    <3>2. /\ conn[c] = [does |-> conn[c].does, job |-> conn[c].job]
          /\ conn[d] = [does |-> conn[d].does, job |-> conn[d].job]
      BY DEF QueueInv
    <3>3. c = d
      BY <1>1, <1>2, <3>1, <3>2 DEF SubmitInv
    <3> QED BY <1>2, <3>1, <3>3
  <2>3. state'[k] # "new"
    BY <1>1, <2>1, NewJobs
  <2> QED BY <2>1, <2>2, <2>3, FreshKept
<1>3. CASE conn' = conn
  BY <1>1, <1>2, <1>3 DEF SubmitInv
<1>4. ASSUME NEW c \in Conns, \A d \in Conns \ {c} : conn'[d] = conn[d],
             conn'[c].does # "create"
      PROVE  SubmitInv'
  BY <1>1, <1>2, <1>4 DEF SubmitInv
<1>5. ASSUME NEW c \in Conns, \A d \in Conns \ {c} : conn'[d] = conn[d],
             NEW j \in Ids, Create(c, j), conn'[c].job = j
      PROVE  SubmitInv'
  <2>1. state[j] = "new" /\ state' = [state EXCEPT ![j] = "queued"]
        /\ UNCHANGED <<worker, reply, waiter, inbox, ui, commits>>
    BY <1>5 DEF Create, Store, workVars, uiVars, effectVars
  <2>2. Untouched(j) /\ worker[j] = "none"
    BY <1>1, <2>1 DEF PlaceInv
  <2>3. state'[j] = "queued" /\ Fresh(j)'
    BY <2>1, <2>2 DEF StoreInv, Fresh, Untouched, At, Mailed, Over
  <2>4. \A d \in Conns : conn[d].does = "create" => conn[d].job # j
    BY <1>1, <2>1 DEF SubmitInv
  <2> QED BY <1>1, <1>2, <1>5, <2>3, <2>4 DEF SubmitInv
<1> QED BY <1>3, <1>4, <1>5, ConnCases

(* At first no job is anywhere.                                            *)
LEMMA EffectInit ==
  ASSUME Init
  PROVE  EffectInv
<1> USE DEF Init, NoUI, NoConn, At, AtWork, Mailed, Loaded, Answered, Over, Untouched, Ahead
<1>1. WorkTypes /\ KindInv /\ PlaceInv /\ OneMessage /\ CanceledStopped
  BY DEF WorkTypes, KindInv, PlaceInv, OneMessage, CanceledStopped
<1>2. QueueKinds
  BY DEF QueueKinds
<1>3. SubmitInv
  BY DEF SubmitInv
<1>4. TruthInv /\ VersionInv
  BY DEF TruthInv, VersionInv, OutcomeTold, SnapshotCoversEffect
<1> QED BY <1>1, <1>2, <1>3, <1>4 DEF EffectInv

(* Every reachable state satisfies the three invariants together.          *)
LEMMA EffectInvHolds == Spec => [](StoreInv /\ QueueInv /\ EffectInv)
<1>1. Init => StoreInv /\ QueueInv /\ EffectInv
  BY StoreInit, QueueInit, EffectInit
<1>2. StoreInv /\ QueueInv /\ EffectInv /\ [Next]_vars => (StoreInv /\ QueueInv /\ EffectInv)'
  <2> SUFFICES ASSUME StoreInv, QueueInv, EffectInv, [Next]_vars
               PROVE  StoreInv' /\ QueueInv' /\ EffectInv'
    OBVIOUS
  <2>1. StoreInv' /\ QueueInv'
    BY StoreKept, QueueKept
  <2>2. /\ WorkTypes' /\ KindInv' /\ OneMessage' /\ PlaceInv' /\ TruthInv'
        /\ VersionInv' /\ CanceledStopped'
    BY WorkTypesKept, KindKept, OneMessageKept, PlaceKept, TruthKept, VersionKept,
       CanceledStoppedKept
  <2>3. QueueKinds' /\ SubmitInv'
    BY QueueKindsKept, SubmitKept
  <2> QED BY <2>1, <2>2, <2>3 DEF EffectInv
<1> QED BY <1>1, <1>2, PTL DEF Spec

(* For any number of jobs and connections and every capacity: a job that   *)
(* succeeded took effect exactly once; one that failed did not, if it      *)
(* edits or loads what the program plays, and at most once if it is a      *)
(* setting that could not be saved or runs outside (completeV2Job,         *)
(* failV2Job and their callers).                                           *)
THEOREM OutcomesTrue == Spec => []OutcomeTold
<1>1. EffectInv => OutcomeTold
  BY DEF EffectInv, TruthInv
<1> QED BY <1>1, EffectInvHolds, PTL

(* For any number of jobs and connections and every capacity: the record   *)
(* of a job that succeeded reports no state from before its effect, and    *)
(* that of a synchronous one exactly the state its effect made             *)
(* (SucceedWithSnapshot).                                                  *)
THEOREM SnapshotsCover == Spec => []SnapshotCoversEffect
<1>1. EffectInv => SnapshotCoversEffect
  BY DEF EffectInv, VersionInv
<1> QED BY <1>1, EffectInvHolds, PTL

(* Whatever the other actors do, the update loop gives up a job that was   *)
(* canceled before it began, with no effect (handleV2Request).             *)
LEMMA CanceledIsDropped ==
  ASSUME StoreInv, EffectInv, [Next]_vars, NEW j \in Ids, state[j] = "canceled",
         ui = Does("begin", j)
  PROVE  commits'[j] = 0 /\ ui'.does # "apply"
<1>1. At(j) /\ Ahead(j) /\ ui.does = "begin" /\ ui.job = j
  BY DEF At, Ahead, Does
<1>2. commits[j] = 0 /\ ~AtWork(j) /\ commits \in [Ids -> Nat]
  BY <1>1 DEF EffectInv, PlaceInv, WorkTypes
<1>3. Dropped(j)
  BY DEF EffectInv, CanceledStopped, Dropped, CtxErr
<1>4. JobStep
  BY JobCases
<1> USE DEF storeVars, eventVars, queueVars, uiVars, workVars, connVars, endVars, effectVars
<1>5. CASE UNCHANGED JobVars
  BY <1>1, <1>2, <1>5 DEF JobVars
<1>6. ASSUME NEW a, NEW k \in Ids, Cancels(a, k)
      PROVE  commits'[j] = 0 /\ ui'.does # "apply"
  BY <1>1, <1>2, <1>6 DEF Cancels
<1>7. ASSUME NEW c \in Conns, StartPlugin(c) \/ \E k \in Ids : Create(c, k)
      PROVE  commits'[j] = 0 /\ ui'.does # "apply"
  BY <1>1, <1>2, <1>7 DEF StartPlugin, Create
<1>8. CASE DropRequest
  BY <1>1, <1>2, <1>8 DEF DropRequest, NoUI
<1>9. ~Reads
  BY <1>1 DEF Reads, NoUI
<1>10. CASE Updates \/ Edit
  BY <1>1, <1>2, <1>3, <1>8, <1>9, <1>10
     DEF Updates, Edit, TakeRequest, BeginSync, BeginCommand, Apply, Complete, FinishDone,
         FinishFailed, PutLoaded, TakeLoaded, TakeResponse
<1>11. ASSUME NEW k \in Ids, Works(k) \/ Await(k)
       PROVE  commits'[j] = 0 /\ ui'.does # "apply"
  BY <1>1, <1>2, <1>11 DEF Works, Load, CheckEdit, ChangeProvider, SwitchDevice, PluginStart,
     PluginCall, TakesEffect, Await, AtWork
<1> QED BY <1>4, <1>5, <1>6, <1>7, <1>10, <1>11 DEF JobStep

(* For any number of jobs and connections: a job that was canceled before  *)
(* the update loop began it never takes effect (handleV2Request).          *)
THEOREM CanceledJobsDropped == Spec => CanceledNeverBegins
<1>1. StoreInv /\ QueueInv /\ EffectInv /\ [Next]_vars =>
        [\A j \in Ids : state[j] = "canceled" /\ ui = Does("begin", j) =>
           commits'[j] = 0 /\ ui'.does # "apply"]_vars
  BY CanceledIsDropped
<1> QED BY <1>1, EffectInvHolds, PTL DEF Spec, CanceledNeverBegins
=============================================================================
