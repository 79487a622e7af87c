---------------------------- MODULE BrokerProofs ----------------------------
(***************************************************************************)
(* Proofs about the IPC server.  Of its broker: Publish waits only for a   *)
(* subscriber that has read nothing of a replay that filled its channel;   *)
(* it never sends on a closed channel; and a subscriber follows its        *)
(* topics.  Of the programs that share the socket's path (IpcServer): one  *)
(* that serves stays reachable.                                            *)
(***************************************************************************)
EXTENDS MCBroker, FiniteSetTheorems, SequenceTheorems, TLAPS

EventSet == [topic : Nat, seq : Nat, retained : BOOLEAN]
States == {"new", "streaming", "leaving", "gone"}

(* The types that the two results need.                                    *)
BrokerType ==
  /\ nextEvent \in Nat
  /\ DOMAIN replayed = Conns
  /\ \A t \in DOMAIN retained : retained[t] \in EventSet
  /\ topics \in [Conns -> SUBSET Topics]
  /\ events \in [Conns -> Seq(EventSet)]
  /\ subscribed \subseteq Conns
  /\ conn \in [Conns -> States]
  /\ sending \in [Publishers -> [event : EventSet, todo : SUBSET Conns,
                                 overflowing : Conns \cup {Nobody}]]

(* Who publishes holds b.mu, so only live subscriptions are due an event.  *)
LockInv ==
  \A p \in Publishers :
    /\ sending[p] # Idle => mu = p
    /\ sending[p].todo \subseteq subscribed
    /\ sending[p].overflowing \in Conns =>
         sending[p].overflowing \in sending[p].todo

(* A live subscription has an open channel.                                *)
OpenInv ==
  /\ subscribed \cap shut = {}
  /\ \A c \in Conns : conn[c] = "new" => c \notin subscribed /\ c \notin shut

BrokerInv == BrokerType /\ LockInv /\ OpenInv

(* A live subscription has a slot left for the overflow event, unless its  *)
(* replay took every slot and it has read nothing yet.                     *)
Unread(c) == Len(events[c]) = Room(c) /\ got[c] = <<>> /\ replayed[c] = Room(c)
Reserve ==
  /\ \A c \in subscribed : Len(events[c]) < Room(c) \/ Unread(c)
  /\ \A c \in Conns : conn[c] = "new" => got[c] = <<>>

-----------------------------------------------------------------------------

(* The channel of a subscription has at least the default size, and its    *)
(* size is a number.                                                       *)
LEMMA RoomSize ==
  ASSUME NEW c \in Conns, topics \in [Conns -> SUBSET Topics]
  PROVE  Room(c) \in Nat /\ Room(c) >= Slots
<1>1. IsFiniteSet(topics[c])
  BY FS_Subset, FiniteAssumption
<1> QED BY <1>1, FS_CardinalityType, SizesAssumption DEF Room

(* A replay is no longer than the list of topics it was asked for.         *)
LEMMA ReplaySize ==
  ASSUME NEW ts \in SUBSET Topics, NEW replay \in Replay(ts),
         \A t \in DOMAIN retained : retained[t] \in EventSet
  PROVE  replay \in Seq(EventSet) /\ Len(replay) <= Cardinality(ts)
<1> DEFINE kept == ts \cap DOMAIN retained
<1>1. IsFiniteSet(ts) /\ IsFiniteSet(kept)
  BY FS_Subset, FiniteAssumption
<1>2. Cardinality(kept) \in Nat /\ Cardinality(ts) \in Nat
  BY <1>1, FS_CardinalityType
<1>3. Cardinality(kept) <= Cardinality(ts)
  BY <1>1, FS_Subset
<1>4. PICK f \in Ascending(kept) :
        replay = [i \in DOMAIN f |-> [retained[f[i]] EXCEPT !.retained = TRUE]]
  BY DEF Replay, Values
<1>5. f \in [1 .. Cardinality(kept) -> kept]
  BY <1>4 DEF Ascending
<1>6. \A i \in DOMAIN f : [retained[f[i]] EXCEPT !.retained = TRUE] \in EventSet
  BY <1>5 DEF EventSet
<1>7. replay \in [1 .. Cardinality(kept) -> EventSet]
  BY <1>4, <1>5, <1>6
<1>8. replay \in Seq(EventSet) /\ Len(replay) = Cardinality(kept)
  <2>1. replay \in Seq(EventSet)
    BY <1>2, <1>7, SeqDef
  <2>2. DOMAIN replay = 1 .. Cardinality(kept)
    BY <1>7
  <2>3. 1 .. Len(replay) = 1 .. Cardinality(kept) /\ Len(replay) \in Nat
    BY <2>1, <2>2, LenProperties
  <2> QED BY <1>2, <2>1, <2>3
<1> QED BY <1>2, <1>3, <1>8

(* What an idle publisher has to do: nothing.                              *)
LEMMA IdleFacts == Idle.todo = {} /\ Idle.overflowing = Nobody
BY DEF Idle

(* A new broker has no subscriptions.                                      *)
LEMMA BrokerInit == Init => BrokerInv /\ Reserve
<1> SUFFICES ASSUME Init PROVE BrokerInv /\ Reserve
  OBVIOUS
<1>1. \A p \in Publishers : sending[p] = Idle
  BY DEF Init
<1>2. BrokerType
  BY DEF Init, BrokerType, Idle, Event, EventSet, States, Overflow
<1>3. LockInv
  BY <1>1, IdleFacts, FiniteAssumption DEF LockInv
<1> QED BY <1>2, <1>3 DEF Init, BrokerInv, OpenInv, Reserve

(* The steps of Publish keep the types and the lock.                       *)
LEMMA PublishKeeps ==
  ASSUME BrokerInv, NEW p \in Publishers, NEW t \in Topics, NEW retain \in BOOLEAN,
         Publish(p, t, retain)
  PROVE  BrokerInv'
<1> USE DEF BrokerInv, Publish
<1> DEFINE event == Event(t, nextEvent + 1, FALSE)
<1>1. event \in EventSet
  BY TopicsAssumption DEF BrokerType, Event, EventSet
<1>2. BrokerType'
  BY <1>1, TopicsAssumption DEF BrokerType, Retaining, Event
<1>3. LockInv'
  BY FreeAssumption, FiniteAssumption DEF LockInv, BrokerType, Hold
<1>4. OpenInv'
  BY DEF OpenInv
<1> QED BY <1>2, <1>3, <1>4

(* Sending one event keeps the invariant.                                  *)
LEMMA SendsKeeps ==
  ASSUME BrokerInv, NEW p \in Publishers, Sends(p)
  PROVE  BrokerInv'
<1> USE DEF BrokerInv
<1>1. sending[p] # Idle /\ mu = p
  <2>1. sending[p].todo # {} \/ sending[p].overflowing \in Conns \/ sending[p] # Idle
    BY DEF Sends, Deliver, FindFull, SendOverflow, EndPublish
  <2>2. sending[p] # Idle
    BY <2>1, IdleFacts, FiniteAssumption
  <2> QED BY <2>2 DEF LockInv
<1>2. \A q \in Publishers \ {p} : sending[q] = Idle
  BY <1>1 DEF LockInv
<1>3. CASE \E c \in Conns : Deliver(p, c)
  <2> PICK c \in Conns : Deliver(p, c)
    BY <1>3
  <2>1. BrokerType'
    <3>1. Append(events[c], sending[p].event) \in Seq(EventSet)
      BY DEF BrokerType
    <3>2. events' \in [Conns -> Seq(EventSet)]
      BY <3>1 DEF BrokerType, Deliver
    <3> QED BY <3>2 DEF BrokerType, Deliver
  <2>2. LockInv'
    BY <1>1, <1>2, FiniteAssumption DEF LockInv, BrokerType, Deliver
  <2> QED BY <2>1, <2>2 DEF Deliver, OpenInv
<1>4. CASE \E c \in Conns : FindFull(p, c)
  <2> PICK c \in Conns : FindFull(p, c)
    BY <1>4
  <2>1. BrokerType'
    <3>1. nextEvent' \in Nat
      BY DEF BrokerType, FindFull
    <3>2. [sending[p] EXCEPT !.overflowing = c]
            \in [event : EventSet, todo : SUBSET Conns, overflowing : Conns \cup {Nobody}]
      BY DEF BrokerType
    <3>3. sending' \in [Publishers -> [event : EventSet, todo : SUBSET Conns,
                                       overflowing : Conns \cup {Nobody}]]
      BY <3>2 DEF BrokerType, FindFull
    <3>4. UNCHANGED <<retained, subscribed, topics, events, conn, replayed>>
      BY DEF FindFull
    <3> QED BY <3>1, <3>3, <3>4 DEF BrokerType
  <2>2. LockInv'
    BY <1>1, <1>2 DEF LockInv, BrokerType, FindFull
  <2> QED BY <2>1, <2>2 DEF FindFull, OpenInv
<1>5. CASE SendOverflow(p)
  <2> DEFINE c == sending[p].overflowing
  <2>1. Event(Overflow, nextEvent, FALSE) \in EventSet
    BY DEF BrokerType, Event, EventSet, Overflow
  <2>2. BrokerType'
    <3>1. Append(events[c], Event(Overflow, nextEvent, FALSE)) \in Seq(EventSet)
      BY <1>5, <2>1, AppendProperties DEF BrokerType, SendOverflow
    <3>2. events' \in [Conns -> Seq(EventSet)]
      BY <1>5, <3>1 DEF BrokerType, SendOverflow
    <3>3. sending' \in [Publishers -> [event : EventSet, todo : SUBSET Conns,
                                       overflowing : Conns \cup {Nobody}]]
      <4>1. sending[p].todo \ {c} \in SUBSET Conns
        BY DEF BrokerType
      <4>2. [sending[p] EXCEPT !.todo = @ \ {c}, !.overflowing = Nobody]
              \in [event : EventSet, todo : SUBSET Conns, overflowing : Conns \cup {Nobody}]
        <5>1. /\ sending[p] \in [event : EventSet, todo : SUBSET Conns,
                                 overflowing : Conns \cup {Nobody}]
              /\ Nobody \in Conns \cup {Nobody}
          BY DEF BrokerType
        <5> QED BY <4>1, <5>1
      <4>3. sending' = [sending EXCEPT ![p] =
                          [sending[p] EXCEPT !.todo = @ \ {c}, !.overflowing = Nobody]]
        BY <1>5 DEF SendOverflow
      <4> QED BY <4>2, <4>3 DEF BrokerType
    <3>4. /\ subscribed' \subseteq Conns
          /\ UNCHANGED <<nextEvent, retained, topics, conn, replayed>>
      BY <1>5 DEF BrokerType, SendOverflow
    <3> HIDE DEF c
    <3> QED BY <3>2, <3>3, <3>4 DEF BrokerType
  <2>3. LockInv'
    <3>1. sending'[p].todo = sending[p].todo \ {c} /\ sending'[p].overflowing = Nobody
      BY <1>5 DEF BrokerType, SendOverflow
    <3>2. \A q \in Publishers \ {p} : sending'[q] = Idle
      BY <1>2, <1>5 DEF BrokerType, SendOverflow
    <3>3. mu' = p /\ subscribed' = subscribed \ {c}
      BY <1>1, <1>5 DEF SendOverflow
    <3> QED BY <3>1, <3>2, <3>3, IdleFacts, FiniteAssumption DEF LockInv
  <2>4. OpenInv'
    BY <1>5 DEF OpenInv, BrokerType, LockInv, SendOverflow
  <2> QED BY <2>2, <2>3, <2>4
<1>6. CASE EndPublish(p)
  <2>1. Idle \in [event : EventSet, todo : SUBSET Conns, overflowing : Conns \cup {Nobody}]
    BY DEF Idle, Event, EventSet, Overflow
  <2>2. BrokerType'
    BY <1>6, <2>1 DEF BrokerType, EndPublish
  <2>3. LockInv'
    BY <1>2, <1>6, IdleFacts, FiniteAssumption DEF LockInv, BrokerType, EndPublish
  <2> QED BY <1>6, <2>2, <2>3 DEF EndPublish, OpenInv
<1> QED BY <1>3, <1>4, <1>5, <1>6 DEF Sends

(* While b.mu is free nothing is being sent.                               *)
LEMMA NobodySends ==
  ASSUME LockInv, mu = Free
  PROVE  \A p \in Publishers : sending[p] = Idle
BY FreeAssumption DEF LockInv

(* A step of a connection keeps the invariant.                             *)
LEMMA ConnKeeps ==
  ASSUME BrokerInv, NEW c \in Conns, NEW ts \in SUBSET Topics,
         Subscribe(c, ts) \/ Receive(c) \/ SeeClosed(c) \/ Leave(c) \/ Unsubscribe(c)
  PROVE  BrokerInv'
<1> USE DEF BrokerInv
<1>1. CASE Subscribe(c, ts)
  <2>1. BrokerType'
    <3>1. PICK replay \in Replay(ts) :
            /\ events' = [events EXCEPT ![c] = replay]
            /\ replayed' = [replayed EXCEPT ![c] = Len(replay)]
      BY <1>1 DEF Subscribe
    <3>2. replay \in Seq(EventSet)
      BY ReplaySize DEF BrokerType
    <3>3. events' \in [Conns -> Seq(EventSet)] /\ DOMAIN replayed' = Conns
      BY <3>1, <3>2 DEF BrokerType
    <3> QED BY <1>1, <3>3 DEF BrokerType, Subscribe, States
  <2>2. LockInv'
    BY <1>1 DEF LockInv, Subscribe
  <2>3. OpenInv'
    BY <1>1 DEF OpenInv, BrokerType, Subscribe
  <2> QED BY <2>1, <2>2, <2>3
<1>2. CASE Receive(c)
  <2>1. Tail(events[c]) \in Seq(EventSet)
    BY <1>2 DEF Receive, BrokerType
  <2>2. BrokerType'
    BY <1>2, <2>1 DEF BrokerType, Receive
  <2> QED BY <1>2, <2>2 DEF LockInv, OpenInv, Receive
<1>3. CASE SeeClosed(c) \/ Leave(c)
  <2>1. BrokerType'
    BY <1>3 DEF BrokerType, SeeClosed, Leave, States
  <2>2. LockInv'
    BY <1>3 DEF LockInv, SeeClosed, Leave
  <2> QED BY <1>3, <2>1, <2>2 DEF OpenInv, BrokerType, SeeClosed, Leave
<1>4. CASE Unsubscribe(c)
  <2>1. BrokerType'
    BY <1>4 DEF BrokerType, Unsubscribe, States
  <2>2. LockInv'
    BY <1>4, NobodySends, IdleFacts, FiniteAssumption DEF LockInv, Unsubscribe
  <2>3. OpenInv'
    BY <1>4 DEF OpenInv, BrokerType, Unsubscribe
  <2> QED BY <2>1, <2>2, <2>3
<1> QED BY <1>1, <1>2, <1>3, <1>4

(* Closing the broker keeps the invariant.                                 *)
LEMMA ClosingKeeps ==
  ASSUME BrokerInv, ClearPrefix \/ CloseBroker
  PROVE  BrokerInv'
<1> USE DEF BrokerInv
<1>1. BrokerType'
  BY DEF BrokerType, ClearPrefix, CloseBroker
<1>2. LockInv'
  BY NobodySends, IdleFacts, FiniteAssumption DEF LockInv, ClearPrefix, CloseBroker
<1>3. OpenInv'
  BY DEF OpenInv, BrokerType, ClearPrefix, CloseBroker
<1> QED BY <1>1, <1>2, <1>3

(* Every step keeps the invariant.                                         *)
LEMMA BrokerStep == BrokerInv /\ [Next]_vars => BrokerInv'
<1> SUFFICES ASSUME BrokerInv, [Next]_vars PROVE BrokerInv'
  OBVIOUS
<1>1. CASE UNCHANGED vars
  BY <1>1 DEF vars, BrokerInv, BrokerType, LockInv, OpenInv
<1>2. CASE Next
  BY <1>2, PublishKeeps, SendsKeeps, ConnKeeps, ClosingKeeps DEF Next
<1> QED BY <1>1, <1>2

-----------------------------------------------------------------------------

(* A publication in progress never sends on the channel of a subscription  *)
(* that ended (Publish, unsubscribe, Close): the send would panic.         *)
THEOREM SendsOnOpenChannels == Spec => []NoSendOnClosed
<1>1. BrokerInv => NoSendOnClosed
  BY DEF BrokerInv, LockInv, OpenInv, NoSendOnClosed
<1> QED BY <1>1, BrokerInit, BrokerStep, PTL DEF Spec

(* The steps of Publish leave the reserved slot of every subscription that *)
(* stays.                                                                  *)
LEMMA ReserveStep ==
  ASSUME BrokerInv, Reserve, [Next]_vars
  PROVE  Reserve'
<1> USE DEF BrokerInv
<1> DEFINE Spare(c) == Len(events[c]) < Room(c) \/ Unread(c)
<1>0. \A c \in Conns : Room(c) \in Nat /\ Room(c) >= Slots
  BY RoomSize DEF BrokerType
<1>1. CASE UNCHANGED vars
  BY <1>1 DEF vars, Reserve, Unread, Room
<1>2. CASE \E p \in Publishers, t \in Topics, retain \in BOOLEAN : Publish(p, t, retain)
  BY <1>2 DEF Publish, Reserve, Unread, Room
<1>3. ASSUME NEW p \in Publishers, NEW c \in Conns, Deliver(p, c)
      PROVE  Reserve'
  <2>1. Len(events[c]) \in Nat /\ Len(events[c]) < Room(c) - 1
    BY <1>0, <1>3 DEF Deliver, Full, BrokerType
  <2>2. events'[c] = Append(events[c], sending[p].event)
        /\ \A d \in Conns \ {c} : events'[d] = events[d]
    BY <1>3 DEF Deliver, BrokerType
  <2>3. Len(events'[c]) = Len(events[c]) + 1
    BY <2>2 DEF BrokerType
  <2>4. /\ subscribed' = subscribed /\ conn' = conn /\ got' = got
        /\ replayed' = replayed /\ \A d \in Conns : Room(d)' = Room(d)
    BY <1>3 DEF Deliver, Room
  <2>5. ASSUME NEW d \in subscribed PROVE Spare(d)'
    <3>1. d \in Conns /\ Spare(d)
      BY DEF Reserve, BrokerType
    <3>2. CASE d = c
      BY <1>0, <2>1, <2>3, <2>4, <3>1, <3>2
    <3>3. CASE d # c
      BY <2>2, <2>4, <3>1, <3>3 DEF Unread
    <3> QED BY <3>2, <3>3
  <2> QED BY <2>4, <2>5 DEF Reserve
<1>4. ASSUME NEW p \in Publishers, NEW c \in Conns, FindFull(p, c)
      PROVE  Reserve'
  BY <1>4 DEF FindFull, Reserve, Unread, Room
<1>5. ASSUME NEW p \in Publishers, SendOverflow(p)
      PROVE  Reserve'
  <2> DEFINE c == sending[p].overflowing
  <2>1. /\ subscribed' = subscribed \ {c} /\ conn' = conn /\ got' = got
        /\ replayed' = replayed /\ \A d \in Conns : Room(d)' = Room(d)
    BY <1>5 DEF SendOverflow, Room
  <2>2. \A d \in Conns \ {c} : events'[d] = events[d]
    BY <1>5 DEF SendOverflow, BrokerType
  <2>3. ASSUME NEW d \in subscribed \ {c} PROVE Spare(d)'
    BY <2>1, <2>2 DEF Reserve, Unread, BrokerType
  <2> HIDE DEF c
  <2> QED BY <2>1, <2>3 DEF Reserve
<1>6. ASSUME NEW p \in Publishers, EndPublish(p)
      PROVE  Reserve'
  BY <1>6 DEF EndPublish, Reserve, Unread, Room
<1>7. ASSUME NEW c \in Conns, NEW ts \in SUBSET Topics, Subscribe(c, ts)
      PROVE  Reserve'
  <2>1. PICK replay \in Replay(ts) :
          /\ events' = [events EXCEPT ![c] = replay]
          /\ replayed' = [replayed EXCEPT ![c] = Len(replay)]
    BY <1>7 DEF Subscribe
  <2>2. Len(replay) \in Nat /\ Len(replay) <= Cardinality(ts)
    BY ReplaySize DEF BrokerType
  <2>3. Cardinality(ts) \in Nat
    BY FS_Subset, FS_CardinalityType, FiniteAssumption
  <2>4. /\ Cardinality(ts) <= MaxTopics /\ topics' = [topics EXCEPT ![c] = ts]
        /\ got' = got /\ conn' = [conn EXCEPT ![c] = "streaming"]
        /\ subscribed' = subscribed \cup {c}
    BY <1>7 DEF Subscribe
  <2>5. Room(c)' = Slots
    BY <2>3, <2>4, SizesAssumption DEF Room, BrokerType
  <2>6. Len(events'[c]) <= Room(c)' /\ Len(events'[c]) = Len(replay)
    BY <2>1, <2>2, <2>3, <2>4, <2>5, SizesAssumption DEF BrokerType
  <2>7. got'[c] = <<>>
    BY <1>7, <2>4 DEF Reserve, Subscribe
  <2>8. ASSUME Len(replay) = Room(c)' PROVE Unread(c)'
    <3>1. replayed'[c] = Len(replay)
      BY <2>1 DEF BrokerType
    <3> QED BY <2>6, <2>7, <2>8, <3>1 DEF Unread
  <2>9. \A d \in Conns \ {c} : events'[d] = events[d] /\ Room(d)' = Room(d)
                                  /\ replayed'[d] = replayed[d]
    BY <2>1, <2>4 DEF Room, BrokerType
  <2>10. ASSUME NEW d \in subscribed' PROVE Spare(d)'
    <3>1. CASE d = c
      BY <2>2, <2>5, <2>6, <2>8, <3>1, SizesAssumption
    <3>2. CASE d # c
      <4>1. d \in Conns /\ Spare(d)
        BY <2>4, <3>2 DEF Reserve, BrokerType
      <4> QED BY <2>4, <2>9, <3>2, <4>1 DEF Unread
    <3> QED BY <3>1, <3>2
  <2>11. \A d \in Conns : conn'[d] = "new" => got'[d] = <<>>
    BY <2>4 DEF Reserve, BrokerType
  <2> QED BY <2>10, <2>11 DEF Reserve
<1>8. ASSUME NEW c \in Conns, Receive(c)
      PROVE  Reserve'
  <2>1. events[c] \in Seq(EventSet) /\ events[c] # <<>>
    BY <1>8 DEF Receive, BrokerType
  <2>2. Len(Tail(events[c])) = Len(events[c]) - 1 /\ Len(events[c]) \in Nat
    BY <2>1
  <2>3. events'[c] = Tail(events[c]) /\ \A d \in Conns \ {c} : events'[d] = events[d]
    BY <1>8 DEF Receive, BrokerType
  <2>4. /\ subscribed' = subscribed /\ conn' = conn /\ conn[c] = "streaming"
        /\ replayed' = replayed /\ \A d \in Conns : Room(d)' = Room(d)
    BY <1>8 DEF Receive, Room
  <2>5. \A d \in Conns \ {c} : got'[d] = got[d]
    BY <1>8 DEF Receive
  <2>6. ASSUME NEW d \in subscribed PROVE Spare(d)'
    <3>1. d \in Conns /\ Spare(d)
      BY DEF Reserve, BrokerType
    <3>2. CASE d = c
      <4>1. Len(events'[c]) = Len(events[c]) - 1
        BY <2>2, <2>3
      <4>2. Len(events[c]) <= Room(c)
        BY <1>0, <2>2, <3>1, <3>2 DEF Unread
      <4> QED BY <1>0, <2>2, <2>4, <3>2, <4>1, <4>2
    <3>3. CASE d # c
      BY <2>3, <2>4, <2>5, <3>1, <3>3 DEF Unread
    <3> QED BY <3>2, <3>3
  <2> QED BY <2>4, <2>5, <2>6 DEF Reserve
<1>9. ASSUME NEW c \in Conns, SeeClosed(c) \/ Leave(c) \/ Unsubscribe(c)
      PROVE  Reserve'
  BY <1>9 DEF SeeClosed, Leave, Unsubscribe, Reserve, Unread, Room, BrokerType
<1>10. CASE ClearPrefix \/ CloseBroker
  BY <1>10 DEF ClearPrefix, CloseBroker, Reserve, Unread, Room
<1> QED BY <1>1, <1>2, <1>3, <1>4, <1>5, <1>6, <1>7, <1>8, <1>9, <1>10 DEF Next, Sends

(* Publish waits for no subscriber but one that has read nothing of a      *)
(* replay that filled its channel, whatever the numbers of topics, slots,  *)
(* publishers and connections.                                             *)
THEOREM WaitsForUnreadReplay == Spec => []WaitsForReplayOnly
<1>1. BrokerInv /\ Reserve => WaitsForReplayOnly
  <2> SUFFICES ASSUME BrokerInv, Reserve, NEW p \in Publishers, NEW c \in Conns,
                      WaitsFor(p, c)
               PROVE  got[c] = <<>> /\ replayed[c] = Room(c)
    BY DEF WaitsForReplayOnly
  <2>1. c \in subscribed /\ Len(events[c]) >= Room(c)
    BY DEF BrokerInv, LockInv, WaitsFor
  <2>2. Room(c) \in Nat /\ Len(events[c]) \in Nat
    BY RoomSize DEF BrokerInv, BrokerType
  <2> QED BY <2>1, <2>2 DEF Reserve, Unread
<1>2. BrokerInv /\ Reserve /\ [Next]_vars => (BrokerInv /\ Reserve)'
  BY BrokerStep, ReserveStep
<1> QED BY <1>1, <1>2, BrokerInit, PTL DEF Spec

-----------------------------------------------------------------------------
(* What a subscriber reads.                                                *)

(* A connection's stream, and what it was owed.  Nothing happened on a     *)
(* connection that has not subscribed.                                     *)
FollowTypes ==
  /\ got \in [Conns -> Seq(EventSet)] /\ owed \in [Conns -> Seq(EventSet)]
  /\ replayed \in [Conns -> Nat]
  /\ \A c \in Conns : replayed[c] <= Len(Stream(c))
  /\ \A c \in Conns : conn[c] = "new" =>
       got[c] = <<>> /\ owed[c] = <<>> /\ topics[c] = {}
  /\ \A t \in DOMAIN retained : retained[t].topic = t

(* The event that is on its way is the one that is missing.                *)
FlowInv ==
  \A c \in subscribed :
    /\ \A p \in Publishers :
         c \in sending[p].todo => owed[c] = Append(Live(c), sending[p].event)
    /\ ~InFlight(c) => owed[c] = Live(c)

Told(c) ==
  /\ Stream(c) # <<>> /\ Stream(c)[Len(Stream(c))].topic = Overflow
  /\ PrefixOf(AllButLast(Live(c)), owed[c])

CutInv ==
  \A c \in Conns : conn[c] = "streaming" /\ c \in shut /\ ~closed => Told(c)

(* The retained value of a topic was sent, or is on its way.               *)
Had(c, t) ==
  \E i \in 1 .. Len(Stream(c)) :
    Stream(c)[i].topic = t /\ Stream(c)[i].seq = retained[t].seq
Coming(c, t) ==
  \E p \in Publishers : /\ c \in sending[p].todo
                        /\ sending[p].event.topic = t
                        /\ sending[p].event.seq = retained[t].seq
ValueInv ==
  \A c \in subscribed : \A t \in topics[c] \cap DOMAIN retained : Had(c, t) \/ Coming(c, t)

FollowInv == FollowTypes /\ FlowInv /\ CutInv /\ ValueInv

-----------------------------------------------------------------------------
(* Sequences.                                                              *)

(* What a stream loses at its end it has had before.                       *)
LEMMA ButLast ==
  ASSUME NEW S, NEW s \in Seq(S), NEW e \in S
  PROVE  AllButLast(Append(s, e)) = s
<1>1. /\ Append(s, e) \in Seq(S) /\ Len(Append(s, e)) = Len(s) + 1
      /\ \A i \in 1 .. Len(s) : Append(s, e)[i] = s[i]
  BY AppendProperties
<1>2. \A i \in 1 .. Len(s) : Append(s, e)[i] \in S
  BY <1>1
<1>3. /\ AllButLast(Append(s, e)) \in Seq(S)
      /\ Len(AllButLast(Append(s, e))) = Len(s)
      /\ \A i \in 1 .. Len(s) : AllButLast(Append(s, e))[i] = s[i]
  BY <1>1, <1>2, SubSeqProperties DEF AllButLast
<1> QED BY <1>3, SeqEqual

(* A suffix grows with its sequence.                                       *)
LEMMA SuffixGrows ==
  ASSUME NEW S, NEW s \in Seq(S), NEW e \in S, NEW n \in Nat, n <= Len(s)
  PROVE  SubSeq(Append(s, e), n + 1, Len(Append(s, e))) = Append(SubSeq(s, n + 1, Len(s)), e)
<1> DEFINE a == Append(s, e)  u == SubSeq(s, n + 1, Len(s))  v == SubSeq(a, n + 1, Len(a))
<1>1. /\ a \in Seq(S) /\ Len(a) = Len(s) + 1 /\ a[Len(s) + 1] = e
      /\ \A i \in 1 .. Len(s) : a[i] = s[i]
  BY AppendProperties
<1>2. (\A i \in n + 1 .. Len(s) : s[i] \in S) /\ (\A i \in n + 1 .. Len(a) : a[i] \in S)
  BY <1>1
<1>3. /\ u \in Seq(S) /\ Len(u) = Len(s) - n
      /\ \A i \in 1 .. Len(s) - n : u[i] = s[n + i]
  <2>1. n + 1 <= Len(s) \/ n = Len(s)
    OBVIOUS
  <2> QED BY <1>2, <2>1, SubSeqProperties
<1>4. /\ v \in Seq(S) /\ Len(v) = Len(s) + 1 - n
      /\ \A i \in 1 .. Len(s) + 1 - n : v[i] = a[n + i]
  BY <1>1, <1>2, SubSeqProperties
<1>5. /\ Append(u, e) \in Seq(S) /\ Len(Append(u, e)) = Len(s) - n + 1
      /\ Append(u, e)[Len(s) - n + 1] = e
      /\ \A i \in 1 .. Len(s) - n : Append(u, e)[i] = u[i]
  BY <1>3, AppendProperties
<1>6. ASSUME NEW i \in 1 .. Len(s) + 1 - n
      PROVE  v[i] = Append(u, e)[i]
  <2>1. CASE i = Len(s) + 1 - n
    BY <1>1, <1>4, <1>5, <2>1
  <2>2. CASE i \in 1 .. Len(s) - n
    BY <1>1, <1>3, <1>4, <1>5, <2>2
  <2> QED BY <2>1, <2>2
<1>7. Len(v) = Len(Append(u, e))
  BY <1>4, <1>5
<1> QED BY <1>4, <1>5, <1>6, <1>7, SeqEqual

(* A prefix stays one when the sequence grows.                             *)
LEMMA PrefixKept ==
  ASSUME NEW S, NEW s \in Seq(S), NEW t \in Seq(S), NEW e \in S, PrefixOf(s, t)
  PROVE  PrefixOf(s, Append(t, e))
<1>1. /\ Append(t, e) \in Seq(S) /\ Len(Append(t, e)) = Len(t) + 1
      /\ \A i \in 1 .. Len(t) : Append(t, e)[i] = t[i]
  BY AppendProperties
<1>2. Len(s) <= Len(t) /\ s = SubSeq(t, 1, Len(s))
  BY DEF PrefixOf
<1>3. SubSeq(t, 1, Len(s)) = SubSeq(Append(t, e), 1, Len(s))
  <2>1. (\A i \in 1 .. Len(s) : t[i] \in S) /\ (\A i \in 1 .. Len(s) : Append(t, e)[i] \in S)
    BY <1>1, <1>2
  <2>2. /\ SubSeq(t, 1, Len(s)) \in Seq(S) /\ SubSeq(Append(t, e), 1, Len(s)) \in Seq(S)
        /\ Len(SubSeq(t, 1, Len(s))) = Len(s) /\ Len(SubSeq(Append(t, e), 1, Len(s))) = Len(s)
        /\ \A i \in 1 .. Len(s) : SubSeq(t, 1, Len(s))[i] = t[i]
        /\ \A i \in 1 .. Len(s) : SubSeq(Append(t, e), 1, Len(s))[i] = Append(t, e)[i]
    BY <1>1, <1>2, <2>1, SubSeqProperties
  <2>3. \A i \in 1 .. Len(s) : t[i] = Append(t, e)[i]
    BY <1>1, <1>2
  <2> DEFINE n == Len(s)
             u == SubSeq(t, 1, n)
             v == SubSeq(Append(t, e), 1, n)
  <2>4. u \in Seq(S) /\ v \in Seq(S) /\ Len(u) = n /\ Len(v) = n
    BY <2>2
  <2>5. \A i \in 1 .. n : u[i] = v[i]
    BY <2>2, <2>3
  <2> HIDE DEF n, u, v
  <2>6. u = v
    BY <2>4, <2>5, SeqEqual
  <2> QED BY <2>6 DEF n, u, v
<1> QED BY <1>1, <1>2, <1>3 DEF PrefixOf

(* A sequence is its own prefix, and that of one that is longer.           *)
LEMMA PrefixOfAppend ==
  ASSUME NEW S, NEW s \in Seq(S), NEW e \in S
  PROVE  PrefixOf(s, Append(s, e))
<1>1. s = SubSeq(s, 1, Len(s))
  BY SubSeqFull
<1>2. PrefixOf(s, s)
  BY <1>1 DEF PrefixOf
<1> QED BY <1>2, PrefixKept

(* Every value that was to be replayed is.                                 *)
LEMMA ReplayComplete ==
  ASSUME NEW ts \in SUBSET Topics, NEW replay \in Replay(ts), NEW t \in ts \cap DOMAIN retained,
         \A u \in DOMAIN retained : retained[u] \in EventSet
  PROVE  \E i \in 1 .. Len(replay) :
           replay[i].topic = retained[t].topic /\ replay[i].seq = retained[t].seq
<1> DEFINE kept == ts \cap DOMAIN retained
<1>1. IsFiniteSet(kept)
  BY FS_Subset, FiniteAssumption
<1>2. Cardinality(kept) \in Nat
  BY <1>1, FS_CardinalityType
<1>3. PICK f \in Ascending(kept) :
        replay = [i \in DOMAIN f |-> [retained[f[i]] EXCEPT !.retained = TRUE]]
  BY DEF Replay, Values
<1> DEFINE dom == 1 .. Cardinality(kept)
<1>4. /\ f \in [dom -> kept]
      /\ \A i, j \in dom : i < j => f[i] < f[j]
  BY <1>3 DEF Ascending
<1>5. \A i \in dom : f[i] \in Nat
  BY <1>4, TopicsAssumption
<1>6. f \in Injection(dom, kept)
  <2> SUFFICES ASSUME NEW i \in dom, NEW j \in dom, f[i] = f[j]
               PROVE  i = j
    BY <1>4 DEF Injection, IsInjective
  <2>1. i \in Nat /\ j \in Nat
    BY <1>2
  <2>2. f[i] \in Nat /\ f[j] \in Nat
    BY <1>5
  <2>3. (i < j => f[i] < f[j]) /\ (j < i => f[j] < f[i])
    BY <1>4
  <2> QED BY <2>1, <2>2, <2>3
<1>7. Cardinality(dom) = Cardinality(kept)
  BY <1>2, FS_Interval
<1>8. f \in Surjection(dom, kept)
  BY <1>1, <1>6, <1>7, FS_Injection
<1>9. PICK i \in dom : f[i] = t
  BY <1>8 DEF Surjection
<1>10. replay[i] = [retained[t] EXCEPT !.retained = TRUE]
  BY <1>3, <1>4, <1>9
<1>11. replay[i].topic = retained[t].topic /\ replay[i].seq = retained[t].seq
  BY <1>10 DEF EventSet
<1>12. DOMAIN replay = dom
  BY <1>3, <1>4
<1>13. replay \in Seq(EventSet)
  BY ReplaySize
<1>14. i \in 1 .. Len(replay)
  BY <1>9, <1>12, <1>13, LenProperties
<1> QED BY <1>11, <1>14

(* What is read leaves the channel for the log of the connection.          *)
LEMMA ReadKeepsStream ==
  ASSUME NEW S, NEW s \in Seq(S), NEW t \in Seq(S), t # <<>>
  PROVE  Append(s, Head(t)) \o Tail(t) = s \o t
<1>1. /\ Head(t) \in S /\ Tail(t) \in Seq(S)
      /\ Len(Tail(t)) = Len(t) - 1 /\ Len(t) >= 1 /\ Head(t) = t[1]
      /\ \A i \in 1 .. Len(Tail(t)) : Tail(t)[i] = t[i + 1]
  BY HeadTailProperties
<1> DEFINE u == Append(s, Head(t))
<1>2. /\ u \in Seq(S) /\ Len(u) = Len(s) + 1 /\ u[Len(s) + 1] = Head(t)
      /\ \A i \in 1 .. Len(s) : u[i] = s[i]
  BY <1>1, AppendProperties
<1> HIDE DEF u
<1>3. /\ u \o Tail(t) \in Seq(S) /\ Len(u \o Tail(t)) = Len(u) + Len(Tail(t))
      /\ \A i \in 1 .. Len(u) + Len(Tail(t)) : (u \o Tail(t))[i] =
            IF i <= Len(u) THEN u[i] ELSE Tail(t)[i - Len(u)]
  BY <1>1, <1>2, ConcatProperties
<1>4. /\ s \o t \in Seq(S) /\ Len(s \o t) = Len(s) + Len(t)
      /\ \A i \in 1 .. Len(s) + Len(t) : (s \o t)[i] =
            IF i <= Len(s) THEN s[i] ELSE t[i - Len(s)]
  BY ConcatProperties
<1>5. Len(u \o Tail(t)) = Len(s \o t)
  BY <1>1, <1>2, <1>3, <1>4
<1>6. ASSUME NEW i \in 1 .. Len(s \o t)
      PROVE  (u \o Tail(t))[i] = (s \o t)[i]
  <2>1. i \in 1 .. Len(s) + Len(t) /\ i \in 1 .. Len(u) + Len(Tail(t))
    BY <1>1, <1>2, <1>4
  <2>2. CASE i <= Len(s)
    BY <2>1, <2>2, <1>2, <1>3, <1>4
  <2>3. CASE i = Len(s) + 1
    BY <2>1, <2>3, <1>1, <1>2, <1>3, <1>4
  <2>4. CASE i > Len(s) + 1
    BY <2>1, <2>4, <1>1, <1>2, <1>3, <1>4
  <2> QED BY <2>1, <2>2, <2>3, <2>4
<1> QED BY <1>3, <1>4, <1>5, <1>6, SeqEqual DEF u

(* What is sent is added at the end of the stream.                         *)
LEMMA SendExtendsStream ==
  ASSUME NEW S, NEW s \in Seq(S), NEW t \in Seq(S), NEW e \in S
  PROVE  s \o Append(t, e) = Append(s \o t, e)
<1> DEFINE one == <<e>>
<1>1. one \in Seq(S) /\ s \o t \in Seq(S)
  BY ConcatProperties
<1>2. Append(t, e) = t \o one /\ Append(s \o t, e) = (s \o t) \o one
  BY <1>1, AppendIsConcat
<1> QED BY <1>1, <1>2, ConcatAssociative

(* The stream of a connection, and what it had after its replay.           *)
LEMMA StreamType ==
  ASSUME BrokerType, FollowTypes, NEW c \in Conns
  PROVE  /\ got[c] \in Seq(EventSet) /\ events[c] \in Seq(EventSet)
         /\ owed[c] \in Seq(EventSet)
         /\ Stream(c) \in Seq(EventSet) /\ Live(c) \in Seq(EventSet)
         /\ replayed[c] \in Nat /\ replayed[c] <= Len(Stream(c))
<1>1. /\ got[c] \in Seq(EventSet) /\ events[c] \in Seq(EventSet) /\ owed[c] \in Seq(EventSet)
      /\ replayed[c] \in Nat /\ replayed[c] <= Len(Stream(c))
  BY DEF BrokerType, FollowTypes
<1>2. Stream(c) \in Seq(EventSet)
  BY <1>1, ConcatProperties DEF Stream
<1>3. \A i \in replayed[c] + 1 .. Len(Stream(c)) : Stream(c)[i] \in EventSet
  BY <1>1, <1>2
<1>4. Live(c) \in Seq(EventSet)
  BY <1>1, <1>2, <1>3, SubSeqProperties DEF Live
<1> QED BY <1>1, <1>2, <1>4

-----------------------------------------------------------------------------
(* What a step does to the streams.                                        *)

(* An event that is sent on a channel ends its stream.                     *)
LEMMA StreamSent ==
  ASSUME BrokerType, FollowTypes, NEW c \in Conns, NEW e \in EventSet,
         events' = [events EXCEPT ![c] = Append(@, e)], UNCHANGED <<got, replayed>>
  PROVE  /\ Stream(c)' = Append(Stream(c), e) /\ Live(c)' = Append(Live(c), e)
         /\ Len(Stream(c)') = Len(Stream(c)) + 1
         /\ \A d \in Conns \ {c} : Stream(d)' = Stream(d) /\ Live(d)' = Live(d)
<1>1. events'[c] = Append(events[c], e) /\ \A d \in Conns \ {c} : events'[d] = events[d]
  BY DEF BrokerType
<1>2. Stream(c)' = Append(Stream(c), e)
  <2>1. got[c] \in Seq(EventSet) /\ events[c] \in Seq(EventSet)
    BY StreamType
  <2>2. Stream(c)' = got[c] \o Append(events[c], e)
    BY <1>1 DEF Stream
  <2> DEFINE s == got[c]  u == events[c]
  <2>3. s \in Seq(EventSet) /\ u \in Seq(EventSet)
    BY <2>1
  <2> HIDE DEF s, u
  <2>4. s \o Append(u, e) = Append(s \o u, e)
    BY <2>3, SendExtendsStream
  <2> QED BY <2>2, <2>4 DEF Stream, s, u
<1>3. Live(c)' = Append(Live(c), e)
  <2>1. Live(c)' = SubSeq(Stream(c)', replayed[c] + 1, Len(Stream(c)'))
    BY DEF Live
  <2>2. /\ Stream(c) \in Seq(EventSet) /\ replayed[c] \in Nat /\ replayed[c] <= Len(Stream(c))
    BY StreamType
  <2> QED BY <1>2, <2>1, <2>2, SuffixGrows DEF Live
<1>4. Len(Stream(c)') = Len(Stream(c)) + 1
  BY <1>2, StreamType, AppendProperties
<1>5. \A d \in Conns \ {c} : Stream(d)' = Stream(d) /\ Live(d)' = Live(d)
  BY <1>1 DEF Stream, Live
<1> QED BY <1>2, <1>3, <1>4, <1>5

(* A step that leaves the streams, and takes from the broker, keeps what   *)
(* they follow.                                                            *)
LEMMA QuietKeeps ==
  ASSUME BrokerType, FollowInv, UNCHANGED <<owed, replayed, topics>>,
         got' \in [Conns -> Seq(EventSet)],
         \A c \in Conns : Stream(c)' = Stream(c),
         subscribed' \subseteq subscribed,
         \A p \in Publishers : /\ sending'[p].todo = sending[p].todo
                               /\ sending[p].todo # {} => sending'[p].event = sending[p].event,
         DOMAIN retained' \subseteq DOMAIN retained,
         \A t \in DOMAIN retained' : retained'[t] = retained[t],
         \A c \in Conns : conn'[c] = "new" => conn[c] = "new" /\ got'[c] = got[c],
         \A c \in Conns : conn'[c] = "streaming" /\ c \in shut' /\ ~closed' =>
                          conn[c] = "streaming" /\ c \in shut /\ ~closed
  PROVE  FollowInv'
<1>1. \A c \in Conns : Live(c)' = Live(c)
  BY DEF Live
<1>2. \A c \in Conns : InFlight(c)' = InFlight(c)
  BY DEF InFlight
<1>3. FollowTypes'
  BY DEF FollowInv, FollowTypes
<1>4. FlowInv'
  <2>1. subscribed \subseteq Conns
    BY DEF BrokerType
  <2> QED BY <1>1, <1>2, <2>1 DEF FollowInv, FlowInv
<1>5. CutInv'
  <2>1. \A c \in Conns : Told(c)' = Told(c)
    BY <1>1 DEF Told
  <2> QED BY <2>1 DEF FollowInv, CutInv
<1>6. ValueInv'
  <2> SUFFICES ASSUME NEW c \in subscribed', NEW t \in topics[c] \cap DOMAIN retained'
               PROVE  Had(c, t)' \/ Coming(c, t)'
    BY DEF ValueInv
  <2>1. c \in subscribed /\ c \in Conns /\ t \in DOMAIN retained /\ retained'[t] = retained[t]
    BY DEF BrokerType
  <2>2. CASE Had(c, t)
    BY <2>1, <2>2 DEF Had
  <2>3. CASE Coming(c, t)
    BY <2>1, <2>3 DEF Coming
  <2> QED BY <2>1, <2>2, <2>3 DEF FollowInv, ValueInv
<1> QED BY <1>3, <1>4, <1>5, <1>6 DEF FollowInv

(* Deliver: the event that was missing has arrived.                        *)
LEMMA DeliverKeeps ==
  ASSUME BrokerInv, FollowInv, NEW p \in Publishers, NEW c \in Conns, Deliver(p, c)
  PROVE  FollowInv'
<1> DEFINE e == sending[p].event
<1> USE DEF BrokerInv
<1>1. /\ c \in sending[p].todo /\ c \in subscribed /\ e \in EventSet
      /\ events' = [events EXCEPT ![c] = Append(@, e)]
      /\ sending' = [sending EXCEPT ![p].todo = @ \ {c}]
      /\ UNCHANGED <<got, replayed, owed, topics, retained, conn, shut, closed, subscribed>>
  BY DEF Deliver, LockInv, BrokerType
<1>2. /\ \A q \in Publishers : sending'[q].event = sending[q].event
      /\ \A q \in Publishers \ {p} : sending'[q] = sending[q] /\ sending[q].todo = {}
      /\ sending'[p].todo = sending[p].todo \ {c}
  <2>1. sending[p] # Idle
    BY <1>1, IdleFacts
  <2>2. \A q \in Publishers \ {p} : sending[q] = Idle
    BY <2>1 DEF LockInv
  <2> QED BY <1>1, <2>2, IdleFacts DEF BrokerType
<1>3. /\ Stream(c)' = Append(Stream(c), e) /\ Live(c)' = Append(Live(c), e)
      /\ Len(Stream(c)') = Len(Stream(c)) + 1
      /\ \A d \in Conns \ {c} : Stream(d)' = Stream(d) /\ Live(d)' = Live(d)
  BY <1>1, StreamSent DEF FollowInv
<1> HIDE DEF e
<1>4. FollowTypes'
  <2>1. ASSUME NEW d \in Conns PROVE replayed[d] <= Len(Stream(d)')
    <3>1. /\ replayed[d] \in Nat /\ replayed[d] <= Len(Stream(d))
          /\ Stream(d) \in Seq(EventSet)
      BY StreamType DEF FollowInv
    <3>2. Len(Stream(d)) \in Nat
      BY <3>1
    <3>3. Len(Stream(d)') \in {Len(Stream(d)), Len(Stream(d)) + 1}
      BY <1>3
    <3> QED BY <3>1, <3>2, <3>3
  <2> QED BY <1>1, <2>1 DEF FollowInv, FollowTypes
<1>5. FlowInv'
  <2> SUFFICES ASSUME NEW d \in subscribed
               PROVE  /\ \A q \in Publishers :
                           d \in sending'[q].todo => owed[d] = Append(Live(d)', sending'[q].event)
                      /\ ~InFlight(d)' => owed[d] = Live(d)'
    BY <1>1 DEF FlowInv
  <2>1. CASE d = c
    <3>1. owed[c] = Append(Live(c), e)
      BY <1>1 DEF FollowInv, FlowInv, e
    <3>2. \A q \in Publishers : c \notin sending'[q].todo
      BY <1>2
    <3> QED BY <1>3, <2>1, <3>1, <3>2
  <2>2. CASE d # c
    <3>1. d \in Conns /\ Live(d)' = Live(d)
      BY <1>3, <2>2 DEF BrokerType
    <3>2. \A q \in Publishers : d \in sending'[q].todo <=> d \in sending[q].todo
      BY <1>2, <2>2
    <3>3. InFlight(d)' <=> InFlight(d)
      BY <3>2 DEF InFlight
    <3> QED BY <1>2, <3>1, <3>2, <3>3 DEF FollowInv, FlowInv
  <2> QED BY <2>1, <2>2
<1>6. CutInv'
  <2>1. c \notin shut
    BY <1>1 DEF OpenInv
  <2>2. \A d \in Conns \ {c} : Told(d)' = Told(d)
    BY <1>1, <1>3 DEF Told
  <2> QED BY <1>1, <2>1, <2>2 DEF FollowInv, CutInv
<1>7. ValueInv'
  <2> SUFFICES ASSUME NEW d \in subscribed, NEW t \in topics[d] \cap DOMAIN retained
               PROVE  Had(d, t)' \/ Coming(d, t)'
    BY <1>1 DEF ValueInv
  <2>0. d \in Conns /\ (Had(d, t) \/ Coming(d, t))
    BY DEF BrokerType, FollowInv, ValueInv
  <2>1. CASE d # c
    <3>1. Had(d, t) => Had(d, t)'
      BY <1>1, <1>3, <2>0, <2>1 DEF Had
    <3>2. Coming(d, t) => Coming(d, t)'
      BY <1>1, <1>2, <2>1 DEF Coming
    <3> QED BY <2>0, <3>1, <3>2
  <2>2. CASE d = c /\ Had(c, t)
    <3>1. PICK i \in 1 .. Len(Stream(c)) :
            Stream(c)[i].topic = t /\ Stream(c)[i].seq = retained[t].seq
      BY <2>2 DEF Had
    <3>2. i \in 1 .. Len(Stream(c)') /\ Stream(c)'[i] = Stream(c)[i]
      BY <1>1, <1>3, StreamType, AppendProperties DEF FollowInv, e
    <3> QED BY <1>1, <2>2, <3>1, <3>2 DEF Had
  <2>3. CASE d = c /\ Coming(c, t)
    <3>1. e.topic = t /\ e.seq = retained[t].seq
      BY <1>2, <2>3 DEF Coming, e
    <3>2. Len(Stream(c)') \in 1 .. Len(Stream(c)') /\ Stream(c)'[Len(Stream(c)')] = e
      BY <1>1, <1>3, StreamType, AppendProperties DEF FollowInv, e
    <3> QED BY <1>1, <2>3, <3>1, <3>2 DEF Had
  <2> QED BY <2>0, <2>1, <2>2, <2>3
<1> QED BY <1>4, <1>5, <1>6, <1>7 DEF FollowInv

(* SendOverflow: the subscriber is given up, and told.                     *)
LEMMA OverflowKeeps ==
  ASSUME BrokerInv, FollowInv, NEW p \in Publishers, SendOverflow(p)
  PROVE  FollowInv'
<1> USE DEF BrokerInv
<1>0. PICK c \in Conns, e \in EventSet :
        c = sending[p].overflowing /\ e = Event(Overflow, nextEvent, FALSE)
  BY DEF SendOverflow, BrokerType, Event, EventSet, Overflow
<1>1. /\ c \in sending[p].todo /\ c \in subscribed
      /\ e.topic = Overflow
      /\ events' = [events EXCEPT ![c] = Append(@, e)]
      /\ sending' = [sending EXCEPT ![p].overflowing = Nobody, ![p].todo = @ \ {c}]
      /\ subscribed' = subscribed \ {c} /\ shut' = shut \cup {c}
      /\ UNCHANGED <<got, replayed, owed, topics, retained, conn, closed>>
  BY <1>0 DEF SendOverflow, LockInv, BrokerType, Event
<1>2. /\ \A q \in Publishers : sending'[q].event = sending[q].event
      /\ \A q \in Publishers : \A d \in Conns \ {c} : d \in sending'[q].todo <=> d \in sending[q].todo
  BY <1>1 DEF BrokerType
<1>3. /\ Stream(c)' = Append(Stream(c), e) /\ Live(c)' = Append(Live(c), e)
      /\ Len(Stream(c)') = Len(Stream(c)) + 1
      /\ \A d \in Conns \ {c} : Stream(d)' = Stream(d) /\ Live(d)' = Live(d)
  BY <1>1, StreamSent DEF FollowInv
<1>4. owed[c] = Append(Live(c), sending[p].event)
  BY <1>1 DEF FollowInv, FlowInv
<1>5. FollowTypes'
  <2>1. \A d \in Conns : replayed[d] <= Len(Stream(d)')
    <3>1. \A d \in Conns : /\ Len(Stream(d)) \in Nat /\ replayed[d] \in Nat
                            /\ replayed[d] <= Len(Stream(d))
      BY StreamType DEF FollowInv
    <3>2. \A d \in Conns \ {c} : Len(Stream(d)') = Len(Stream(d))
      BY <1>3
    <3> QED BY <1>3, <3>1, <3>2
  <2> QED BY <1>1, <2>1 DEF FollowInv, FollowTypes
<1>6. FlowInv'
  <2> SUFFICES ASSUME NEW d \in subscribed \ {c}
               PROVE  /\ \A q \in Publishers :
                           d \in sending'[q].todo => owed[d] = Append(Live(d)', sending'[q].event)
                      /\ ~InFlight(d)' => owed[d] = Live(d)'
    BY <1>1 DEF FlowInv
  <2>1. d \in Conns /\ Live(d)' = Live(d)
    BY <1>3 DEF BrokerType
  <2>2. InFlight(d)' <=> InFlight(d)
    BY <1>2, <2>1 DEF InFlight
  <2> QED BY <1>2, <2>1, <2>2 DEF FollowInv, FlowInv
<1>7. CutInv'
  <2>1. Told(c)'
    <3>1. AllButLast(Live(c)') = Live(c)
      BY <1>1, <1>3, StreamType, ButLast DEF FollowInv
    <3>2. PrefixOf(AllButLast(Live(c)'), owed[c])
      <4>1. Live(c) \in Seq(EventSet) /\ sending[p].event \in EventSet
        BY <1>1, StreamType DEF FollowInv, BrokerType
      <4> QED BY <1>4, <3>1, <4>1, PrefixOfAppend
    <3>3. Stream(c)' # <<>> /\ Stream(c)'[Len(Stream(c)')] = e
      BY <1>1, <1>3, StreamType, AppendProperties DEF FollowInv
    <3> QED BY <1>1, <3>2, <3>3 DEF Told
  <2>2. \A d \in Conns \ {c} : Told(d)' = Told(d)
    BY <1>1, <1>3 DEF Told
  <2> QED BY <1>1, <2>1, <2>2 DEF FollowInv, CutInv
<1>8. ValueInv'
  <2> SUFFICES ASSUME NEW d \in subscribed \ {c}, NEW t \in topics[d] \cap DOMAIN retained
               PROVE  Had(d, t)' \/ Coming(d, t)'
    BY <1>1 DEF ValueInv
  <2>1. d \in Conns /\ (Had(d, t) \/ Coming(d, t))
    BY DEF BrokerType, FollowInv, ValueInv
  <2>2. Had(d, t) => Had(d, t)'
    BY <1>1, <1>3, <2>1 DEF Had
  <2>3. Coming(d, t) => Coming(d, t)'
    BY <1>1, <1>2, <2>1 DEF Coming
  <2> QED BY <2>1, <2>2, <2>3
<1> QED BY <1>5, <1>6, <1>7, <1>8 DEF FollowInv

(* Publish: whoever subscribed to the topic is owed the event, and it is   *)
(* on its way to them.                                                     *)
LEMMA OwesKeeps ==
  ASSUME BrokerInv, FollowInv, NEW p \in Publishers, NEW t \in Topics, NEW retain \in BOOLEAN,
         Publish(p, t, retain)
  PROVE  FollowInv'
<1> DEFINE e == Event(t, nextEvent + 1, FALSE)
<1> USE DEF BrokerInv
<1>1. /\ e \in EventSet /\ e.topic = t
      /\ sending'[p].event = e /\ sending'[p].todo = {c \in subscribed : t \in topics[c]}
      /\ owed' = [c \in Conns |-> IF t \in topics[c] THEN Append(owed[c], e) ELSE owed[c]]
      /\ retained' = IF retain THEN Retaining(e) ELSE retained
      /\ UNCHANGED <<got, events, replayed, topics, conn, closed, shut, subscribed>>
  BY TopicsAssumption DEF Publish, BrokerType, Event, EventSet
<1>2. /\ \A q \in Publishers : sending[q] = Idle /\ sending[q].todo = {}
      /\ \A q \in Publishers \ {p} : sending'[q] = sending[q]
  BY NobodySends, IdleFacts DEF Publish, BrokerType
<1>3. \A c \in Conns : Stream(c)' = Stream(c) /\ Live(c)' = Live(c)
  BY <1>1 DEF Stream, Live
<1> HIDE DEF e
<1>4. FollowTypes'
  <2>1. \A c \in Conns : owed[c] \in Seq(EventSet) /\ Append(owed[c], e) \in Seq(EventSet)
    BY <1>1, StreamType, AppendProperties DEF FollowInv
  <2>2. owed' \in [Conns -> Seq(EventSet)]
    BY <1>1, <2>1
  <2>3. \A u \in DOMAIN retained' : retained'[u].topic = u
    BY <1>1 DEF Retaining, FollowInv, FollowTypes
  <2>4. \A c \in Conns : conn[c] = "new" => owed'[c] = <<>>
    BY <1>1 DEF FollowInv, FollowTypes
  <2> QED BY <1>1, <1>3, <2>2, <2>3, <2>4 DEF FollowInv, FollowTypes
<1>5. FlowInv'
  <2> SUFFICES ASSUME NEW c \in subscribed
               PROVE  /\ \A q \in Publishers :
                           c \in sending'[q].todo => owed'[c] = Append(Live(c)', sending'[q].event)
                      /\ ~InFlight(c)' => owed'[c] = Live(c)'
    BY <1>1 DEF FlowInv
  <2>1. c \in Conns /\ owed[c] = Live(c)
    BY <1>2 DEF FollowInv, FlowInv, InFlight, BrokerType
  <2>2. \A q \in Publishers : c \in sending'[q].todo => q = p /\ t \in topics[c]
    BY <1>1, <1>2
  <2>3. t \in topics[c] => InFlight(c)'
    BY <1>1 DEF InFlight
  <2>4. Live(c)' = Live(c)
    BY <1>3, <2>1
  <2> QED BY <1>1, <2>1, <2>2, <2>3, <2>4
<1>6. CutInv'
  <2> SUFFICES ASSUME NEW c \in Conns, Told(c)
               PROVE  Told(c)'
    BY <1>1 DEF FollowInv, CutInv
  <2>1. owed[c] \in Seq(EventSet) /\ AllButLast(Live(c)) \in Seq(EventSet)
    <3>1. Live(c) \in Seq(EventSet) /\ owed[c] \in Seq(EventSet)
      BY StreamType DEF FollowInv
    <3>2. \A i \in 1 .. Len(Live(c)) - 1 : Live(c)[i] \in EventSet
      BY <3>1
    <3> QED BY <3>1, <3>2, SubSeqProperties DEF AllButLast
  <2>2. PrefixOf(AllButLast(Live(c)), owed[c])
    BY DEF Told
  <2>3. PrefixOf(AllButLast(Live(c)), Append(owed[c], e))
    BY <1>1, <2>1, <2>2, PrefixKept
  <2>4. owed'[c] = owed[c] \/ owed'[c] = Append(owed[c], e)
    BY <1>1
  <2>5. PrefixOf(AllButLast(Live(c)), owed'[c])
    BY <2>2, <2>3, <2>4
  <2> QED BY <1>3, <2>5 DEF Told
<1>7. ValueInv'
  <2> SUFFICES ASSUME NEW c \in subscribed, NEW u \in topics[c] \cap DOMAIN retained'
               PROVE  Had(c, u)' \/ Coming(c, u)'
    BY <1>1 DEF ValueInv
  <2>1. CASE retain /\ u = t
    <3>1. retained'[t] = e
      BY <1>1, <2>1 DEF Retaining
    <3>2. c \in sending'[p].todo
      BY <1>1, <2>1
    <3> QED BY <1>1, <2>1, <3>1, <3>2 DEF Coming
  <2>2. CASE ~(retain /\ u = t)
    <3>1. u \in DOMAIN retained /\ retained'[u] = retained[u]
      BY <1>1, <2>2 DEF Retaining
    <3>2. Had(c, u)
      BY <1>2, <3>1 DEF FollowInv, ValueInv, Coming
    <3> QED BY <1>3, <3>1, <3>2 DEF Had, BrokerType
  <2> QED BY <2>1, <2>2
<1> QED BY <1>4, <1>5, <1>6, <1>7 DEF FollowInv

(* Subscribe: the replay has the value of each topic, and nothing is owed  *)
(* yet.                                                                    *)
LEMMA SubscribeKeeps ==
  ASSUME BrokerInv, FollowInv, NEW c \in Conns, NEW ts \in SUBSET Topics, Subscribe(c, ts)
  PROVE  FollowInv'
<1> USE DEF BrokerInv
<1>1. PICK replay \in Replay(ts) :
        events' = [events EXCEPT ![c] = replay] /\ replayed' = [replayed EXCEPT ![c] = Len(replay)]
  BY DEF Subscribe
<1>2. /\ conn[c] = "new" /\ mu = Free
      /\ subscribed' = subscribed \cup {c} /\ topics' = [topics EXCEPT ![c] = ts]
      /\ conn' = [conn EXCEPT ![c] = "streaming"]
      /\ UNCHANGED <<retained, shut, closed, got, sending, owed>>
  BY DEF Subscribe
<1>3. replay \in Seq(EventSet)
  BY ReplaySize DEF BrokerType
<1>4. \A q \in Publishers : sending[q].todo = {}
  BY <1>2, NobodySends, IdleFacts
<1>5. got[c] = <<>> /\ owed[c] = <<>> /\ c \notin shut
  BY <1>2 DEF FollowInv, FollowTypes, OpenInv
<1>6. Stream(c)' = replay /\ replayed'[c] = Len(replay) /\ topics'[c] = ts
  <2>1. /\ Stream(c)' = <<>> \o replay /\ replayed'[c] = Len(replay) /\ topics'[c] = ts
    BY <1>1, <1>2, <1>5 DEF Stream, FollowInv, FollowTypes, BrokerType
  <2> QED BY <1>3, <2>1, ConcatEmptySeq
<1>7. Live(c)' = <<>>
  <2>1. Live(c)' = SubSeq(replay, Len(replay) + 1, Len(replay))
    BY <1>6 DEF Live
  <2>2. Len(replay) \in Nat
    BY <1>3
  <2> QED BY <2>1, <2>2, SubSeqEmpty
<1>8. \A d \in Conns \ {c} : /\ Stream(d)' = Stream(d) /\ Live(d)' = Live(d)
                            /\ replayed'[d] = replayed[d] /\ conn'[d] = conn[d]
                            /\ topics'[d] = topics[d]
  BY <1>1, <1>2 DEF Stream, Live, FollowInv, FollowTypes, BrokerType
<1>9. conn'[c] = "streaming"
  BY <1>2 DEF BrokerType
<1>10. FollowTypes'
  <2>1. replayed' \in [Conns -> Nat]
    BY <1>1, <1>3 DEF FollowInv, FollowTypes
  <2>2. \A d \in Conns : replayed'[d] <= Len(Stream(d)')
    BY <1>3, <1>6, <1>8 DEF FollowInv, FollowTypes
  <2> QED BY <1>2, <1>8, <1>9, <2>1, <2>2 DEF FollowInv, FollowTypes
<1>11. FlowInv'
  <2> SUFFICES ASSUME NEW d \in subscribed \cup {c}
               PROVE  owed[d] = Live(d)'
    BY <1>2, <1>4 DEF FlowInv
  <2>1. CASE d = c
    BY <1>5, <1>7, <2>1
  <2>2. CASE d # c
    BY <1>4, <1>8, <2>2 DEF FollowInv, FlowInv, InFlight, BrokerType
  <2> QED BY <2>1, <2>2
<1>12. CutInv'
  <2>1. \A d \in Conns \ {c} : Told(d)' = Told(d)
    BY <1>2, <1>8 DEF Told
  <2> QED BY <1>2, <1>5, <1>8, <2>1 DEF FollowInv, CutInv
<1>13. ValueInv'
  <2> SUFFICES ASSUME NEW d \in subscribed \cup {c}, NEW t \in topics'[d] \cap DOMAIN retained
               PROVE  Had(d, t)'
    BY <1>2 DEF ValueInv
  <2>1. CASE d = c
    <3>1. t \in ts \cap DOMAIN retained
      BY <1>6, <2>1
    <3>2. PICK i \in 1 .. Len(replay) :
            replay[i].topic = retained[t].topic /\ replay[i].seq = retained[t].seq
      BY <3>1, ReplayComplete DEF BrokerType
    <3>3. retained[t].topic = t
      BY <3>1 DEF FollowInv, FollowTypes
    <3> QED BY <1>2, <1>6, <2>1, <3>2, <3>3 DEF Had
  <2>2. CASE d # c
    <3>1. d \in subscribed /\ d \in Conns \ {c} /\ t \in topics[d] \cap DOMAIN retained
      BY <1>8, <2>2 DEF BrokerType
    <3>2. Had(d, t)
      BY <1>4, <3>1 DEF FollowInv, ValueInv, Coming
    <3> QED BY <1>2, <1>8, <3>1, <3>2 DEF Had
  <2> QED BY <2>1, <2>2
<1> QED BY <1>10, <1>11, <1>12, <1>13 DEF FollowInv

(* Every step keeps what subscribers follow.                               *)
LEMMA FollowKept ==
  ASSUME BrokerInv, FollowInv, [Next]_vars
  PROVE  FollowInv'
<1> USE DEF BrokerInv
<1>1. CASE UNCHANGED vars
  BY <1>1, QuietKeeps DEF vars, Stream, FollowInv, FollowTypes, BrokerType
<1>2. ASSUME NEW p \in Publishers, NEW c \in Conns, FindFull(p, c)
      PROVE  FollowInv'
  <2>1. \A q \in Publishers : /\ sending'[q].todo = sending[q].todo
                              /\ sending'[q].event = sending[q].event
    BY <1>2 DEF FindFull, BrokerType
  <2> QED BY <1>2, <2>1, QuietKeeps DEF FindFull, Stream, FollowInv, FollowTypes, BrokerType
<1>3. ASSUME NEW p \in Publishers, EndPublish(p)
      PROVE  FollowInv'
  <2>1. \A q \in Publishers : /\ sending'[q].todo = sending[q].todo
                              /\ sending[q].todo # {} => sending'[q].event = sending[q].event
    BY <1>3, IdleFacts DEF EndPublish, BrokerType
  <2> QED BY <1>3, <2>1, QuietKeeps DEF EndPublish, Stream, FollowInv, FollowTypes, BrokerType
<1>4. ASSUME NEW c \in Conns, Receive(c)
      PROVE  FollowInv'
  <2>1. /\ got' = [got EXCEPT ![c] = Append(@, Head(events[c]))] /\ events[c] # <<>>
        /\ events' = [events EXCEPT ![c] = Tail(@)] /\ conn[c] = "streaming"
        /\ UNCHANGED <<owed, replayed, topics, subscribed, sending, retained, conn, shut, closed>>
    BY <1>4 DEF Receive
  <2>2. got[c] \in Seq(EventSet) /\ events[c] \in Seq(EventSet)
    BY DEF FollowInv, FollowTypes, BrokerType
  <2>3. got' \in [Conns -> Seq(EventSet)]
    <3>1. Append(got[c], Head(events[c])) \in Seq(EventSet)
      BY <2>1, <2>2, HeadTailProperties, AppendProperties
    <3> QED BY <2>1, <3>1 DEF FollowInv, FollowTypes
  <2>4. \A d \in Conns : Stream(d)' = Stream(d)
    <3> SUFFICES ASSUME NEW d \in Conns
                 PROVE  Stream(d)' = Stream(d)
      OBVIOUS
    <3>1. CASE d # c
      BY <2>1, <3>1 DEF Stream, FollowInv, FollowTypes, BrokerType
    <3>2. CASE d = c
      <4> DEFINE s == got[c]  u == events[c]
      <4>1. s \in Seq(EventSet) /\ u \in Seq(EventSet) /\ u # <<>>
        BY <2>1, <2>2
      <4>2. Stream(c)' = Append(s, Head(u)) \o Tail(u)
        BY <2>1 DEF Stream, FollowInv, FollowTypes, BrokerType
      <4> HIDE DEF s, u
      <4>3. Append(s, Head(u)) \o Tail(u) = s \o u
        BY <4>1, ReadKeepsStream
      <4> QED BY <3>2, <4>2, <4>3 DEF Stream, s, u
    <3> QED BY <3>1, <3>2
  <2>5. \A d \in Conns : conn'[d] = "new" => got'[d] = got[d]
    BY <2>1 DEF FollowInv, FollowTypes
  <2> QED BY <2>1, <2>3, <2>4, <2>5, QuietKeeps DEF FollowInv, BrokerType
<1>5. ASSUME NEW c \in Conns, SeeClosed(c) \/ Leave(c) \/ Unsubscribe(c)
      PROVE  FollowInv'
  <2>1. /\ \A d \in Conns : conn'[d] \in {"new", "streaming"} =>
                            conn'[d] = conn[d] /\ (d \in shut' => d \in shut)
        /\ UNCHANGED <<owed, replayed, topics, got, events, sending, retained, closed>>
        /\ subscribed' \subseteq subscribed
    BY <1>5 DEF SeeClosed, Leave, Unsubscribe, BrokerType
  <2> QED BY <2>1, QuietKeeps DEF Stream, FollowInv, FollowTypes, BrokerType
<1>6. CASE ClearPrefix \/ CloseBroker
  <2>1. /\ DOMAIN retained' \subseteq DOMAIN retained
        /\ \A t \in DOMAIN retained' : retained'[t] = retained[t]
    BY <1>6 DEF ClearPrefix, CloseBroker
  <2>2. /\ UNCHANGED <<owed, replayed, topics, got, events, sending, conn>>
        /\ subscribed' \subseteq subscribed /\ (~closed' => closed' = closed /\ shut' = shut)
    BY <1>6 DEF ClearPrefix, CloseBroker
  <2> QED BY <2>1, <2>2, QuietKeeps DEF Stream, FollowInv, FollowTypes, BrokerType
<1>7. ASSUME NEW p \in Publishers, Sends(p)
      PROVE  FollowInv'
  BY <1>2, <1>3, <1>7, DeliverKeeps, OverflowKeeps DEF Sends
<1> QED BY <1>1, <1>4, <1>5, <1>6, <1>7, OwesKeeps, SubscribeKeeps DEF Next

(* At first nobody has subscribed.                                         *)
LEMMA FollowInit ==
  ASSUME Init
  PROVE  FollowInv
<1>1. FollowTypes
  <2>1. \A c \in Conns : Stream(c) = <<>>
    BY ConcatEmptySeq DEF Init, Stream
  <2> QED BY <2>1 DEF Init, FollowTypes
<1>2. FlowInv /\ CutInv /\ ValueInv
  BY DEF Init, FlowInv, CutInv, ValueInv
<1> QED BY <1>1, <1>2 DEF FollowInv

(* What is owed to a subscription, and what a subscriber reads.            *)
LEMMA FollowMeans ==
  ASSUME BrokerInv, FollowInv
  PROVE  SubscribersFollow
<1> USE DEF BrokerInv
<1>1. StreamComplete
  <2> SUFFICES ASSUME NEW c \in subscribed
               PROVE  Live(c) = IF InFlight(c) THEN AllButLast(owed[c]) ELSE owed[c]
    BY DEF StreamComplete
  <2>1. CASE InFlight(c)
    <3>1. PICK p \in Publishers : c \in sending[p].todo
      BY <2>1 DEF InFlight
    <3>2. owed[c] = Append(Live(c), sending[p].event)
      BY <3>1 DEF FollowInv, FlowInv
    <3>3. Live(c) \in Seq(EventSet) /\ sending[p].event \in EventSet
      BY StreamType DEF FollowInv, BrokerType
    <3> QED BY <2>1, <3>2, <3>3, ButLast
  <2>2. CASE ~InFlight(c)
    BY <2>2 DEF FollowInv, FlowInv
  <2> QED BY <2>1, <2>2
<1>2. LossIsAnnounced
  BY DEF FollowInv, CutInv, Told, LossIsAnnounced
<1>3. UpToDate
  <2> SUFFICES ASSUME NEW c \in subscribed, events[c] = <<>>, ~InFlight(c),
                      NEW t \in topics[c] \cap DOMAIN retained
               PROVE  \E i \in DOMAIN got[c] :
                        got[c][i].topic = t /\ got[c][i].seq = retained[t].seq
    BY DEF UpToDate
  <2>1. Had(c, t)
    BY DEF FollowInv, ValueInv, Coming, InFlight
  <2>2. got[c] \in Seq(EventSet) /\ Stream(c) = got[c]
    BY ConcatEmptySeq DEF Stream, FollowInv, FollowTypes, BrokerType
  <2> QED BY <2>1, <2>2 DEF Had
<1> QED BY <1>1, <1>2, <1>3 DEF SubscribersFollow

(* For any number of topics, publishers and connections, and any sizes: a  *)
(* subscriber starts from the values of its topics, misses nothing that is *)
(* published and gets it once and in order, or learns that it has missed   *)
(* something (Publish, Subscribe, streamSubscription).                     *)
THEOREM SubscribersSound == Spec => []SubscribersFollow
<1>1. Init => BrokerInv /\ FollowInv
  BY BrokerInit, FollowInit
<1>2. BrokerInv /\ FollowInv /\ [Next]_vars => (BrokerInv /\ FollowInv)'
  BY BrokerStep, FollowKept
<1>3. BrokerInv /\ FollowInv => SubscribersFollow
  BY FollowMeans
<1> QED BY <1>1, <1>2, <1>3, PTL DEF Spec

-----------------------------------------------------------------------------
(* The path of the socket: the programs that share it (IpcServer)          *)

(* Every step keeps what it is that keeps a serving program reachable.     *)
LEMMA PathStep ==
  ASSUME None \notin Programs, Garbled \notin Programs, Path!PathInv, [Path!Next]_pathVars
  PROVE  Path!PathInv'
<1> USE DEF Path!PathInv, Path!TypeOK, Path!Steps, Path!Starting, Path!Accepting, Path!Closing,
        Path!Goes, Path!Keeps, Path!KeepsFiles, Path!AloneInv, Path!PidInv, Path!SockInv,
        Path!ClearInv, Path!Holding, Path!Cleaning
<1>1. ASSUME NEW p \in Programs, Path!CheckNotRunning(p) PROVE Path!PathInv'
  BY <1>1 DEF Path!CheckNotRunning, Path!Answers
<1>2. ASSUME NEW p \in Programs, Path!Probe(p) PROVE Path!PathInv'
  <2>1. CASE Path!Answers
    <3>1. step' = [step EXCEPT ![p] = "refused"] /\ UNCHANGED <<sock, pidFile, overlapped>>
      BY <1>2, <2>1 DEF Path!Probe
    <3> QED BY <3>1
  <2>2. CASE ~Path!Answers /\ \E q \in Programs : step[q] \in Path!Starting
    <3>1. /\ step' = [step EXCEPT ![p] = "probed"] /\ UNCHANGED <<sock, pidFile>>
          /\ overlapped' = TRUE
      BY <1>2, <2>2 DEF Path!Probe
    <3> QED BY <3>1
  <2>3. CASE ~Path!Answers /\ ~\E q \in Programs : step[q] \in Path!Starting
    <3>1. /\ step[p] = "checked" /\ step' = [step EXCEPT ![p] = "probed"]
          /\ UNCHANGED <<sock, pidFile>> /\ (overlapped' <=> overlapped)
      BY <1>2, <2>3 DEF Path!Probe
    <3>2. overlapped \/ \A q \in Programs : step[q] \notin {"serving", "done"}
      BY <2>3 DEF Path!Answers
    <3> QED BY <2>3, <3>1, <3>2
  <2> QED BY <2>1, <2>2, <2>3
<1>3. ASSUME NEW p \in Programs, Path!ReadPid(p) PROVE Path!PathInv'
  <2>1. /\ step[p] = "probed" /\ UNCHANGED <<sock, pidFile, overlapped>>
        /\ \/ step' = [step EXCEPT ![p] = "blocked"]
           \/ /\ \/ pidFile \notin Programs
                 \/ step[pidFile] \in {"gone", "dead"}
              /\ step' = [step EXCEPT ![p] = "stale"] \/ step' = [step EXCEPT ![p] = "orphan"]
    <3>1. CASE pidFile \in Programs
      <4>1. PICK alive \in Path!ProcessAlive(pidFile) :
              Path!Goes(p, "probed", IF alive THEN "blocked" ELSE "stale")
        BY <1>3, <3>1 DEF Path!ReadPid
      <4>2. step[pidFile] \in {"gone", "dead"} \/ alive = TRUE
        BY <4>1 DEF Path!ProcessAlive
      <4> QED BY <1>3, <4>1, <4>2 DEF Path!ReadPid
    <3>2. CASE pidFile \notin Programs
      BY <1>3, <3>2 DEF Path!ReadPid
    <3> QED BY <3>1, <3>2
  <2>2. (pidFile \notin Programs \/ step[pidFile] \in {"gone", "dead"}) /\ Path!PidInv =>
          \A q \in Programs : step[q] \notin Path!Holding
    OBVIOUS
  <2> QED BY <2>1, <2>2
<1>4. ASSUME NEW p \in Programs, Path!RemoveStalePid(p) PROVE Path!PathInv'
  BY <1>4 DEF Path!RemoveStalePid
<1>5. ASSUME NEW p \in Programs, Path!RemoveStaleSocket(p) PROVE Path!PathInv'
  BY <1>5 DEF Path!RemoveStaleSocket
<1>6. ASSUME NEW p \in Programs, Path!ListenSocket(p) PROVE Path!PathInv'
  BY <1>6 DEF Path!ListenSocket
<1>7. ASSUME NEW p \in Programs, Path!Chmod(p) PROVE Path!PathInv'
  BY <1>7 DEF Path!Chmod
<1>8. ASSUME NEW p \in Programs, Path!CreatePid(p) PROVE Path!PathInv'
  BY <1>8 DEF Path!CreatePid
<1>9. ASSUME NEW p \in Programs, Path!WritePid(p) PROVE Path!PathInv'
  BY <1>9 DEF Path!WritePid
<1>10. ASSUME NEW p \in Programs, Path!Undo(p) PROVE Path!PathInv'
  BY <1>10 DEF Path!Undo
<1>11. ASSUME NEW p \in Programs, Path!CloseDone(p) PROVE Path!PathInv'
  BY <1>11 DEF Path!CloseDone
<1>12. ASSUME NEW p \in Programs, Path!CloseListener(p) PROVE Path!PathInv'
  BY <1>12 DEF Path!CloseListener
<1>13. ASSUME NEW p \in Programs, Path!CloseConns(p) PROVE Path!PathInv'
  BY <1>13 DEF Path!CloseConns
<1>14. ASSUME NEW p \in Programs, Path!Wait(p) PROVE Path!PathInv'
  BY <1>14 DEF Path!Wait
<1>15. ASSUME NEW p \in Programs, Path!RemoveFiles(p) PROVE Path!PathInv'
  BY <1>15 DEF Path!RemoveFiles
<1>16. ASSUME NEW p \in Programs, Path!Kill(p) PROVE Path!PathInv'
  BY <1>16 DEF Path!Kill
<1>17. CASE UNCHANGED <<step, sock, pidFile, overlapped>>
  BY <1>17
<1>18. ASSUME NEW k \in Peers,
               (\E p \in Programs : Path!Accept(k, p)) \/ Path!Handle(k) \/ Path!PeerEnds(k)
        PROVE  UNCHANGED <<step, sock, pidFile, overlapped>>
  BY <1>18 DEF Path!Accept, Path!Handle, Path!AddConn, Path!SeeCut, Path!PeerEnds
<1> QED
  BY <1>1, <1>2, <1>3, <1>4, <1>5, <1>6, <1>7, <1>8, <1>9, <1>10, <1>11, <1>12,
     <1>13, <1>14, <1>15, <1>16, <1>17, <1>18 DEF Path!Next, Path!Start, Path!Close, pathVars

(* For any number of programs and connections: unless two starts run at    *)
(* once, a program that serves stays the one that the path and the PID     *)
(* file name, whoever starts, closes or is killed (cleanStaleSocket,       *)
(* Server.Close).                                                          *)
THEOREM ServersStay ==
  ASSUME None \notin Programs, Garbled \notin Programs
  PROVE  BothSpec => []ServersReachable
<1>1. BothInit => Path!PathInv
  BY DEF BothInit, Path!Init, Path!PathInv, Path!TypeOK, Path!Steps, Path!AloneInv, Path!PidInv,
     Path!SockInv, Path!ClearInv, Path!Starting, Path!Closing, Path!Holding, Path!Cleaning
<1>2. [BothNext]_allVars => [Path!Next]_pathVars
  BY DEF BothNext, OfBroker, OfPath, allVars, pathVars
<1>3. Path!PathInv /\ [Path!Next]_pathVars => Path!PathInv'
  BY PathStep
<1>4. Path!PathInv => ServersReachable
  BY DEF Path!PathInv, ServersReachable, Path!ServersReachable, Path!Reachable, Path!PidInv,
     Path!SockInv, Path!Holding
<1> QED BY <1>1, <1>2, <1>3, <1>4, PTL DEF BothSpec

=============================================================================
