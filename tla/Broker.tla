------------------------------- MODULE Broker -------------------------------
(***************************************************************************)
(* The event broker of the IPC server, ipc/pubsub.go, and the goroutine    *)
(* of one subscribed connection, streamSubscription in ipc/server.go.      *)
(*                                                                         *)
(* Publish and Subscribe run under b.mu.  Publish sends on the bounded     *)
(* channel of each subscriber while it holds b.mu, so a send is a step of  *)
(* its own here: it waits while the channel is full.  A connection reads   *)
(* its channel without b.mu and takes b.mu only to unsubscribe.            *)
(***************************************************************************)
EXTENDS Naturals, Sequences, FiniteSets

CONSTANTS
  Topics,         \* the valid topics; numbers, so that replay has an order
  PluginTopics,   \* those under the namespace of the plugin
  Publishers,     \* goroutines that publish: the update loop, plugins, jobs
  Conns,          \* connections, each with one subscription
  Slots,          \* subscriberBufferSize
  MaxTopics,      \* maxTopicsPerSubscription
  MaxRetained,    \* maxRetainedTopics
  MaxEvents,      \* bound on the sequence numbers of a behaviour
  Free            \* the holder of b.mu when nobody holds it

ASSUME TopicsAssumption == Topics \subseteq Nat \ {0} /\ PluginTopics \subseteq Topics
ASSUME SizesAssumption ==
  /\ Slots \in Nat \ {0}
  /\ MaxTopics \in Nat /\ MaxTopics <= Slots
  /\ MaxRetained \in Nat /\ MaxEvents \in Nat
ASSUME FreeAssumption == Free \notin Publishers

Nobody == "none"
ASSUME FiniteAssumption == IsFiniteSet(Topics) /\ Nobody \notin Conns

Overflow == 0    \* overflowEventTopic, which is not a valid topic

VARIABLES
  mu,           \* who holds b.mu across steps: a publisher, or Free
  nextEvent,    \* b.nextEvent
  retained,     \* b.retained: topic -> event, for the topics that have one
  subscribed,   \* b.subscribers: the connections whose subscription is live
  topics,       \* the topics of each subscription
  events,       \* the buffered channel of each subscription
  shut,         \* the subscriptions whose channel is closed
  closed,       \* b.closed
  conn,         \* the state of each connection's goroutine
  got,          \* what each connection took from its channel, in order
  sending,      \* what each publisher still has to do under b.mu
  owed,         \* what was published on the topics of each connection since
                \* it subscribed (history)
  replayed      \* how many retained values its replay had (history)

vars == <<mu, nextEvent, retained, subscribed, topics, events, shut, closed,
          conn, got, sending, owed, replayed>>

Event(t, n, r) == [topic |-> t, seq |-> n, retained |-> r]
AnyEvent == [topic : Topics \cup {Overflow}, seq : 1 .. MaxEvents + Cardinality(Conns),
             retained : BOOLEAN]

Idle == [event |-> Event(Overflow, 0, FALSE), todo |-> {}, overflowing |-> Nobody]

(* cap(sub.events): Subscribe makes room for a retained value per topic.   *)
Room(c) ==
  IF Cardinality(topics[c]) > Slots THEN Cardinality(topics[c]) ELSE Slots

(* A plausible bug: no slot is left for the overflow event.                *)
BadFull(c) == Len(events[c]) >= Room(c)

(* The check of Publish that leaves one slot for the overflow event.       *)
Full(c) == Len(events[c]) >= Room(c) - 1

Init ==
  /\ mu = Free /\ nextEvent = 0 /\ closed = FALSE
  /\ retained = [t \in {} |-> Nobody]
  /\ subscribed = {} /\ shut = {}
  /\ topics = [c \in Conns |-> {}]
  /\ events = [c \in Conns |-> <<>>]
  /\ conn = [c \in Conns |-> "new"]
  /\ got = [c \in Conns |-> <<>>]
  /\ sending = [p \in Publishers |-> Idle]
  /\ owed = [c \in Conns |-> <<>>]
  /\ replayed = [c \in Conns |-> 0]

-----------------------------------------------------------------------------
(* Publish.                                                                *)

(* A plausible bug: the bound is off by one.                               *)
BadTooManyRetained(t) ==
  t \notin DOMAIN retained /\ Cardinality(DOMAIN retained) > MaxRetained

TooManyRetained(t) ==
  t \notin DOMAIN retained /\ Cardinality(DOMAIN retained) >= MaxRetained

Retaining(event) ==
  [t \in DOMAIN retained \cup {event.topic} |->
     IF t = event.topic THEN event ELSE retained[t]]

(* Publish keeps b.mu until it has sent; a plausible bug: it sends after    *)
(* it has released it.                                                     *)
BadHold(p) == UNCHANGED mu
Hold(p) == mu' = p

(* Under b.mu: number the event, keep it if asked to, and start on the     *)
(* subscribers of its topic.                                               *)
Publish(p, t, retain) ==
  LET event == Event(t, nextEvent + 1, FALSE) IN
  /\ mu = Free /\ sending[p] = Idle
  /\ nextEvent < MaxEvents
  /\ ~closed
  /\ ~(retain /\ TooManyRetained(t))
  /\ Hold(p)
  /\ nextEvent' = nextEvent + 1
  /\ retained' = IF retain THEN Retaining(event) ELSE retained
  /\ sending' = [sending EXCEPT ![p] =
       [event |-> event, todo |-> {c \in subscribed : t \in topics[c]},
        overflowing |-> Nobody]]
  /\ owed' = [c \in Conns |-> IF t \in topics[c] THEN Append(owed[c], event) ELSE owed[c]]
  /\ UNCHANGED <<subscribed, topics, events, shut, closed, conn, got, replayed>>

(* sub.events <- event, for a subscriber with more than the last slot.     *)
Deliver(p, c) ==
  /\ c \in sending[p].todo /\ sending[p].overflowing = Nobody
  /\ ~Full(c)
  /\ events' = [events EXCEPT ![c] = Append(@, sending[p].event)]
  /\ sending' = [sending EXCEPT ![p].todo = @ \ {c}]
  /\ UNCHANGED <<mu, nextEvent, retained, subscribed, topics, shut, closed,
                 conn, got, owed, replayed>>

(* A plausible bug: an event for a full channel is dropped.                *)
BadFindFull(p, c) ==
  /\ c \in sending[p].todo /\ sending[p].overflowing = Nobody /\ Full(c)
  /\ sending' = [sending EXCEPT ![p].todo = @ \ {c}]
  /\ UNCHANGED <<mu, nextEvent, retained, subscribed, topics, events, shut,
                 closed, conn, got, owed, replayed>>

(* The subscriber is too slow: number an overflow event for it.            *)
FindFull(p, c) ==
  /\ c \in sending[p].todo /\ sending[p].overflowing = Nobody
  /\ Full(c)
  /\ nextEvent' = nextEvent + 1
  /\ sending' = [sending EXCEPT ![p].overflowing = c]
  /\ UNCHANGED <<mu, retained, subscribed, topics, events, shut, closed,
                 conn, got, owed, replayed>>

(* A plausible bug: the slow subscriber is cut off without a word.         *)
BadSendOverflow(p) ==
  LET c == sending[p].overflowing IN
  /\ c \in Conns
  /\ subscribed' = subscribed \ {c}
  /\ shut' = shut \cup {c}
  /\ sending' = [sending EXCEPT ![p].overflowing = Nobody, ![p].todo = @ \ {c}]
  /\ UNCHANGED <<mu, nextEvent, retained, topics, events, closed, conn, got,
                 owed, replayed>>

(* sub.events <- overflow waits while the channel has no slot at all.      *)
SendOverflow(p) ==
  LET c == sending[p].overflowing IN
  /\ c \in Conns
  /\ Len(events[c]) < Room(c)
  /\ events' = [events EXCEPT ![c] = Append(@, Event(Overflow, nextEvent, FALSE))]
  /\ subscribed' = subscribed \ {c}
  /\ shut' = shut \cup {c}
  /\ sending' = [sending EXCEPT ![p].overflowing = Nobody, ![p].todo = @ \ {c}]
  /\ UNCHANGED <<mu, nextEvent, retained, topics, closed, conn, got, owed, replayed>>

(* The deferred unlock; a plausible bug is to forget it.                   *)
BadUnlock == UNCHANGED mu
Unlock == mu' = Free

EndPublish(p) ==
  /\ sending[p] # Idle /\ sending[p].todo = {}
  /\ sending' = [sending EXCEPT ![p] = Idle]
  /\ Unlock
  /\ UNCHANGED <<nextEvent, retained, subscribed, topics, events, shut, closed,
                 conn, got, owed, replayed>>

-----------------------------------------------------------------------------
(* A subscribed connection.                                                *)

Ascending(S) ==
  {f \in [1 .. Cardinality(S) -> S] : \A i, j \in DOMAIN f : i < j => f[i] < f[j]}

Values(ts) ==
  {[i \in DOMAIN f |-> [retained[f[i]] EXCEPT !.retained = TRUE]] : f \in Ascending(ts)}

(* The retained values of the topics ts, in the order of the topics.  A    *)
(* plausible bug: only those of plugins are replayed.                      *)
BadReplay(ts) == Values(ts \cap DOMAIN retained \cap PluginTopics)
Replay(ts) == Values(ts \cap DOMAIN retained)

Subscribe(c, ts) ==
  /\ mu = Free /\ conn[c] = "new"
  /\ ts # {} /\ Cardinality(ts) <= MaxTopics
  /\ ~closed
  /\ \E replay \in Replay(ts) :
       /\ events' = [events EXCEPT ![c] = replay]
       /\ replayed' = [replayed EXCEPT ![c] = Len(replay)]
  /\ subscribed' = subscribed \cup {c}
  /\ topics' = [topics EXCEPT ![c] = ts]
  /\ conn' = [conn EXCEPT ![c] = "streaming"]
  /\ UNCHANGED <<mu, nextEvent, retained, shut, closed, got, sending, owed>>

(* The stream loop takes an event and writes it to the peer.               *)
Receive(c) ==
  /\ conn[c] = "streaming" /\ events[c] # <<>>
  /\ got' = [got EXCEPT ![c] = Append(@, Head(events[c]))]
  /\ events' = [events EXCEPT ![c] = Tail(@)]
  /\ UNCHANGED <<mu, nextEvent, retained, subscribed, topics, shut, closed,
                 conn, sending, owed, replayed>>

(* The stream loop sees that its channel is closed and empty, or at any    *)
(* moment that the peer left, that a write failed or timed out, or that    *)
(* the server is done.                                                     *)
SeeClosed(c) ==
  /\ conn[c] = "streaming" /\ c \in shut /\ events[c] = <<>>
  /\ conn' = [conn EXCEPT ![c] = "leaving"]
  /\ UNCHANGED <<mu, nextEvent, retained, subscribed, topics, events, shut,
                 closed, got, sending, owed, replayed>>

Leave(c) ==
  /\ conn[c] = "streaming"
  /\ conn' = [conn EXCEPT ![c] = "leaving"]
  /\ UNCHANGED <<mu, nextEvent, retained, subscribed, topics, events, shut,
                 closed, got, sending, owed, replayed>>

(* The deferred sub.Close().                                               *)
Unsubscribe(c) ==
  /\ conn[c] = "leaving" /\ mu = Free
  /\ subscribed' = subscribed \ {c}
  /\ shut' = shut \cup {c}
  /\ conn' = [conn EXCEPT ![c] = "gone"]
  /\ UNCHANGED <<mu, nextEvent, retained, topics, events, closed, got, sending,
                 owed, replayed>>

-----------------------------------------------------------------------------
(* ClearPrefix, which the plugin manager calls at its end, and Close.      *)

ClearPrefix ==
  /\ mu = Free
  /\ retained' = [t \in DOMAIN retained \ PluginTopics |-> retained[t]]
  /\ UNCHANGED <<mu, nextEvent, subscribed, topics, events, shut, closed, conn,
                 got, sending, owed, replayed>>

CloseBroker ==
  /\ mu = Free /\ ~closed
  /\ closed' = TRUE
  /\ shut' = shut \cup subscribed
  /\ subscribed' = {}
  /\ retained' = [t \in {} |-> Nobody]
  /\ UNCHANGED <<mu, nextEvent, topics, events, conn, got, sending, owed, replayed>>

Sends(p) ==
  \/ \E c \in Conns : Deliver(p, c) \/ FindFull(p, c)
  \/ SendOverflow(p)
  \/ EndPublish(p)

Next ==
  \/ \E p \in Publishers, t \in Topics, retain \in BOOLEAN : Publish(p, t, retain)
  \/ \E p \in Publishers : Sends(p)
  \/ \E c \in Conns, ts \in SUBSET Topics : Subscribe(c, ts)
  \/ \E c \in Conns : Receive(c) \/ SeeClosed(c) \/ Leave(c) \/ Unsubscribe(c)
  \/ ClearPrefix
  \/ CloseBroker

Spec == Init /\ [][Next]_vars

(* The goroutines run.  A Go mutex serves its waiters in turn, so one that *)
(* waits for b.mu again and again gets it.  Nothing makes a consumer read. *)
PublisherFair == \A p \in Publishers : WF_vars(Sends(p))
LeaverFair == \A c \in Conns : SF_vars(Unsubscribe(c))
FairSpec == Spec /\ PublisherFair /\ LeaverFair

-----------------------------------------------------------------------------
(* What must hold.                                                         *)

TypeOK ==
  /\ mu \in Publishers \cup {Free}
  /\ nextEvent \in 0 .. MaxEvents + Cardinality(Conns)
  /\ DOMAIN retained \subseteq Topics
  /\ \A t \in DOMAIN retained : retained[t] \in AnyEvent /\ retained[t].topic = t
  /\ Cardinality(DOMAIN retained) <= MaxRetained
  /\ subscribed \subseteq Conns /\ shut \subseteq Conns
  /\ topics \in [Conns -> SUBSET Topics]
  /\ \A c \in Conns : events[c] \in Seq(AnyEvent) /\ got[c] \in Seq(AnyEvent)
  /\ closed \in BOOLEAN
  /\ conn \in [Conns -> {"new", "streaming", "leaving", "gone"}]
  /\ \A p \in Publishers : sending[p].todo \subseteq Conns
  /\ (\A c \in Conns : owed[c] \in Seq(AnyEvent)) /\ replayed \in [Conns -> Nat]

Stream(c) == got[c] \o events[c]
Live(c) == SubSeq(Stream(c), replayed[c] + 1, Len(Stream(c)))
InFlight(c) == \E p \in Publishers : c \in sending[p].todo
PrefixOf(s, t) == Len(s) <= Len(t) /\ s = SubSeq(t, 1, Len(s))
AllButLast(s) == SubSeq(s, 1, Len(s) - 1)

(* A live subscription has had every event that was published on its       *)
(* topics since it subscribed, once and in order, but for the one that is  *)
(* on its way (Publish, Subscribe).                                        *)
StreamComplete ==
  \A c \in subscribed :
    Live(c) = IF InFlight(c) THEN AllButLast(owed[c]) ELSE owed[c]

(* A subscriber that the broker gave up on learns it: what it had is the   *)
(* beginning of its stream and the last event says to resync, so it never  *)
(* takes the clean end of the stream for an idle server (pubsub.go:118).   *)
LossIsAnnounced ==
  \A c \in Conns :
    conn[c] = "streaming" /\ c \in shut /\ ~closed =>
      /\ Stream(c) # <<>> /\ Stream(c)[Len(Stream(c))].topic = Overflow
      /\ PrefixOf(AllButLast(Live(c)), owed[c])

(* Replay and publication leave no gap between them: a subscriber that has *)
(* read everything has read the retained value of each of its topics.      *)
UpToDate ==
  \A c \in subscribed : events[c] = <<>> /\ ~InFlight(c) =>
    \A t \in topics[c] \cap DOMAIN retained :
      \E i \in DOMAIN got[c] :
        got[c][i].topic = t /\ got[c][i].seq = retained[t].seq

(* A subscriber follows its topics: it starts from their values, misses    *)
(* nothing that is published, or learns that it has.                       *)
SubscribersFollow == StreamComplete /\ LossIsAnnounced /\ UpToDate

(* A subscriber never sees an older value of a topic after a newer one,    *)
(* replayed values included.                                               *)
TopicInOrder ==
  \A c \in Conns : \A i, j \in DOMAIN Stream(c) :
    i < j /\ Stream(c)[i].topic = Stream(c)[j].topic =>
      Stream(c)[i].seq < Stream(c)[j].seq

(* No send is due on a closed channel: it would panic.                     *)
NoSendOnClosed ==
  \A p \in Publishers : sending[p].todo \cap shut = {}

(* A publisher that waits, under b.mu, for the channel of a subscriber.    *)
WaitsFor(p, c) == sending[p].overflowing = c /\ Len(events[c]) >= Room(c)

(* Publish waits for a subscriber in one case only: the replay of          *)
(* Subscribe alone filled the channel, as it can because a subscription    *)
(* may have as many topics as the channel has slots, and the subscriber    *)
(* has read nothing yet.  Live events never use up the slot that Publish   *)
(* leaves for the overflow event (pubsub.go:62-63 has no such exception,   *)
(* see PublishReturns).                                                    *)
WaitsForReplayOnly ==
  \A p \in Publishers, c \in Conns :
    WaitsFor(p, c) => got[c] = <<>> /\ replayed[c] = Room(c)

(* A publication ends whatever the consumers do, "rather than being        *)
(* allowed to block Cliamp or a Lua callback" (pubsub.go:63).              *)
PublishReturns ==
  \A p \in Publishers : sending[p] # Idle ~> sending[p] = Idle

(* A connection whose stream ended gets b.mu to unsubscribe, and is gone,  *)
(* so the server can wait for it when it closes (streamSubscription,       *)
(* Server.Close), unless a publication waits under b.mu for good, which    *)
(* WaitsForReplayOnly confines to a subscriber that never reads its full   *)
(* replay.                                                                 *)
PublishStuck == \E p \in Publishers, c \in Conns : WaitsFor(p, c)
LeaverGone == []<>~PublishStuck => \A c \in Conns : []<>(conn[c] # "leaving")
=============================================================================
