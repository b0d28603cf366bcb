------------------------------ MODULE WsChannels ------------------------------
(***************************************************************************)
(* WebSocket channels of the ladoo crate: one task per connection that     *)
(* selects between the client's frames and the instance's broadcast ring,  *)
(* the Broadcaster that feeds the ring and publishes to the other          *)
(* instances, and the forwarder that feeds the ring from them.             *)
(*                                                                         *)
(* An event is its number, its topic, the socket it is not for and the     *)
(* instance that dispatched it; payloads are left out.  The direct topic   *)
(* of a connection (`__direct:<socket_id>`) is the connection itself: a    *)
(* name like any other, which clients may join where a pattern matches it. *)
(* Channel::join, leave and handle are the user's: they answer freely and  *)
(* may broadcast or panic, and the connection's task waits for them.       *)
(***************************************************************************)
EXTENDS Naturals, Sequences, SequencesExt

CONSTANTS Conns,      \* connections clients may make
          Instances,  \* server processes
          Home,       \* the process each connection is made to
          Topics,     \* topics that are not direct ones
          Routes,     \* ChannelRouter: the names each pattern matches, in order
          Senders,    \* processes whose application code broadcasts by itself
          Redis,      \* RedisPubSub, or MemoryPubSub
          Capacity,   \* of the broadcast ring, 1024 in the code
          MaxEvents,  \* bound: events dispatched
          MaxFrames,  \* bound: frames that clients send
          Nobody      \* exclude_socket: None

\* What a frame or an event may have as its topic.
Names == Topics \cup Conns

ASSUME WsAssumption ==
    /\ Home \in [Conns -> Instances]
    /\ Routes \in Seq(SUBSET Names)
    /\ Senders \subseteq Instances /\ Redis \in BOOLEAN
    /\ {Capacity, MaxEvents, MaxFrames} \subseteq Nat /\ Capacity > 0
    /\ Nobody \notin Conns /\ Conns \cap Topics = {}  \* `__direct:` names only direct topics

VARIABLES
    conn,      \* state of each connection's task
    call,      \* the Channel callback it waits for
    joined,    \* joined_topics
    present,   \* history: topics whose join() succeeded with no leave() since
    admitted,  \* history: topics whose join() succeeded in this connection
    frames,    \* how many frames clients have sent that called for a callback
    next,      \* its position in the ring of its instance
    seen,      \* history: events sent to the client, in order
    skipped,   \* history: events the ring overwrote before it read them
    owed,      \* history: events for a topic it had joined when they were sent
    ring,      \* events sent to local_tx of each instance
    events,    \* history: every event dispatched
    tasks,     \* spawned publishes that have not run
    forwarder, \* of each instance: forwarder_started and the task behind it
    subs       \* its PubSub subscriptions

client == <<frames, seen, skipped, admitted>>
server == <<ring, events, tasks, owed>>
pubsub == <<forwarder, subs>>
vars == <<conn, call, joined, present, next, client, server, pubsub>>

NoCall == [op |-> "none", topic |-> Nobody]
Event == [id : 1 .. MaxEvents, topic : Names, exclude : Conns \cup {Nobody},
          origin : Instances]

Live == {"open", "closing"}

\* Type invariant; only a running task holds a place in the ring or in a callback.
TypeOK ==
    /\ conn \in [Conns -> Live \cup {"none", "closed", "panicked"}]
    /\ call \in [Conns -> [op : {"none", "join", "leave", "handle"}, topic : Names \cup {Nobody}]]
    /\ joined \in [Conns -> SUBSET Names] /\ present \in [Conns -> SUBSET Names]
    /\ admitted \in [Conns -> SUBSET Names]
    /\ frames \in 0 .. MaxFrames
    /\ events \in Seq(Event) /\ ring \in [Instances -> Seq(Event)] /\ tasks \subseteq Event
    /\ seen \in [Conns -> Seq(Event)] /\ skipped \in [Conns -> SUBSET Event]
    /\ owed \in [Conns -> SUBSET Event] /\ next \in [Conns -> Nat]
    /\ \A c \in Conns : /\ next[c] \in 1 .. Len(ring[Home[c]]) + 1
                        /\ call[c] # NoCall => conn[c] \in Live
    /\ forwarder \in [Instances -> {"none", "starting", "up", "over"}]
    /\ subs \in [Instances -> 0 .. 1]

Init ==
    /\ conn = [c \in Conns |-> "none"] /\ call = [c \in Conns |-> NoCall]
    /\ joined = [c \in Conns |-> {}] /\ present = [c \in Conns |-> {}]
    /\ admitted = [c \in Conns |-> {}]
    /\ frames = 0 /\ next = [c \in Conns |-> 1]
    /\ seen = [c \in Conns |-> <<>>] /\ skipped = [c \in Conns |-> {}]
    /\ owed = [c \in Conns |-> {}]
    /\ ring = [i \in Instances |-> <<>>] /\ events = <<>> /\ tasks = {}
    /\ forwarder = [i \in Instances |-> "none"] /\ subs = [i \in Instances |-> 0]

-----------------------------------------------------------------------------
(* The Broadcaster and the PubSub behind it *)

\* ChannelRouter::find(): some registered pattern matches.
Find(t) == \E k \in DOMAIN Routes : t \in Routes[k]

\* History: what the open connections of some instances are owed when they get an event.
Owe(is, e) ==
    owed' = [c \in Conns |-> IF /\ Home[c] \in is /\ conn[c] = "open"
                                /\ e.topic \in joined[c] \cup {c} /\ e.exclude # c
                             THEN owed[c] \cup {e} ELSE owed[c]]

\* A new event is sent to the local ring at once.
Send(i, e) ==
    /\ Len(events) < MaxEvents
    /\ events' = Append(events, e)
    /\ ring' = [ring EXCEPT ![i] = Append(@, e)] /\ Owe({i}, e)

NewEvent(i, t, exclude) ==
    [id |-> Len(events) + 1, topic |-> t, exclude |-> exclude, origin |-> i]

\* broadcast() and broadcast_from() with dispatch(): the PubSub gets the event in a task
\* of its own.  MemoryPubSub::publish() does nothing.
Dispatch(i, t, exclude) ==
    LET e == NewEvent(i, t, exclude)
    IN  /\ Send(i, e)
        /\ tasks' = IF Redis THEN tasks \cup {e} ELSE tasks

\* Application code, a Channel callback included, broadcasts.
Broadcast(i, t) ==
    /\ Dispatch(i, t, Nobody)
    /\ UNCHANGED <<conn, call, joined, present, next, client, pubsub>>

\* send_to(): a direct message never leaves the instance.
SendTo(i, c) ==
    /\ Send(i, NewEvent(i, c, Nobody))
    /\ UNCHANGED <<conn, call, joined, present, next, client, tasks, pubsub>>

\* Mutant of Relayed: an instance listens to itself.
RelayedOwn(i, e) == [k \in 1 .. subs[i] |-> e]

\* What the subscriptions of an instance pass on: the instance's own events are
\* dropped by their origin.
Relayed(i, e) == IF e.origin = i THEN <<>> ELSE [k \in 1 .. subs[i] |-> e]

\* A publish task runs: PUBLISH reaches every subscription, whose task and forwarder
\* send it to the ring, or it fails and is logged.  The two queues on the way are FIFO
\* and the ring is read later anyway, so they are not kept apart.
Publish(e) ==
    /\ e \in tasks /\ tasks' = tasks \ {e}
    /\ \/ /\ ring' = [i \in Instances |-> ring[i] \o Relayed(i, e)]
          /\ Owe({i \in Instances : Relayed(i, e) # <<>>}, e)
       \/ UNCHANGED <<ring, owed>>
    /\ UNCHANGED <<conn, call, joined, present, next, client, events, pubsub>>

\* The forwarder's subscribe() succeeds.
Subscribe(i) ==
    /\ forwarder[i] = "starting" /\ Redis
    /\ forwarder' = [forwarder EXCEPT ![i] = "up"]
    /\ subs' = [subs EXCEPT ![i] = @ + 1]
    /\ UNCHANGED <<conn, call, joined, present, next, client, server>>

\* It fails, or the stream ends, or the PubSub is in memory and its sender is gone:
\* the forwarder is over and forwarder_started keeps another one from starting.
ForwarderEnds(i) ==
    /\ forwarder[i] \in {"starting", "up"}
    /\ forwarder' = [forwarder EXCEPT ![i] = "over"]
    /\ subs' = [subs EXCEPT ![i] = 0]
    /\ UNCHANGED <<conn, call, joined, present, next, client, server>>

-----------------------------------------------------------------------------
(* One connection *)

\* The task ChannelWsHandler::call() spawned has its socket (it ends at once when the
\* upgrade fails) and run_channel_loop() begins:
\* ensure_pubsub_forwarder(), then subscribe_local().
Start(c) ==
    /\ conn[c] = "none"
    /\ conn' = [conn EXCEPT ![c] = "open"]
    /\ forwarder' = [forwarder EXCEPT ![Home[c]] = IF @ = "none" THEN "starting" ELSE @]
    /\ next' = [next EXCEPT ![c] = Len(ring[Home[c]]) + 1]
    /\ UNCHANGED <<call, joined, present, client, server, subs>>

\* The select loop can take its next branch.
Selecting(c) == conn[c] = "open" /\ call[c] = NoCall

\* A text frame whose event calls a Channel.  Any other one is answered with an error
\* or ignored, like a binary frame: a join of a topic no pattern matches, a leave or an
\* event of a topic that is not joined.
Frame(c, op, t) ==
    /\ Selecting(c) /\ frames < MaxFrames
    /\ frames' = frames + 1
    /\ call' = [call EXCEPT ![c] = [op |-> op, topic |-> t]]
    /\ UNCHANGED <<conn, present, next, seen, skipped, admitted, ring, events, tasks, pubsub>>

\* phx_join of a topic, joined before or not.
Join(c, t) == Find(t) /\ Frame(c, "join", t) /\ UNCHANGED <<joined, owed>>

\* phx_leave: the topic is removed, then leave() is called.
Leave(c, t) ==
    /\ t \in joined[c] /\ Frame(c, "leave", t)
    /\ joined' = [joined EXCEPT ![c] = @ \ {t}]
    /\ owed' = [owed EXCEPT ![c] = {e \in @ : e.topic \in (joined[c] \ {t}) \cup {c}}]

\* Any other event.
Handle(c, t) == t \in joined[c] /\ Frame(c, "handle", t) /\ UNCHANGED <<joined, owed>>

\* join() answers Ok.
Joined(c) ==
    /\ call[c].op = "join"
    /\ joined' = [joined EXCEPT ![c] = @ \cup {call[c].topic}]
    /\ present' = [present EXCEPT ![c] = @ \cup {call[c].topic}]
    /\ admitted' = [admitted EXCEPT ![c] = @ \cup {call[c].topic}]
    /\ call' = [call EXCEPT ![c] = NoCall]
    /\ UNCHANGED <<conn, next, frames, seen, skipped, server, pubsub>>

\* join() answers Err, or handle() anything but a broadcast: only a reply is sent.
Answered(c) ==
    /\ call[c].op \in {"join", "handle"}
    /\ call' = [call EXCEPT ![c] = NoCall]
    /\ UNCHANGED <<conn, joined, present, next, client, server, pubsub>>

\* handle() answers Reply::Broadcast: the reply, then broadcast_from().
Broadcasts(c) ==
    /\ call[c].op = "handle"
    /\ Dispatch(Home[c], call[c].topic, c)
    /\ call' = [call EXCEPT ![c] = NoCall]
    /\ UNCHANGED <<conn, joined, present, next, client, pubsub>>

\* leave() returns, in a phx_leave or in the cleanup.
Left(c) ==
    /\ call[c].op = "leave"
    /\ present' = [present EXCEPT ![c] = @ \ {call[c].topic}]
    /\ call' = [call EXCEPT ![c] = NoCall]
    /\ UNCHANGED <<conn, joined, next, client, server, pubsub>>

\* The task is over: its locals are dropped, and its client is gone.
End(c, how) ==
    /\ conn' = [conn EXCEPT ![c] = how]
    /\ joined' = [joined EXCEPT ![c] = {}] /\ call' = [call EXCEPT ![c] = NoCall]
    /\ next' = [next EXCEPT ![c] = 1]
    /\ seen' = [seen EXCEPT ![c] = <<>>] /\ skipped' = [skipped EXCEPT ![c] = {}]
    /\ owed' = [owed EXCEPT ![c] = {}] /\ admitted' = [admitted EXCEPT ![c] = {}]
    /\ UNCHANGED <<present, frames, ring, events, tasks, pubsub>>

\* A callback panics: tokio ends the task, without its cleanup.
Panic(c) == call[c] # NoCall /\ End(c, "panicked")

\* Positions of the ring that still hold their event.
Oldest(i) == IF Len(ring[i]) > Capacity THEN Len(ring[i]) - Capacity + 1 ELSE 1

\* Mutant of Lagged: reading goes on at the newest event.
LaggedToNewest(c) ==
    /\ Selecting(c) /\ next[c] < Oldest(Home[c])
    /\ next' = [next EXCEPT ![c] = Len(ring[Home[c]]) + 1]
    /\ skipped' = [skipped EXCEPT ![c] = @ \cup {ring[Home[c]][k] : k \in next[c] .. Oldest(Home[c]) - 1}]
    /\ UNCHANGED <<conn, call, joined, present, frames, seen, admitted, server, pubsub>>

\* RecvError::Lagged: reading goes on at the oldest event left.
Lagged(c) ==
    /\ Selecting(c) /\ next[c] < Oldest(Home[c])
    /\ next' = [next EXCEPT ![c] = Oldest(Home[c])]
    /\ skipped' = [skipped EXCEPT ![c] = @ \cup {ring[Home[c]][k] : k \in next[c] .. Oldest(Home[c]) - 1}]
    /\ UNCHANGED <<conn, call, joined, present, frames, seen, admitted, server, pubsub>>

\* An event of a joined topic, or a direct one, that does not exclude the socket.
Wanted(c, e) == (e.topic = c \/ e.topic \in joined[c]) /\ e.exclude # c

\* broadcast_rx.recv(): the event is sent to the client or dropped; a failed send is
\* ignored.
Receive(c) ==
    /\ Selecting(c) /\ next[c] \in Oldest(Home[c]) .. Len(ring[Home[c]])
    /\ next' = [next EXCEPT ![c] = @ + 1]
    /\ LET e == ring[Home[c]][next[c]]
       IN  seen' = IF Wanted(c, e) THEN [seen EXCEPT ![c] = Append(@, e)] ELSE seen
    /\ UNCHANGED <<conn, call, joined, present, frames, skipped, admitted, server, pubsub>>

\* The client closes or the socket fails: the loop is left.
Disconnect(c) ==
    /\ Selecting(c)
    /\ conn' = [conn EXCEPT ![c] = "closing"]
    /\ owed' = [owed EXCEPT ![c] = {}]
    /\ UNCHANGED <<call, joined, present, next, client, ring, events, tasks, pubsub>>

\* Mutant of Cleanup: the task ends with the loop.
CleanupSkipped(c) == conn[c] = "closing" /\ call[c] = NoCall /\ End(c, "closed")

\* The cleanup: leave() for every joined topic, one after the other, then the end.
Cleanup(c) ==
    /\ conn[c] = "closing" /\ call[c] = NoCall
    /\ \/ joined[c] = {} /\ End(c, "closed")
       \/ \E t \in joined[c] :
             /\ joined' = [joined EXCEPT ![c] = @ \ {t}]
             /\ call' = [call EXCEPT ![c] = [op |-> "leave", topic |-> t]]
             /\ UNCHANGED <<conn, present, next, client, server, pubsub>>

\* What the runtime and the callbacks do by themselves.
Task(c) ==
    \/ Receive(c) \/ Lagged(c) \/ Cleanup(c)
    \/ Joined(c) \/ Answered(c) \/ Broadcasts(c) \/ Left(c) \/ Panic(c)

Client(c) ==
    \/ Start(c) \/ Disconnect(c)
    \/ \E t \in Names : Join(c, t) \/ Leave(c, t) \/ Handle(c, t)

Forward(i) == Subscribe(i) \/ ForwarderEnds(i)

Next ==
    \/ \E c \in Conns : Task(c) \/ Client(c)
    \/ \E i \in Instances : Forward(i)
    \/ \E i \in Senders : (\E t \in Names : Broadcast(i, t)) \/ (\E c \in Conns : SendTo(i, c))
    \/ \E e \in tasks : Publish(e)

Spec == Init /\ [][Next]_vars

-----------------------------------------------------------------------------

\* Ids a client has been sent.
Ids(c) == {seen[c][k].id : k \in DOMAIN seen[c]}

\* What a client is sent is right.  It never gets an event twice, whether it came from
\* its own instance, through the PubSub or both, and however many connections start the
\* forwarder; a broadcast made for its own message never comes back to it; events of its
\* own instance arrive in the order they were dispatched; and everything it gets was
\* sent to it or has a topic that a channel let it join.  So a direct message to another
\* reaches it only where a pattern (`*`) matches direct topics and join() lets it in.
DeliveredRight ==
    /\ TypeOK
    /\ \A c \in Conns :
         /\ \A id \in Ids(c) : /\ events[id].exclude # c
                              /\ events[id].topic \in {c} \cup admitted[c]
         /\ \A t \in admitted[c] : Find(t)
         /\ \A j, k \in DOMAIN seen[c] : j < k =>
               /\ seen[c][j].id # seen[c][k].id
               /\ seen[c][j].origin = Home[c] /\ seen[c][k].origin = Home[c]
                     => seen[c][j].id < seen[c][k].id

\* A connection whose task is at rest has joined exactly the topics whose channel let
\* it in and was not told it left; when it is over, every channel knows, unless a
\* callback panicked.
PresenceTruthful ==
    \A c \in Conns :
        /\ call[c] = NoCall /\ conn[c] # "panicked" => present[c] = joined[c]
        /\ conn[c] = "closed" => present[c] = {}

\* An event sent to the ring of a connection that had joined its topic, or sent to it
\* directly, has reached the client or is still to be read, unless the client made it,
\* leaves the topic, or falls behind a full ring.
NothingLost ==
    \A c \in Conns : \A e \in owed[c] \ skipped[c] :
        \/ e \in ToSet(seen[c])
        \/ \E k \in next[c] .. Len(ring[Home[c]]) : ring[Home[c]][k] = e
=============================================================================
