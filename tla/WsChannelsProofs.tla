--------------------------- MODULE WsChannelsProofs ---------------------------
(***************************************************************************)
(* Proofs about WsChannels, for any connections, instances, topics and     *)
(* routes, any capacity of the ring and either PubSub: what a client is    *)
(* sent, what it may miss, and what the channels know of who is there.     *)
(*                                                                         *)
(* The inductive invariant has a part for each group of variables that     *)
(* change together, so that an action disturbs few of them.                *)
(***************************************************************************)
EXTENDS WsChannels, TLAPS

Call == {NoCall} \cup [op : {"join", "leave", "handle"}, topic : Names]

\* The channels know of a topic exactly while it is joined, and for as long as leave()
\* takes after that.
PresenceInv ==
    /\ conn \in [Conns -> Live \cup {"none", "closed", "panicked"}] /\ call \in [Conns -> Call]
    /\ joined \in [Conns -> SUBSET Names] /\ present \in [Conns -> SUBSET Names]
    /\ frames \in 0 .. MaxFrames
    /\ \A c \in Conns :
        /\ conn[c] \notin Live => call[c] = NoCall
        /\ conn[c] \in {"none", "closed"} => joined[c] = {} /\ present[c] = {}
        /\ conn[c] \in Live =>
              IF call[c].op = "leave"
              THEN call[c].topic \notin joined[c] /\ present[c] = joined[c] \cup {call[c].topic}
              ELSE present[c] = joined[c]

\* A subscription belongs to a forwarder that is up.
ForwarderInv ==
    /\ forwarder \in [Instances -> {"none", "starting", "up", "over"}]
    /\ subs \in [Instances -> 0 .. 1]
    /\ \A i \in Instances : forwarder[i] # "up" => subs[i] = 0

\* Events have their own numbers; an event to be published is in no other ring yet, so
\* that no ring holds one twice, and a ring has its own instance's events in order.
RingsInv ==
    /\ events \in Seq(Event) /\ ring \in [Instances -> Seq(Event)] /\ tasks \subseteq Event
    /\ \A e \in tasks :
          /\ e.id \in DOMAIN events /\ events[e.id] = e
          /\ \A i \in Instances : i # e.origin =>
                \A k \in DOMAIN ring[i] : ring[i][k].id # e.id
    /\ \A i \in Instances : \A k \in DOMAIN ring[i] :
          /\ ring[i][k].id \in DOMAIN events /\ events[ring[i][k].id] = ring[i][k]
          /\ \A j \in 1 .. k - 1 :
                /\ ring[i][j].id # ring[i][k].id
                /\ ring[i][j].origin = i /\ ring[i][k].origin = i => ring[i][j].id < ring[i][k].id

\* What a client has been sent was meant for it and comes from the part of the ring its
\* task has read, in the order of the ring.
SeenRight(c, r, n, s) ==
    /\ n \in 1 .. Len(r) + 1
    /\ \A k \in DOMAIN s :
        /\ \E p \in 1 .. n - 1 : r[p] = s[k]
        /\ s[k].exclude # c
        /\ \A j \in 1 .. k - 1 :
              /\ s[j].id # s[k].id
              /\ s[j].origin = Home[c] /\ s[k].origin = Home[c] => s[j].id < s[k].id

SeenInv ==
    /\ next \in [Conns -> Nat] /\ seen \in [Conns -> Seq(Event)]
    /\ \A c \in Conns : SeenRight(c, ring[Home[c]], next[c], seen[c])

\* An event was sent to the client or is in the part of the ring it has not read.
Pending(r, n, s, e) == e \in ToSet(s) \/ \E k \in n .. Len(r) : r[k] = e

\* Only an open connection is owed something, and all of it passes its filter.
OwedRight(c, cn, jn, ow, sk, r, n, s) ==
    /\ cn # "open" => ow = {}
    /\ \A e \in ow : (e.topic = c \/ e.topic \in jn) /\ e.exclude # c
    /\ \A e \in ow \ sk : Pending(r, n, s, e)

OwedInv ==
    /\ owed \in [Conns -> SUBSET Event] /\ skipped \in [Conns -> SUBSET Event]
    /\ \A c \in Conns : OwedRight(c, conn[c], joined[c], owed[c], skipped[c],
                                  ring[Home[c]], next[c], seen[c])

\* What a client was sent was addressed to it or has a topic it was let into, and a
\* channel is asked only about topics that a pattern matches.
AdmittedRight(c, ad, jn, cl, s) ==
    /\ jn \subseteq ad
    /\ \A t \in ad : Find(t)
    /\ cl.op = "join" => Find(cl.topic)
    /\ \A k \in DOMAIN s : s[k].topic \in {c} \cup ad

AdmittedInv ==
    /\ admitted \in [Conns -> SUBSET Names]
    /\ \A c \in Conns : AdmittedRight(c, admitted[c], joined[c], call[c], seen[c])

IInv == PresenceInv /\ ForwarderInv /\ RingsInv /\ SeenInv /\ OwedInv /\ AdmittedInv

\* The parts together say what the type invariant says.
LEMMA IInvTyped == IInv => TypeOK
<1> SUFFICES ASSUME IInv PROVE TypeOK
    OBVIOUS
<1>1. Call \subseteq [op : {"none", "join", "leave", "handle"}, topic : Names \cup {Nobody}]
      BY DEF Call, NoCall
<1>2. call \in [Conns -> [op : {"none", "join", "leave", "handle"}, topic : Names \cup {Nobody}]]
      BY <1>1 DEF IInv, PresenceInv
<1>3. QED BY <1>2 DEF IInv, TypeOK, PresenceInv, ForwarderInv, RingsInv, SeenInv, SeenRight, OwedInv,
                         AdmittedInv

\* The initial state.
LEMMA InitHolds == Init => IInv
<1> SUFFICES ASSUME Init PROVE IInv
    OBVIOUS
<1> USE DEF Init
<1>1. NoCall \in Call
      BY DEF NoCall, Call
<1>2. PresenceInv
      BY <1>1, WsAssumption DEF PresenceInv, NoCall, Live
<1>3. ForwarderInv
      BY DEF ForwarderInv
<1>4. OwedInv
      BY DEF OwedInv, OwedRight
<1>5. RingsInv
      BY DEF RingsInv
<1>6. SeenInv
      BY WsAssumption DEF SeenInv, SeenRight
<1>7. AdmittedInv
      BY DEF AdmittedInv, AdmittedRight, NoCall
<1>8. QED BY <1>2, <1>3, <1>4, <1>5, <1>6, <1>7 DEF IInv

-----------------------------------------------------------------------------
(* Presence *)

\* One connection's task and its callbacks.
LEMMA PresenceConn ==
    ASSUME PresenceInv, NEW c \in Conns,
           conn' \in [Conns -> Live \cup {"none", "closed", "panicked"}], call' \in [Conns -> Call],
           joined' \in [Conns -> SUBSET Names], present' \in [Conns -> SUBSET Names],
           frames' \in 0 .. MaxFrames,
           \A d \in Conns : d # c => /\ conn'[d] = conn[d] /\ call'[d] = call[d]
                                     /\ joined'[d] = joined[d] /\ present'[d] = present[d],
           conn'[c] \notin Live => call'[c] = NoCall,
           conn'[c] \in {"none", "closed"} => joined'[c] = {} /\ present'[c] = {},
           conn'[c] \in Live =>
               IF call'[c].op = "leave"
               THEN call'[c].topic \notin joined'[c] /\ present'[c] = joined'[c] \cup {call'[c].topic}
               ELSE present'[c] = joined'[c]
    PROVE  PresenceInv'
BY DEF PresenceInv, Live, Call, NoCall

\* What presence says of one connection, and of the constants it uses.
PresenceAt(c) ==
    /\ conn \in [Conns -> Live \cup {"none", "closed", "panicked"}] /\ call \in [Conns -> Call]
    /\ joined \in [Conns -> SUBSET Names] /\ present \in [Conns -> SUBSET Names]
    /\ conn[c] \notin Live => call[c] = NoCall
    /\ call[c].op \in {"join", "leave", "handle"} => conn[c] \in Live /\ call[c].topic \in Names
    /\ conn[c] \in {"none", "closed"} => joined[c] = {} /\ present[c] = {}
    /\ conn[c] \in Live =>
          IF call[c].op = "leave"
          THEN call[c].topic \notin joined[c] /\ present[c] = joined[c] \cup {call[c].topic}
          ELSE present[c] = joined[c]
    /\ NoCall \in Call /\ NoCall.op = "none" /\ Live = {"open", "closing"}
    /\ MaxFrames \in Nat /\ frames \in 0 .. MaxFrames

\* It follows from presence.
LEMMA PresenceOf == ASSUME PresenceInv, NEW c \in Conns PROVE PresenceAt(c)
<1>1. NoCall \in Call /\ NoCall.op = "none"
      BY DEF NoCall, Call
<1>2. call[c] \in Call
      BY DEF PresenceInv
<1>3. call[c] # NoCall => conn[c] \in Live
      BY DEF PresenceInv
<1>4. call[c].op \in {"join", "leave", "handle"} => conn[c] \in Live /\ call[c].topic \in Names
      BY <1>1, <1>2, <1>3 DEF Call
<1>5. QED BY <1>1, <1>2, <1>4, WsAssumption DEF PresenceAt, PresenceInv, Live

\* Frames, callbacks, cleanup and the end of a connection keep presence.
LEMMA PresenceKept ==
    ASSUME PresenceInv, NEW c \in Conns, Task(c) \/ Client(c)
    PROVE  PresenceInv'
<1>0. PresenceAt(c)
      BY PresenceOf
<1>1. ASSUME NEW how \in {"closed", "panicked"}, End(c, how), how = "closed" => present[c] = {}
      PROVE  PresenceInv'
  <2>1. /\ conn' = [conn EXCEPT ![c] = how] /\ joined' = [joined EXCEPT ![c] = {}]
        /\ call' = [call EXCEPT ![c] = NoCall] /\ UNCHANGED <<present, frames>>
        BY <1>1 DEF End
  <2>2. QED BY <1>0, <1>1, <2>1, PresenceConn DEF PresenceAt
<1>2. CASE Receive(c) \/ Lagged(c)
  <2>1. UNCHANGED <<conn, call, joined, present, frames>>
        BY <1>2 DEF Receive, Lagged
  <2>2. QED BY <2>1 DEF PresenceInv
<1>3. CASE Cleanup(c)
  <2>1. CASE joined[c] = {} /\ End(c, "closed")
        BY <1>0, <1>1, <1>3, <2>1 DEF Cleanup, PresenceAt
  <2>2. ASSUME NEW t \in joined[c], joined' = [joined EXCEPT ![c] = @ \ {t}],
               call' = [call EXCEPT ![c] = [op |-> "leave", topic |-> t]],
               UNCHANGED <<conn, present, next, client, server, pubsub>>
        PROVE  PresenceInv'
    <3> DEFINE cl == [op |-> "leave", topic |-> t]
    <3>1. /\ call' = [call EXCEPT ![c] = cl] /\ joined' = [joined EXCEPT ![c] = joined[c] \ {t}]
          /\ UNCHANGED <<conn, present, frames>>
          BY <2>2 DEF client
    <3>2. t \in Names /\ cl \in Call /\ cl.op = "leave" /\ cl.topic = t
          BY <1>0 DEF Call, PresenceAt
    <3>3. conn[c] = "closing" /\ present[c] = joined[c]
          BY <1>0, <1>3 DEF Cleanup, PresenceAt
    <3> HIDE DEF cl
    <3>4. QED BY <1>0, <3>1, <3>2, <3>3, PresenceConn DEF PresenceAt
  <2>3. QED BY <1>3, <2>1, <2>2 DEF Cleanup
<1>4. CASE Joined(c)
  <2>1. /\ call[c].op = "join" /\ UNCHANGED <<conn, frames>>
        /\ joined' = [joined EXCEPT ![c] = joined[c] \cup {call[c].topic}]
        /\ present' = [present EXCEPT ![c] = present[c] \cup {call[c].topic}]
        /\ call' = [call EXCEPT ![c] = NoCall]
        BY <1>4 DEF Joined, client
  <2>2. QED BY <1>0, <2>1, PresenceConn DEF PresenceAt
<1>5. CASE Answered(c) \/ Broadcasts(c)
  <2>1. /\ call[c].op \in {"join", "handle"} /\ UNCHANGED <<conn, joined, present, frames>>
        /\ call' = [call EXCEPT ![c] = NoCall]
        BY <1>5 DEF Answered, Broadcasts, client
  <2>2. QED BY <1>0, <2>1, PresenceConn DEF PresenceAt
<1>6. CASE Left(c)
  <2>1. /\ call[c].op = "leave" /\ UNCHANGED <<conn, joined, frames>>
        /\ present' = [present EXCEPT ![c] = present[c] \ {call[c].topic}]
        /\ call' = [call EXCEPT ![c] = NoCall]
        BY <1>6 DEF Left, client
  <2>2. present[c] \ {call[c].topic} = joined[c]
        BY <1>0, <2>1 DEF PresenceAt
  <2>3. QED BY <1>0, <2>1, <2>2, PresenceConn DEF PresenceAt
<1>7. CASE Panic(c)
      BY <1>1, <1>7 DEF Panic
<1>8. CASE Start(c)
  <2>1. /\ conn[c] = "none" /\ conn' = [conn EXCEPT ![c] = "open"]
        /\ UNCHANGED <<call, joined, present, frames>>
        BY <1>8 DEF Start, client
  <2>2. call[c] = NoCall
        BY <2>1 DEF PresenceInv, Live
  <2>3. QED BY <1>0, <2>1, <2>2, PresenceConn DEF PresenceAt
<1>9. CASE Disconnect(c)
  <2>1. /\ conn[c] = "open" /\ call[c] = NoCall /\ conn' = [conn EXCEPT ![c] = "closing"]
        /\ UNCHANGED <<call, joined, present, frames>>
        BY <1>9 DEF Disconnect, Selecting, client
  <2>2. QED BY <1>0, <2>1, PresenceConn DEF PresenceAt
<1>10. ASSUME NEW t \in Names, Join(c, t) \/ Leave(c, t) \/ Handle(c, t)
       PROVE  PresenceInv'
  <2>1. PICK op \in {"join", "leave", "handle"} :
            /\ Frame(c, op, t)
            /\ IF op = "leave" THEN t \in joined[c] /\ joined' = [joined EXCEPT ![c] = joined[c] \ {t}]
               ELSE UNCHANGED joined
        BY <1>10 DEF Join, Leave, Handle
  <2> DEFINE cl == [op |-> op, topic |-> t]
  <2>2. /\ conn[c] = "open" /\ call[c] = NoCall /\ frames' = frames + 1 /\ frames < MaxFrames
        /\ call' = [call EXCEPT ![c] = cl] /\ UNCHANGED <<conn, present>>
        BY <2>1 DEF Frame, Selecting
  <2>3. cl \in Call /\ cl.op = op /\ cl.topic = t
        BY DEF Call
  <2>4. present[c] = joined[c] /\ frames' \in 0 .. MaxFrames
        BY <1>0, <2>2 DEF PresenceAt
  <2> HIDE DEF cl
  <2>5. CASE op = "leave"
        BY <1>0, <2>1, <2>2, <2>3, <2>4, <2>5, PresenceConn DEF PresenceAt
  <2>6. CASE op # "leave"
        BY <1>0, <2>1, <2>2, <2>3, <2>4, <2>6, PresenceConn DEF PresenceAt
  <2>7. QED BY <2>5, <2>6
<1>11. QED BY <1>2, <1>3, <1>4, <1>5, <1>6, <1>7, <1>8, <1>9, <1>10 DEF Task, Client

-----------------------------------------------------------------------------
(* The rings *)

\* An event is given to the rings of some instances.
Fed(is, e) ==
    /\ ring' \in [Instances -> Seq(Event)]
    /\ \A i \in Instances : ring'[i] = IF i \in is THEN Append(ring[i], e) ELSE ring[i]

\* What a ring holds after it was fed.
LEMMA FedRing ==
    ASSUME RingsInv, NEW e \in Event, NEW is \in SUBSET Instances, Fed(is, e), NEW i \in Instances
    PROVE  /\ ring[i] \in Seq(Event) /\ Len(ring[i]) \in Nat
           /\ DOMAIN ring[i] = 1 .. Len(ring[i])
           /\ Len(ring'[i]) = IF i \in is THEN Len(ring[i]) + 1 ELSE Len(ring[i])
           /\ DOMAIN ring'[i] = 1 .. Len(ring'[i])
           /\ \A k \in 1 .. Len(ring[i]) : ring'[i][k] = ring[i][k]
           /\ i \in is => ring'[i][Len(ring[i]) + 1] = e
<1>1. ring[i] \in Seq(Event)
      BY DEF RingsInv
<1>2. ring'[i] = IF i \in is THEN Append(ring[i], e) ELSE ring[i]
      BY DEF Fed
<1>3. QED BY <1>1, <1>2

\* A new event has a number above all others, so it may follow them in its ring.
LEMMA RingsDispatch ==
    ASSUME RingsInv, NEW e \in Event, e.id = Len(events) + 1,
           events' = Append(events, e), tasks' \in {tasks, tasks \cup {e}},
           NEW is \in SUBSET Instances, \A i \in is : i = e.origin, Fed(is, e)
    PROVE  RingsInv'
<1>1. /\ events \in Seq(Event) /\ Len(events) \in Nat /\ DOMAIN events = 1 .. Len(events)
      /\ events' \in Seq(Event) /\ DOMAIN events' = 1 .. Len(events) + 1
      /\ \A n \in DOMAIN events : events'[n] = events[n]
      /\ events'[Len(events) + 1] = e
      BY DEF RingsInv
<1>2. \A i \in Instances : \A k \in DOMAIN ring[i] :
          ring[i][k].id \in DOMAIN events /\ events[ring[i][k].id] = ring[i][k]
      BY DEF RingsInv
<1>3. ring' \in [Instances -> Seq(Event)] /\ tasks' \subseteq Event
      BY DEF Fed, RingsInv
<1>4. ASSUME NEW x \in tasks'
      PROVE  /\ x.id \in DOMAIN events' /\ events'[x.id] = x
             /\ \A i \in Instances : i # x.origin => \A k \in DOMAIN ring'[i] : ring'[i][k].id # x.id
  <2>1. CASE x = e
    <3>1. ASSUME NEW i \in Instances, i # e.origin, NEW k \in DOMAIN ring'[i]
          PROVE  ring'[i][k].id # e.id
      <4>1. ring'[i] = ring[i]
            BY <3>1 DEF Fed
      <4>2. ring[i][k].id \in 1 .. Len(events)
            BY <1>1, <1>2, <3>1, <4>1
      <4>3. QED BY <1>1, <4>1, <4>2
    <3>2. QED BY <1>1, <2>1, <3>1
  <2>2. CASE x # e
    <3>1. /\ x.id \in DOMAIN events /\ events[x.id] = x
          /\ \A i \in Instances : i # x.origin => \A k \in DOMAIN ring[i] : ring[i][k].id # x.id
          BY <1>4, <2>2 DEF RingsInv
    <3>2. ASSUME NEW i \in Instances, i # x.origin, NEW k \in DOMAIN ring'[i]
          PROVE  ring'[i][k].id # x.id
      <4>1. CASE k \in DOMAIN ring[i]
        <5>1. ring'[i][k] = ring[i][k]
              BY <4>1, FedRing
        <5>2. QED BY <3>1, <3>2, <4>1, <5>1
      <4>2. CASE k \notin DOMAIN ring[i]
        <5>1. ring'[i][k] = e
              BY <3>2, <4>2, FedRing
        <5>2. QED BY <1>1, <3>1, <5>1
      <4>3. QED BY <4>1, <4>2
    <3>3. QED BY <1>1, <3>1, <3>2
  <2>3. QED BY <2>1, <2>2
<1>5. ASSUME NEW i \in Instances, NEW k \in DOMAIN ring'[i]
      PROVE  /\ ring'[i][k].id \in DOMAIN events' /\ events'[ring'[i][k].id] = ring'[i][k]
             /\ \A j \in 1 .. k - 1 :
                   /\ ring'[i][j].id # ring'[i][k].id
                   /\ ring'[i][j].origin = i /\ ring'[i][k].origin = i
                         => ring'[i][j].id < ring'[i][k].id
  <2>1. CASE k \in DOMAIN ring[i]
    <3>1. ring'[i][k] = ring[i][k] /\ \A j \in 1 .. k - 1 : ring'[i][j] = ring[i][j]
          BY <2>1, FedRing
    <3>2. /\ ring[i][k].id \in DOMAIN events /\ events[ring[i][k].id] = ring[i][k]
          /\ \A j \in 1 .. k - 1 :
                /\ ring[i][j].id # ring[i][k].id
                /\ ring[i][j].origin = i /\ ring[i][k].origin = i => ring[i][j].id < ring[i][k].id
          BY <2>1 DEF RingsInv
    <3>3. QED BY <1>1, <3>1, <3>2
  <2>2. CASE k \notin DOMAIN ring[i]
    <3>1. /\ ring'[i][k] = e /\ k = Len(ring[i]) + 1
          /\ \A j \in 1 .. k - 1 : j \in DOMAIN ring[i] /\ ring'[i][j] = ring[i][j]
          BY <2>2, FedRing
    <3>2. \A j \in 1 .. k - 1 : ring'[i][j].id \in 1 .. Len(events)
          BY <1>1, <1>2, <3>1
    <3>3. QED BY <1>1, <3>1, <3>2
  <2>3. QED BY <2>1, <2>2
<1>6. QED BY <1>1, <1>3, <1>4, <1>5 DEF RingsInv

\* A published event reaches rings that do not hold it.
LEMMA RingsPublish ==
    ASSUME RingsInv, NEW e \in tasks, NEW is \in SUBSET (Instances \ {e.origin}), Fed(is, e),
           events' = events, tasks' = tasks \ {e}
    PROVE  RingsInv'
<1>1. /\ e \in Event /\ e.id \in DOMAIN events /\ events[e.id] = e /\ is \in SUBSET Instances
      /\ \A i \in is : \A k \in DOMAIN ring[i] : ring[i][k].id # e.id
      BY DEF RingsInv
<1>2. events' \in Seq(Event) /\ ring' \in [Instances -> Seq(Event)] /\ tasks' \subseteq Event
      BY DEF Fed, RingsInv
<1>3. ASSUME NEW x \in tasks', NEW i \in Instances, i # x.origin, NEW k \in DOMAIN ring'[i]
      PROVE  ring'[i][k].id # x.id
  <2>1. /\ events[x.id] = x /\ x # e
        /\ \A n \in DOMAIN ring[i] : ring[i][n].id # x.id
        BY <1>3 DEF RingsInv
  <2>2. QED BY <1>1, <2>1, FedRing
<1>4. ASSUME NEW i \in Instances, NEW k \in DOMAIN ring'[i]
      PROVE  /\ ring'[i][k].id \in DOMAIN events /\ events[ring'[i][k].id] = ring'[i][k]
             /\ \A j \in 1 .. k - 1 :
                   /\ ring'[i][j].id # ring'[i][k].id
                   /\ ring'[i][j].origin = i /\ ring'[i][k].origin = i
                         => ring'[i][j].id < ring'[i][k].id
  <2>1. CASE k \in DOMAIN ring[i]
    <3>1. ring'[i][k] = ring[i][k] /\ \A j \in 1 .. k - 1 : ring'[i][j] = ring[i][j]
          BY <1>1, <2>1, FedRing
    <3>2. QED BY <2>1, <3>1 DEF RingsInv
  <2>2. CASE k \notin DOMAIN ring[i]
    <3>1. /\ i \in is /\ ring'[i][k] = e /\ k = Len(ring[i]) + 1
          /\ \A j \in 1 .. k - 1 : j \in DOMAIN ring[i] /\ ring'[i][j] = ring[i][j]
          BY <1>1, <2>2, FedRing
    <3>2. QED BY <1>1, <3>1
  <2>3. QED BY <2>1, <2>2
<1>5. QED BY <1>2, <1>3, <1>4 DEF RingsInv

-----------------------------------------------------------------------------
(* What clients are sent *)

\* A longer ring changes nothing about what was read of it.
LEMMA SeenFed ==
    ASSUME RingsInv, SeenInv, NEW e \in Event, NEW is \in SUBSET Instances, Fed(is, e),
           UNCHANGED <<next, seen>>
    PROVE  SeenInv'
<1>1. ASSUME NEW c \in Conns PROVE SeenRight(c, ring'[Home[c]], next[c], seen[c])
  <2>1. Home[c] \in Instances
        BY WsAssumption
  <2>2. /\ Len(ring[Home[c]]) \in Nat /\ Len(ring'[Home[c]]) \in Nat
        /\ Len(ring[Home[c]]) <= Len(ring'[Home[c]])
        /\ \A p \in 1 .. Len(ring[Home[c]]) : ring'[Home[c]][p] = ring[Home[c]][p]
        BY <2>1, FedRing
  <2>3. SeenRight(c, ring[Home[c]], next[c], seen[c]) /\ next[c] \in Nat
        BY DEF SeenInv
  <2>4. next[c] \in 1 .. Len(ring'[Home[c]]) + 1
        BY <2>2, <2>3 DEF SeenRight
  <2>5. \A p \in 1 .. next[c] - 1 : ring'[Home[c]][p] = ring[Home[c]][p]
        BY <2>2, <2>3 DEF SeenRight
  <2> DEFINE r == ring[Home[c]]
             q == ring'[Home[c]]
             n == next[c]
             s == seen[c]
  <2>6. SeenRight(c, r, n, s) /\ n \in 1 .. Len(q) + 1 /\ \A p \in 1 .. n - 1 : q[p] = r[p]
        BY <2>3, <2>4, <2>5
  <2> HIDE DEF r, q, n, s
  <2>7. \A k \in DOMAIN s : \E p \in 1 .. n - 1 : q[p] = s[k]
        BY <2>6 DEF SeenRight
  <2>8. SeenRight(c, q, n, s)
        BY <2>6, <2>7 DEF SeenRight
  <2>9. QED BY <2>8 DEF q, n, s
<1>2. next' \in [Conns -> Nat] /\ seen' \in [Conns -> Seq(Event)]
      BY DEF SeenInv
<1>3. UNCHANGED <<next, seen>>
      OBVIOUS
<1>4. QED BY ONLY <1>1, <1>2, <1>3 DEF SeenInv, SeenRight

\* One task's place in the ring and what it sent, when no ring changes.
LEMMA SeenConn ==
    ASSUME SeenInv, UNCHANGED ring, NEW c \in Conns,
           next' \in [Conns -> Nat], seen' \in [Conns -> Seq(Event)],
           \A d \in Conns : d # c => next'[d] = next[d] /\ seen'[d] = seen[d],
           SeenRight(c, ring[Home[c]], next'[c], seen'[c])
    PROVE  SeenInv'
<1>1. \A d \in Conns : SeenRight(d, ring[Home[d]], next'[d], seen'[d])
      BY DEF SeenInv
<1>2. QED BY <1>1 DEF SeenInv, SeenRight

\* Receive(): the event is behind all that was sent before, in the ring and so in what
\* the client is sent.
LEMMA SeenReceive ==
    ASSUME RingsInv, SeenInv, NEW c \in Conns, Receive(c)
    PROVE  SeenInv'
<1> DEFINE r == ring[Home[c]]
           n == next[c]
           e == r[n]
           s == seen[c]
           m == n + 1
<1>1. /\ Home[c] \in Instances /\ r \in Seq(Event) /\ Len(r) \in Nat /\ n \in Nat
      /\ s \in Seq(Event) /\ Len(s) \in Nat
      /\ next \in [Conns -> Nat] /\ seen \in [Conns -> Seq(Event)]
      BY WsAssumption DEF RingsInv, SeenInv
<1>2. Oldest(Home[c]) \in Nat /\ Oldest(Home[c]) >= 1
      BY <1>1, WsAssumption DEF Oldest
<1>3. /\ n \in 1 .. Len(r) /\ n \in DOMAIN r /\ next' = [next EXCEPT ![c] = m] /\ UNCHANGED ring
      /\ seen' = IF Wanted(c, e) THEN [seen EXCEPT ![c] = Append(s, e)] ELSE seen
      BY <1>1, <1>2 DEF Receive, server
<1>4. e \in Event /\ m \in 1 .. Len(r) + 1 /\ m \in Nat
      BY <1>1, <1>3
<1>5. next' \in [Conns -> Nat] /\ next'[c] = m /\ \A d \in Conns : d # c => next'[d] = next[d]
      BY <1>1, <1>3, <1>4
<1>6. SeenRight(c, r, n, s)
      BY DEF SeenInv
<1>7. /\ r[n].id \in DOMAIN events
      /\ \A j \in 1 .. n - 1 :
            /\ r[j].id # r[n].id
            /\ r[j].origin = Home[c] /\ r[n].origin = Home[c] => r[j].id < r[n].id
      BY <1>1, <1>3 DEF RingsInv
<1> HIDE DEF r, n, s, m
<1>8. ASSUME NEW k \in DOMAIN s
      PROVE  s[k].id # e.id /\ (s[k].origin = Home[c] /\ e.origin = Home[c] => s[k].id < e.id)
  <2>1. PICK p \in 1 .. n - 1 : r[p] = s[k]
        BY <1>6 DEF SeenRight
  <2>2. QED BY <1>7, <2>1
<1> HIDE DEF e
<1>9. \A k \in DOMAIN s : \E p \in 1 .. m - 1 : r[p] = s[k]
      BY <1>1, <1>6 DEF SeenRight, m
<1>10. CASE ~Wanted(c, e)
  <2>1. seen' = seen
        BY <1>3, <1>10
  <2>2. SeenRight(c, r, m, s)
        BY <1>4, <1>6, <1>9 DEF SeenRight
  <2>3. QED BY <1>1, <1>3, <1>5, <2>1, <2>2, SeenConn DEF r, n, s
<1>11. CASE Wanted(c, e)
  <2> DEFINE u == Append(s, e)
  <2>1. /\ u \in Seq(Event) /\ DOMAIN u = 1 .. Len(s) + 1 /\ DOMAIN s = 1 .. Len(s)
        /\ \A k \in 1 .. Len(s) : u[k] = s[k]
        /\ u[Len(s) + 1] = e
        BY <1>1, <1>4
  <2>2. seen' \in [Conns -> Seq(Event)] /\ seen'[c] = u /\ \A d \in Conns : d # c => seen'[d] = seen[d]
        BY <1>1, <1>3, <1>11, <2>1
  <2> HIDE DEF u
  <2>3. e.exclude # c
        BY <1>11 DEF Wanted
  <2>4. ASSUME NEW k \in DOMAIN u
        PROVE  /\ \E p \in 1 .. m - 1 : r[p] = u[k]
               /\ u[k].exclude # c
               /\ \A j \in 1 .. k - 1 :
                     /\ u[j].id # u[k].id
                     /\ u[j].origin = Home[c] /\ u[k].origin = Home[c] => u[j].id < u[k].id
    <3>1. CASE k \in 1 .. Len(s)
      <4>1. k \in DOMAIN s /\ u[k] = s[k] /\ \A j \in 1 .. k - 1 : u[j] = s[j]
            BY <1>1, <2>1, <3>1
      <4>2. QED BY <1>6, <1>9, <4>1 DEF SeenRight
    <3>2. CASE k = Len(s) + 1
      <4>1. u[k] = e /\ \A j \in 1 .. k - 1 : j \in DOMAIN s /\ u[j] = s[j]
            BY <1>1, <2>1, <3>2
      <4>2. n \in 1 .. m - 1 /\ r[n] = u[k]
            BY <1>1, <1>3, <4>1 DEF e, m
      <4>3. QED BY <1>8, <2>3, <4>1, <4>2
    <3>3. QED BY <1>1, <2>1, <2>4, <3>1, <3>2
  <2>5. SeenRight(c, r, m, u)
        BY <1>4, <2>4 DEF SeenRight
  <2>6. QED BY <1>1, <1>3, <1>5, <2>2, <2>5, SeenConn DEF r
<1>12. QED BY <1>10, <1>11

\* Every step of a connection that feeds no ring keeps what was sent right.
LEMMA SeenKept ==
    ASSUME RingsInv, SeenInv, NEW c \in Conns, Task(c) \/ Client(c), UNCHANGED ring
    PROVE  SeenInv'
<1> DEFINE r == ring[Home[c]]
<1>1. /\ Home[c] \in Instances /\ r \in Seq(Event) /\ Len(r) \in Nat
      /\ next \in [Conns -> Nat] /\ seen \in [Conns -> Seq(Event)]
      /\ SeenRight(c, r, next[c], seen[c]) /\ <<>> \in Seq(Event)
      BY WsAssumption DEF RingsInv, SeenInv
<1>2. CASE UNCHANGED <<next, seen>>
      BY <1>2 DEF SeenInv, SeenRight
<1>3. CASE Receive(c)
      BY <1>3, SeenReceive
<1>4. ASSUME next' = [next EXCEPT ![c] = 1], seen' = [seen EXCEPT ![c] = <<>>]
      PROVE  SeenInv'
  <2>1. SeenRight(c, r, 1, <<>>)
        BY <1>1 DEF SeenRight
  <2>2. next' \in [Conns -> Nat] /\ seen' \in [Conns -> Seq(Event)] /\ next'[c] = 1 /\ seen'[c] = <<>>
        BY <1>1, <1>4
  <2>3. \A d \in Conns : d # c => next'[d] = next[d] /\ seen'[d] = seen[d]
        BY <1>1, <1>4
  <2>4. QED BY <2>1, <2>2, <2>3, SeenConn
<1>5. ASSUME NEW n \in Nat, next[c] <= n, n <= Len(r) + 1, next' = [next EXCEPT ![c] = n],
             UNCHANGED seen
      PROVE  SeenInv'
  <2>1. SeenRight(c, r, n, seen[c])
    <3>1. next[c] \in Nat /\ n \in 1 .. Len(r) + 1 /\ \A p \in 1 .. next[c] - 1 : p \in 1 .. n - 1
          BY <1>1, <1>5 DEF SeenRight
    <3> HIDE DEF r
    <3>2. QED BY <1>1, <3>1 DEF SeenRight
  <2>2. next' \in [Conns -> Nat] /\ next'[c] = n /\ \A d \in Conns : d # c => next'[d] = next[d]
        BY <1>1, <1>5
  <2>3. QED BY <1>1, <1>5, <2>1, <2>2, SeenConn
<1>6. CASE Lagged(c)
  <2>1. Oldest(Home[c]) \in Nat /\ Oldest(Home[c]) <= Len(r) + 1
        BY <1>1, WsAssumption DEF Oldest
  <2>2. next[c] <= Oldest(Home[c]) /\ next' = [next EXCEPT ![c] = Oldest(Home[c])] /\ UNCHANGED seen
        BY <1>1, <1>6, <2>1 DEF Lagged
  <2>3. QED BY <1>5, <2>1, <2>2
<1>7. CASE Start(c)
  <2>1. next' = [next EXCEPT ![c] = Len(r) + 1] /\ UNCHANGED seen
        BY <1>7 DEF Start, client
  <2> DEFINE n == Len(r) + 1
  <2>2. next[c] <= n /\ n <= Len(r) + 1 /\ n \in Nat
        BY <1>1 DEF SeenRight
  <2>3. next' = [next EXCEPT ![c] = n] /\ UNCHANGED seen
        BY <2>1
  <2> HIDE DEF n
  <2>4. QED BY <1>5, <2>2, <2>3
<1>8. CASE Cleanup(c) \/ Panic(c)
      BY <1>2, <1>4, <1>8 DEF Cleanup, Panic, End, client
<1>9. CASE Joined(c) \/ Answered(c) \/ Broadcasts(c) \/ Left(c)
      BY <1>2, <1>9 DEF Joined, Answered, Broadcasts, Left, client
<1>10. CASE Disconnect(c) \/ \E t \in Names : Join(c, t) \/ Leave(c, t) \/ Handle(c, t)
      BY <1>2, <1>10 DEF Disconnect, Join, Leave, Handle, Frame, client
<1>11. QED BY <1>3, <1>6, <1>7, <1>8, <1>9, <1>10 DEF Task, Client

-----------------------------------------------------------------------------
(* What clients are owed *)

\* One connection's debts, when no ring changes.
LEMMA OwedConn ==
    ASSUME OwedInv, UNCHANGED ring, NEW c \in Conns,
           owed' \in [Conns -> SUBSET Event], skipped' \in [Conns -> SUBSET Event],
           \A d \in Conns : d # c =>
               /\ conn'[d] = conn[d] /\ joined'[d] = joined[d] /\ owed'[d] = owed[d]
               /\ skipped'[d] = skipped[d] /\ next'[d] = next[d] /\ seen'[d] = seen[d],
           OwedRight(c, conn'[c], joined'[c], owed'[c], skipped'[c], ring[Home[c]], next'[c], seen'[c])
    PROVE  OwedInv'
<1>1. \A d \in Conns : OwedRight(d, conn'[d], joined'[d], owed'[d], skipped'[d],
                                 ring[Home[d]], next'[d], seen'[d])
      BY DEF OwedInv
<1>2. QED BY <1>1 DEF OwedInv, OwedRight, Pending, ToSet

\* An event given to rings is owed to those who are to get it, and is in their rings.
LEMMA OwedFed ==
    ASSUME RingsInv, SeenInv, OwedInv, NEW e \in Event, NEW is \in SUBSET Instances, Fed(is, e),
           Owe(is, e), UNCHANGED <<conn, joined, next, seen, skipped>>
    PROVE  OwedInv'
<1>1. ASSUME NEW c \in Conns
      PROVE  /\ owed'[c] \in SUBSET Event
             /\ OwedRight(c, conn[c], joined[c], owed'[c], skipped[c], ring'[Home[c]], next[c], seen[c])
  <2> DEFINE r == ring[Home[c]]
             q == ring'[Home[c]]
             n == next[c]
  <2>1. /\ owed'[c] = IF /\ Home[c] \in is /\ conn[c] = "open"
                         /\ e.topic \in joined[c] \cup {c} /\ e.exclude # c
                      THEN owed[c] \cup {e} ELSE owed[c]
        BY DEF Owe
  <2>2. /\ OwedRight(c, conn[c], joined[c], owed[c], skipped[c], r, n, seen[c])
        /\ owed[c] \in SUBSET Event
        BY DEF OwedInv
  <2>3. Home[c] \in Instances /\ n \in Nat /\ n >= 1 /\ n <= Len(r) + 1
        BY WsAssumption DEF SeenInv, SeenRight
  <2>4. /\ Len(r) \in Nat /\ Len(q) = IF Home[c] \in is THEN Len(r) + 1 ELSE Len(r)
        /\ \A k \in 1 .. Len(r) : q[k] = r[k]
        /\ Home[c] \in is => q[Len(r) + 1] = e
        BY <2>3, FedRing
  <2> HIDE DEF r, q, n
  <2>5. \A x : Pending(r, n, seen[c], x) => Pending(q, n, seen[c], x)
    <3>1. \A k \in n .. Len(r) : k \in n .. Len(q) /\ q[k] = r[k]
          BY <2>3, <2>4
    <3>2. QED BY <3>1 DEF Pending
  <2>6. Home[c] \in is => Pending(q, n, seen[c], e)
    <3>1. Home[c] \in is => Len(r) + 1 \in n .. Len(q) /\ q[Len(r) + 1] = e
          BY <2>3, <2>4
    <3>2. QED BY <3>1 DEF Pending
  <2>7. OwedRight(c, conn[c], joined[c], owed'[c], skipped[c], q, n, seen[c])
        BY <2>1, <2>2, <2>5, <2>6 DEF OwedRight
  <2>8. QED BY <2>1, <2>2, <2>7 DEF q, n
<1>2. owed' \in [Conns -> SUBSET Event]
      BY <1>1 DEF Owe
<1>3. QED BY <1>1, <1>2 DEF OwedInv, OwedRight, Pending, ToSet

\* Receive(): an owed event is wanted, so it is sent.
LEMMA OwedReceive ==
    ASSUME RingsInv, SeenInv, OwedInv, NEW c \in Conns, Receive(c)
    PROVE  OwedInv'
<1> DEFINE r == ring[Home[c]]
           n == next[c]
           e == r[n]
           s == seen[c]
<1>1. /\ Home[c] \in Instances /\ r \in Seq(Event) /\ Len(r) \in Nat /\ n \in Nat /\ s \in Seq(Event)
      /\ next \in [Conns -> Nat] /\ seen \in [Conns -> Seq(Event)]
      BY WsAssumption DEF RingsInv, SeenInv
<1>2. Oldest(Home[c]) \in Nat /\ Oldest(Home[c]) >= 1
      BY <1>1, WsAssumption DEF Oldest
<1>3. /\ n \in 1 .. Len(r) /\ next' = [next EXCEPT ![c] = n + 1]
      /\ seen' = IF Wanted(c, e) THEN [seen EXCEPT ![c] = Append(s, e)] ELSE seen
      /\ UNCHANGED <<ring, conn, joined, owed, skipped>>
      BY <1>1, <1>2 DEF Receive, server
<1>4. e \in Event
      BY <1>1, <1>3
<1>5. ToSet(Append(s, e)) = ToSet(s) \cup {e}
  <2> DEFINE u == Append(s, e)
  <2>1. /\ Len(s) \in Nat /\ DOMAIN s = 1 .. Len(s) /\ DOMAIN u = 1 .. Len(s) + 1
        /\ \A k \in 1 .. Len(s) : u[k] = s[k]
        /\ u[Len(s) + 1] = e
        BY <1>1, <1>4
  <2> HIDE DEF u, s, e
  <2>2. ToSet(u) = ToSet(s) \cup {e}
    <3>1. \A k \in DOMAIN u : u[k] \in ToSet(s) \cup {e}
          BY <2>1 DEF ToSet
    <3>2. \A k \in DOMAIN s : k \in DOMAIN u /\ u[k] = s[k]
          BY <2>1
    <3>3. Len(s) + 1 \in DOMAIN u
          BY <2>1
    <3>4. QED BY <2>1, <3>1, <3>2, <3>3 DEF ToSet
  <2>3. QED BY <2>2 DEF u
<1>6. /\ next'[c] = n + 1 /\ seen'[c] = IF Wanted(c, e) THEN Append(s, e) ELSE s
      /\ \A d \in Conns : d # c => next'[d] = next[d] /\ seen'[d] = seen[d]
      BY <1>1, <1>3, <1>4
<1>7. OwedRight(c, conn[c], joined[c], owed[c], skipped[c], r, n, s)
      BY DEF OwedInv
<1>8. ASSUME NEW x \in owed[c] \ skipped[c] PROVE Pending(r, n + 1, seen'[c], x)
  <2>1. Pending(r, n, s, x) /\ (x.topic = c \/ x.topic \in joined[c]) /\ x.exclude # c
        BY <1>7 DEF OwedRight
  <2> HIDE DEF r, n, s, e
  <2>2. CASE x \in ToSet(s)
        BY <1>5, <1>6, <2>2 DEF Pending
  <2>3. CASE x = e
        BY <1>5, <1>6, <2>1, <2>3 DEF Pending, Wanted
  <2>4. ASSUME NEW k \in n .. Len(r), r[k] = x, k # n PROVE Pending(r, n + 1, seen'[c], x)
    <3>1. k \in n + 1 .. Len(r)
          BY <1>1, <2>4
    <3>2. QED BY <2>4, <3>1 DEF Pending
  <2>5. QED BY <2>1, <2>2, <2>3, <2>4 DEF Pending, e
<1>9. OwedRight(c, conn[c], joined[c], owed[c], skipped[c], r, n + 1, seen'[c])
      BY <1>7, <1>8 DEF OwedRight
<1>10. owed' \in [Conns -> SUBSET Event] /\ skipped' \in [Conns -> SUBSET Event]
      BY <1>3 DEF OwedInv
<1> HIDE DEF n, s, e
<1>11. QED BY <1>3, <1>6, <1>9, <1>10, OwedConn

\* Every step of a connection that feeds no ring keeps its debts right.
LEMMA OwedKept ==
    ASSUME PresenceInv, RingsInv, SeenInv, OwedInv, NEW c \in Conns, Task(c) \/ Client(c),
           ~Broadcasts(c)
    PROVE  OwedInv'
<1> DEFINE r == ring[Home[c]]
           n == next[c]
<1>1. /\ Home[c] \in Instances /\ r \in Seq(Event) /\ Len(r) \in Nat /\ n \in Nat
      /\ next \in [Conns -> Nat] /\ seen \in [Conns -> Seq(Event)]
      /\ owed \in [Conns -> SUBSET Event] /\ skipped \in [Conns -> SUBSET Event]
      BY WsAssumption DEF RingsInv, SeenInv, OwedInv
<1>2. /\ conn \in [Conns -> Live \cup {"none", "closed", "panicked"}]
      /\ joined \in [Conns -> SUBSET Names]
      BY DEF PresenceInv
<1>3. OwedRight(c, conn[c], joined[c], owed[c], skipped[c], r, n, seen[c])
      BY DEF OwedInv
<1>4. ASSUME NEW x, conn' = [conn EXCEPT ![c] = x], UNCHANGED ring,
             NEW ow \in SUBSET owed[c], owed' = [owed EXCEPT ![c] = ow],
             NEW sk \in SUBSET Event, skipped' = [skipped EXCEPT ![c] = sk],
             NEW jn, joined' = [joined EXCEPT ![c] = jn],
             NEW m, next' = [next EXCEPT ![c] = m],
             NEW s, seen' = [seen EXCEPT ![c] = s],
             OwedRight(c, x, jn, ow, sk, r, m, s)
      PROVE  OwedInv'
  <2>1. /\ owed' \in [Conns -> SUBSET Event] /\ skipped' \in [Conns -> SUBSET Event]
        /\ conn'[c] = x /\ owed'[c] = ow /\ skipped'[c] = sk /\ joined'[c] = jn /\ next'[c] = m
        /\ seen'[c] = s
        BY <1>1, <1>2, <1>4
  <2>2. \A d \in Conns : d # c =>
               /\ conn'[d] = conn[d] /\ joined'[d] = joined[d] /\ owed'[d] = owed[d]
               /\ skipped'[d] = skipped[d] /\ next'[d] = next[d] /\ seen'[d] = seen[d]
        BY <1>1, <1>2, <1>4
  <2>3. QED BY <1>4, <2>1, <2>2, OwedConn
<1>5. CASE UNCHANGED <<conn, joined, owed, skipped, ring, next, seen>>
      BY <1>5 DEF OwedInv, OwedRight, Pending, ToSet
<1>6. CASE Receive(c)
      BY <1>6, OwedReceive
<1>7. ASSUME NEW how, End(c, how), how # "open" PROVE OwedInv'
  <2>1. OwedRight(c, how, {}, {}, {}, r, 1, <<>>)
        BY <1>7 DEF OwedRight
  <2>2. QED BY <1>4, <1>7, <2>1 DEF End
<1>8. CASE Lagged(c)
  <2> DEFINE m == Oldest(Home[c])
             sk == skipped[c] \cup {r[k] : k \in n .. m - 1}
  <2>1. m \in Nat /\ m >= 1 /\ m <= Len(r) + 1
        BY <1>1, WsAssumption DEF Oldest
  <2>2. /\ n < m /\ next' = [next EXCEPT ![c] = m] /\ skipped' = [skipped EXCEPT ![c] = sk]
        /\ UNCHANGED <<conn, joined, owed, ring, seen>>
        BY <1>8 DEF Lagged, server
  <2>3. n >= 1
        BY <1>1 DEF SeenInv, SeenRight
  <2>4. \A k \in n .. m - 1 : k \in DOMAIN r /\ r[k] \in Event
        BY <1>1, <2>1, <2>3
  <2>5. sk \in SUBSET Event
        BY <1>1, <2>4
  <2>6. OwedRight(c, conn[c], joined[c], owed[c], sk, r, m, seen[c])
    <3>1. ASSUME NEW e \in owed[c] \ sk PROVE Pending(r, m, seen[c], e)
      <4>1. Pending(r, n, seen[c], e)
            BY <1>3, <3>1 DEF OwedRight
      <4>2. \A k \in n .. Len(r) : r[k] = e => k \in m .. Len(r)
            BY <1>1, <2>1, <3>1
      <4>3. QED BY <4>1, <4>2 DEF Pending
    <3>2. QED BY <1>3, <3>1 DEF OwedRight
  <2>7. /\ conn' = [conn EXCEPT ![c] = conn[c]] /\ joined' = [joined EXCEPT ![c] = joined[c]]
        /\ owed' = [owed EXCEPT ![c] = owed[c]] /\ seen' = [seen EXCEPT ![c] = seen[c]]
        BY <1>1, <1>2, <2>2
  <2> HIDE DEF m, sk
  <2>8. QED BY <1>4, <2>2, <2>5, <2>6, <2>7
<1>9. CASE Start(c)
  <2>1. /\ conn[c] = "none" /\ conn' = [conn EXCEPT ![c] = "open"]
        /\ next' = [next EXCEPT ![c] = Len(r) + 1] /\ UNCHANGED <<joined, owed, skipped, ring, seen>>
        BY <1>9 DEF Start, client, server
  <2>2. owed[c] = {}
        BY <1>3, <2>1 DEF OwedRight
  <2>3. OwedRight(c, "open", joined[c], owed[c], skipped[c], r, Len(r) + 1, seen[c])
        BY <2>2 DEF OwedRight
  <2>4. /\ joined' = [joined EXCEPT ![c] = joined[c]] /\ owed' = [owed EXCEPT ![c] = owed[c]]
        /\ skipped' = [skipped EXCEPT ![c] = skipped[c]] /\ seen' = [seen EXCEPT ![c] = seen[c]]
        BY <1>1, <1>2, <2>1
  <2>5. skipped[c] \in SUBSET Event
        BY <1>1
  <2>6. QED BY <1>4, <2>1, <2>3, <2>4, <2>5
<1>10. CASE Disconnect(c)
  <2>1. /\ conn' = [conn EXCEPT ![c] = "closing"] /\ owed' = [owed EXCEPT ![c] = {}]
        /\ UNCHANGED <<joined, skipped, ring, next, seen>>
        BY <1>10 DEF Disconnect, client
  <2>2. OwedRight(c, "closing", joined[c], {}, skipped[c], r, n, seen[c])
        BY DEF OwedRight
  <2>3. /\ joined' = [joined EXCEPT ![c] = joined[c]] /\ next' = [next EXCEPT ![c] = n]
        /\ skipped' = [skipped EXCEPT ![c] = skipped[c]] /\ seen' = [seen EXCEPT ![c] = seen[c]]
        BY <1>1, <1>2, <2>1
  <2>4. skipped[c] \in SUBSET Event
        BY <1>1
  <2>5. QED BY <1>4, <2>1, <2>2, <2>3, <2>4
<1>11. ASSUME NEW jn, joined' = [joined EXCEPT ![c] = jn],
              NEW ow \in SUBSET owed[c], owed' = [owed EXCEPT ![c] = ow],
              UNCHANGED <<conn, ring, next, seen, skipped>>,
              \A e \in ow : e.topic = c \/ e.topic \in jn
       PROVE  OwedInv'
  <2>1. OwedRight(c, conn[c], jn, ow, skipped[c], r, n, seen[c])
        BY <1>3, <1>11 DEF OwedRight
  <2>2. /\ conn' = [conn EXCEPT ![c] = conn[c]] /\ next' = [next EXCEPT ![c] = n]
        /\ skipped' = [skipped EXCEPT ![c] = skipped[c]] /\ seen' = [seen EXCEPT ![c] = seen[c]]
        BY <1>1, <1>2, <1>11
  <2>3. skipped[c] \in SUBSET Event
        BY <1>1
  <2>4. QED BY <1>4, <1>11, <2>1, <2>2, <2>3
<1>12. CASE Joined(c)
  <2>1. /\ joined' = [joined EXCEPT ![c] = joined[c] \cup {call[c].topic}]
        /\ UNCHANGED <<conn, ring, next, seen, skipped, owed>>
        BY <1>12 DEF Joined, server
  <2>2. /\ owed' = [owed EXCEPT ![c] = owed[c]]
        /\ \A e \in owed[c] : e.topic = c \/ e.topic \in joined[c] \cup {call[c].topic}
        BY <1>1, <1>3, <2>1 DEF OwedRight
  <2>3. QED BY <1>11, <2>1, <2>2
<1>13. ASSUME NEW t \in Names, Leave(c, t) PROVE OwedInv'
  <2> DEFINE ow == {e \in owed[c] : e.topic \in (joined[c] \ {t}) \cup {c}}
  <2>1. /\ joined' = [joined EXCEPT ![c] = joined[c] \ {t}] /\ owed' = [owed EXCEPT ![c] = ow]
        /\ UNCHANGED <<conn, ring, next, seen, skipped>>
        BY <1>13 DEF Leave, Frame
  <2>2. ow \in SUBSET owed[c] /\ \A e \in ow : e.topic = c \/ e.topic \in joined[c] \ {t}
        BY <1>3 DEF OwedRight
  <2> HIDE DEF ow
  <2>3. QED BY <1>11, <2>1, <2>2
<1>14. CASE Cleanup(c)
  <2>1. ASSUME NEW t \in joined[c], joined' = [joined EXCEPT ![c] = joined[c] \ {t}],
               UNCHANGED <<conn, ring, next, seen, skipped, owed>>
        PROVE  OwedInv'
    <3>1. owed[c] = {} /\ owed' = [owed EXCEPT ![c] = owed[c]]
          BY <1>1, <1>3, <1>14, <2>1 DEF Cleanup, OwedRight
    <3>2. QED BY <1>11, <2>1, <3>1
  <2>2. QED BY <1>7, <1>14, <2>1 DEF Cleanup, client, server
<1>15. CASE Panic(c)
      BY <1>7, <1>15 DEF Panic
<1>16. CASE Answered(c) \/ Left(c) \/ \E t \in Names : Join(c, t) \/ Handle(c, t)
      BY <1>5, <1>16 DEF Answered, Left, Join, Handle, Frame, client, server
<1>17. QED BY <1>6, <1>8, <1>9, <1>10, <1>12, <1>13, <1>14, <1>15, <1>16 DEF Task, Client

-----------------------------------------------------------------------------
(* What clients are let into *)

\* One connection's topics and what its client was sent.
LEMMA AdmittedConn ==
    ASSUME AdmittedInv, NEW c \in Conns, admitted' \in [Conns -> SUBSET Names],
           \A d \in Conns : d # c => /\ admitted'[d] = admitted[d] /\ joined'[d] = joined[d]
                                     /\ call'[d] = call[d] /\ seen'[d] = seen[d],
           AdmittedRight(c, admitted'[c], joined'[c], call'[c], seen'[c])
    PROVE  AdmittedInv'
<1>1. \A d \in Conns : AdmittedRight(d, admitted'[d], joined'[d], call'[d], seen'[d])
      BY DEF AdmittedInv
<1>2. QED BY <1>1 DEF AdmittedInv, AdmittedRight, Find

\* A client gets an event because it is addressed to it or because it is joined to the
\* topic, and it is joined only to what a join() let it into.
LEMMA AdmittedKept ==
    ASSUME PresenceInv, SeenInv, AdmittedInv, NEW c \in Conns, Task(c) \/ Client(c)
    PROVE  AdmittedInv'
<1> DEFINE ad == admitted[c]
           jn == joined[c]
<1>1. /\ admitted \in [Conns -> SUBSET Names] /\ joined \in [Conns -> SUBSET Names]
      /\ call \in [Conns -> Call] /\ seen \in [Conns -> Seq(Event)]
      BY DEF AdmittedInv, PresenceInv, SeenInv
<1>2. AdmittedRight(c, ad, jn, call[c], seen[c]) /\ NoCall.op # "join"
      BY DEF AdmittedInv, NoCall
<1>3. CASE UNCHANGED <<admitted, joined, call, seen>>
      BY <1>3 DEF AdmittedInv, AdmittedRight, Find
<1>4. ASSUME NEW js \in SUBSET jn, joined' = [joined EXCEPT ![c] = js],
             NEW cl, call' = [call EXCEPT ![c] = cl], cl.op = "join" => Find(cl.topic),
             UNCHANGED <<admitted, seen>>
      PROVE  AdmittedInv'
  <2>1. AdmittedRight(c, ad, js, cl, seen[c])
        BY <1>2, <1>4 DEF AdmittedRight
  <2>2. QED BY <1>1, <1>4, <2>1, AdmittedConn
<1>5. ASSUME NEW how, End(c, how) PROVE AdmittedInv'
  <2>1. AdmittedRight(c, {}, {}, NoCall, <<>>)
        BY <1>2 DEF AdmittedRight
  <2>2. /\ admitted' = [admitted EXCEPT ![c] = {}] /\ joined' = [joined EXCEPT ![c] = {}]
        /\ call' = [call EXCEPT ![c] = NoCall] /\ seen' = [seen EXCEPT ![c] = <<>>]
        BY <1>5 DEF End
  <2>3. QED BY <1>1, <2>1, <2>2, AdmittedConn
<1>6. CASE Receive(c)
  <2> DEFINE e == ring[Home[c]][next[c]]
             s == seen[c]
  <2>1. CASE Wanted(c, e)
    <3> DEFINE u == Append(s, e)
    <3>1. e.topic \in {c} \cup ad
          BY <1>2, <2>1 DEF Wanted, AdmittedRight
    <3>2. /\ Len(s) \in Nat /\ DOMAIN s = 1 .. Len(s) /\ DOMAIN u = 1 .. Len(s) + 1
          /\ (\A k \in 1 .. Len(s) : u[k] = s[k]) /\ u[Len(s) + 1] = e
          BY <1>1
    <3>3. /\ seen' = [seen EXCEPT ![c] = u] /\ UNCHANGED <<admitted, joined, call>>
          BY <1>6, <2>1 DEF Receive
    <3> HIDE DEF u, e
    <3>4. \A k \in DOMAIN u : u[k].topic \in {c} \cup ad
          BY <1>2, <3>1, <3>2 DEF AdmittedRight
    <3>5. AdmittedRight(c, ad, jn, call[c], u)
          BY <1>2, <3>4 DEF AdmittedRight
    <3>6. QED BY <1>1, <3>3, <3>5, AdmittedConn
  <2>2. CASE ~Wanted(c, e)
        BY <1>3, <1>6, <2>2 DEF Receive
  <2>3. QED BY <2>1, <2>2
<1>7. CASE Joined(c)
  <2> DEFINE t == call[c].topic
  <2>1. /\ call[c].op = "join" /\ joined' = [joined EXCEPT ![c] = jn \cup {t}]
        /\ admitted' = [admitted EXCEPT ![c] = ad \cup {t}]
        /\ call' = [call EXCEPT ![c] = NoCall] /\ UNCHANGED seen
        BY <1>7 DEF Joined
  <2>2. Find(t) /\ t \in Names
        BY <1>1, <1>2, <2>1, PresenceOf DEF AdmittedRight, PresenceAt
  <2> HIDE DEF t
  <2>3. AdmittedRight(c, ad \cup {t}, jn \cup {t}, NoCall, seen[c])
        BY <1>2, <2>2 DEF AdmittedRight
  <2>4. QED BY <1>1, <2>1, <2>2, <2>3, AdmittedConn
<1>8. CASE Answered(c) \/ Broadcasts(c) \/ Left(c)
  <2>1. /\ joined' = [joined EXCEPT ![c] = jn] /\ call' = [call EXCEPT ![c] = NoCall]
        /\ UNCHANGED <<admitted, seen>>
        BY <1>1, <1>8 DEF Answered, Broadcasts, Left, client
  <2>2. QED BY <1>2, <1>4, <2>1
<1>9. ASSUME NEW t \in Names, Join(c, t) \/ Leave(c, t) \/ Handle(c, t)
      PROVE  AdmittedInv'
  <2>1. PICK op \in {"join", "leave", "handle"} :
            /\ Frame(c, op, t) /\ (op = "join" => Find(t))
            /\ joined' = [joined EXCEPT ![c] = IF op = "leave" THEN jn \ {t} ELSE jn]
        BY <1>1, <1>9 DEF Join, Leave, Handle
  <2>2. call' = [call EXCEPT ![c] = [op |-> op, topic |-> t]] /\ UNCHANGED <<admitted, seen>>
        BY <2>1 DEF Frame
  <2>3. QED BY <1>4, <2>1, <2>2
<1>10. CASE Cleanup(c)
  <2>1. ASSUME NEW t \in jn, joined' = [joined EXCEPT ![c] = @ \ {t}],
               call' = [call EXCEPT ![c] = [op |-> "leave", topic |-> t]],
               UNCHANGED <<admitted, seen>>
        PROVE  AdmittedInv'
        BY <1>4, <2>1
  <2>2. QED BY <1>5, <1>10, <2>1 DEF Cleanup, client
<1>11. CASE Panic(c)
       BY <1>5, <1>11 DEF Panic
<1>12. CASE Lagged(c) \/ Start(c) \/ Disconnect(c)
       BY <1>3, <1>12 DEF Lagged, Start, Disconnect, client
<1>13. QED BY <1>6, <1>7, <1>8, <1>9, <1>10, <1>11, <1>12 DEF Task, Client

-----------------------------------------------------------------------------
(* The steps together *)

\* A publish reaches the rings of the instances that subscribe, the sender's excepted,
\* and finds in none of them what it brings.
LEMMA PublishKept ==
    ASSUME IInv, NEW e \in tasks, Publish(e)
    PROVE  RingsInv' /\ SeenInv' /\ OwedInv'
<1>1. /\ RingsInv /\ SeenInv /\ OwedInv /\ e \in Event /\ ring \in [Instances -> Seq(Event)]
      /\ subs \in [Instances -> 0 .. 1]
      BY DEF IInv, RingsInv, ForwarderInv
<1>2. /\ tasks' = tasks \ {e} /\ events' = events
      /\ UNCHANGED <<conn, joined, next, seen, skipped>>
      BY DEF Publish, client
<1>3. CASE UNCHANGED <<ring, owed>>
  <2>1. RingsInv'
        BY <1>1, <1>2, <1>3 DEF RingsInv
  <2>2. SeenInv'
    <3>1. SeenInv /\ UNCHANGED <<ring, next, seen>>
          BY <1>1, <1>2, <1>3
    <3>2. QED BY ONLY <3>1 DEF SeenInv, SeenRight
  <2>3. OwedInv'
        BY <1>1, <1>2, <1>3 DEF OwedInv, OwedRight, Pending, ToSet
  <2>4. QED BY <2>1, <2>2, <2>3
<1>4. CASE /\ ring' = [i \in Instances |-> ring[i] \o Relayed(i, e)]
           /\ Owe({i \in Instances : Relayed(i, e) # <<>>}, e)
  <2> DEFINE is == {i \in Instances : Relayed(i, e) # <<>>}
  <2>1. ASSUME NEW i \in Instances
        PROVE  /\ Relayed(i, e) = <<>> \/ (i # e.origin /\ Relayed(i, e) = <<e>>)
    <3>1. subs[i] = 0 \/ subs[i] = 1
          BY <1>1
    <3>2. CASE e.origin = i
          BY <3>2 DEF Relayed
    <3>3. CASE e.origin # i /\ subs[i] = 0
      <4>1. Relayed(i, e) = [k \in 1 .. 0 |-> e]
            BY <3>3 DEF Relayed
      <4>2. QED BY <4>1
    <3>4. CASE e.origin # i /\ subs[i] = 1
      <4>1. Relayed(i, e) = [k \in 1 .. 1 |-> e]
            BY <3>4 DEF Relayed
      <4>2. [k \in 1 .. 1 |-> e] = <<e>>
            OBVIOUS
      <4>3. QED BY <3>4, <4>1, <4>2
    <3>5. QED BY <3>1, <3>2, <3>3, <3>4
  <2>2. ASSUME NEW i \in Instances
        PROVE  ring'[i] = IF i \in is THEN Append(ring[i], e) ELSE ring[i]
    <3>1. ring'[i] = ring[i] \o Relayed(i, e) /\ ring[i] \in Seq(Event)
          BY <1>1, <1>4
    <3>2. CASE Relayed(i, e) = <<>>
          BY <3>1, <3>2
    <3>3. CASE Relayed(i, e) = <<e>>
      <4>1. <<e>> # <<>> /\ ring[i] \o <<e>> = Append(ring[i], e)
            BY <1>1, <3>1
      <4>2. QED BY <3>1, <3>3, <4>1
    <3>4. QED BY <2>1, <3>2, <3>3
  <2>3. is \in SUBSET (Instances \ {e.origin})
        BY <2>1
  <2>4. ring' \in [Instances -> Seq(Event)]
    <3>1. \A i \in Instances : ring'[i] \in Seq(Event)
      <4>1. ASSUME NEW i \in Instances PROVE Append(ring[i], e) \in Seq(Event) /\ ring[i] \in Seq(Event)
            BY <1>1
      <4>2. QED BY <2>2, <4>1
    <3>2. QED BY <1>4, <3>1
  <2>5. Owe(is, e)
        BY <1>4
  <2> HIDE DEF is
  <2>6. Fed(is, e)
        BY <2>2, <2>4 DEF Fed
  <2>7. RingsInv'
        BY <1>1, <1>2, <2>3, <2>6, RingsPublish
  <2>8. is \in SUBSET Instances
        BY <2>3
  <2>9. SeenInv'
        BY <1>1, <1>2, <2>6, <2>8, SeenFed
  <2>10. OwedInv'
        BY <1>1, <1>2, <2>5, <2>6, <2>8, OwedFed
  <2>11. QED BY <2>7, <2>9, <2>10
<1>5. QED BY <1>3, <1>4 DEF Publish

\* A broadcast or a direct message feeds the ring of its instance.
LEMMA SendKept ==
    ASSUME RingsInv, SeenInv, OwedInv, NEW i \in Instances, NEW t \in Names,
           NEW ex \in Conns \cup {Nobody}, NEW e, e = NewEvent(i, t, ex), Send(i, e),
           tasks' \in {tasks, tasks \cup {e}}, UNCHANGED <<conn, joined, next, seen, skipped>>
    PROVE  RingsInv' /\ SeenInv' /\ OwedInv'
<1>1. /\ e \in Event /\ e.id = Len(events) + 1 /\ e.origin = i
      /\ events' = Append(events, e) /\ Fed({i}, e) /\ Owe({i}, e)
  <2>1. /\ Len(events) < MaxEvents /\ events' = Append(events, e) /\ Owe({i}, e)
        /\ ring' = [ring EXCEPT ![i] = Append(@, e)]
        BY DEF Send
  <2>2. e \in Event /\ e.id = Len(events) + 1 /\ e.origin = i
        BY <2>1, WsAssumption DEF NewEvent, Event, RingsInv
  <2>3. Fed({i}, e)
        BY <2>1, <2>2 DEF Fed, RingsInv
  <2>4. QED BY <2>1, <2>2, <2>3
<1> DEFINE is == {i}
<1>2. is \in SUBSET Instances /\ (\A k \in is : k = e.origin) /\ Fed(is, e) /\ Owe(is, e)
      BY <1>1
<1> HIDE DEF is
<1>3. RingsInv'
      BY <1>1, <1>2, RingsDispatch
<1>4. SeenInv'
      BY <1>1, <1>2, SeenFed
<1>5. OwedInv'
      BY <1>1, <1>2, OwedFed
<1>6. QED BY <1>3, <1>4, <1>5

\* A dispatch may add the event to those to be published.
LEMMA DispatchKept ==
    ASSUME RingsInv, SeenInv, OwedInv, NEW i \in Instances, NEW t \in Names,
           NEW ex \in Conns \cup {Nobody}, Dispatch(i, t, ex),
           UNCHANGED <<conn, joined, next, seen, skipped>>
    PROVE  RingsInv' /\ SeenInv' /\ OwedInv'
<1> DEFINE e == NewEvent(i, t, ex)
<1>1. Send(i, e) /\ tasks' \in {tasks, tasks \cup {e}} /\ e = NewEvent(i, t, ex)
      BY DEF Dispatch
<1> HIDE DEF e
<1>2. QED BY <1>1, SendKept

\* The forwarder's steps and the connection that starts it.
LEMMA ForwarderKept ==
    ASSUME ForwarderInv, Next
    PROVE  ForwarderInv'
<1>1. CASE UNCHANGED <<forwarder, subs>>
      BY <1>1 DEF ForwarderInv
<1>2. ASSUME NEW i \in Instances, Forward(i) PROVE ForwarderInv'
  <2>1. CASE Subscribe(i)
    <3>1. subs[i] = 0
          BY <2>1 DEF Subscribe, ForwarderInv
    <3>2. QED BY <2>1, <3>1 DEF Subscribe, ForwarderInv
  <2>2. CASE ForwarderEnds(i)
        BY <2>2 DEF ForwarderEnds, ForwarderInv
  <2>3. QED BY <1>2, <2>1, <2>2 DEF Forward
<1>3. ASSUME NEW c \in Conns, Start(c) PROVE ForwarderInv'
  <2>1. Home[c] \in Instances
        BY WsAssumption
  <2>2. QED BY <1>3, <2>1 DEF Start, ForwarderInv
<1>4. ASSUME NEW c \in Conns, Task(c) \/ Client(c), ~Start(c) PROVE UNCHANGED <<forwarder, subs>>
      BY <1>4 DEF Task, Client, Receive, Lagged, Cleanup, Joined, Answered, Broadcasts, Left, Panic,
                  End, Disconnect, Join, Leave, Handle, Frame, pubsub
<1>5. ASSUME NEW i \in Senders, NEW t, Broadcast(i, t) PROVE UNCHANGED <<forwarder, subs>>
      BY <1>5 DEF Broadcast, pubsub
<1>6. ASSUME NEW e \in tasks, Publish(e) PROVE UNCHANGED <<forwarder, subs>>
      BY <1>6 DEF Publish, pubsub
<1>7. ASSUME NEW i \in Senders, NEW c, SendTo(i, c) PROVE UNCHANGED <<forwarder, subs>>
      BY <1>7 DEF SendTo, pubsub
<1>8. QED BY <1>1, <1>2, <1>3, <1>4, <1>5, <1>6, <1>7 DEF Next

\* The invariant is inductive.
LEMMA IInductive == IInv /\ [Next]_vars => IInv'
<1> SUFFICES ASSUME IInv, [Next]_vars PROVE IInv'
    OBVIOUS
<1>1. PresenceInv /\ ForwarderInv /\ RingsInv /\ SeenInv /\ OwedInv /\ AdmittedInv
      BY DEF IInv
<1>2. ASSUME UNCHANGED <<ring, events, tasks>> PROVE RingsInv'
      BY <1>1, <1>2 DEF RingsInv
<1>3. ASSUME UNCHANGED <<ring, next, seen>> PROVE SeenInv'
      BY <1>1, <1>3 DEF SeenInv, SeenRight
<1>4. ASSUME UNCHANGED <<conn, joined, owed, skipped, ring, next, seen>> PROVE OwedInv'
      BY <1>1, <1>4 DEF OwedInv, OwedRight, Pending, ToSet
<1>5. ASSUME UNCHANGED <<conn, call, joined, present, frames>> PROVE PresenceInv'
      BY <1>1, <1>5 DEF PresenceInv
<1>0. ASSUME UNCHANGED <<admitted, joined, call, seen>> PROVE AdmittedInv'
      BY <1>1, <1>0 DEF AdmittedInv, AdmittedRight, Find
<1>6. CASE UNCHANGED vars
  <2>1. /\ UNCHANGED <<conn, call, joined, present, frames>> /\ UNCHANGED <<forwarder, subs>>
        /\ UNCHANGED <<ring, events, tasks>> /\ UNCHANGED <<next, seen, skipped, owed, admitted>>
        BY <1>6 DEF vars, client, server, pubsub
  <2>2. ForwarderInv'
        BY <1>1, <2>1 DEF ForwarderInv
  <2>3. QED BY <1>0, <1>2, <1>3, <1>4, <1>5, <2>1, <2>2 DEF IInv
<1>7. ASSUME NEW c \in Conns, Task(c) \/ Client(c), ~Broadcasts(c)
      PROVE  PresenceInv' /\ RingsInv' /\ SeenInv' /\ OwedInv' /\ AdmittedInv'
  <2>1. UNCHANGED <<ring, events, tasks>>
        BY <1>7 DEF Task, Client, Receive, Lagged, Cleanup, Joined, Answered, Left, Panic,
                  End, Start, Disconnect, Join, Leave, Handle, Frame, server
  <2>2. PresenceInv'
        BY <1>1, <1>7, PresenceKept
  <2>3. SeenInv'
        BY <1>1, <1>7, <2>1, SeenKept
  <2>4. OwedInv'
        BY <1>1, <1>7, OwedKept
  <2>5. AdmittedInv'
        BY <1>1, <1>7, AdmittedKept
  <2>6. QED BY <1>2, <2>1, <2>2, <2>3, <2>4, <2>5
<1>8. ASSUME NEW c \in Conns, Broadcasts(c)
      PROVE  PresenceInv' /\ RingsInv' /\ SeenInv' /\ OwedInv' /\ AdmittedInv'
  <2>1. Task(c)
        BY <1>8 DEF Task
  <2>2. /\ Dispatch(Home[c], call[c].topic, c) /\ call[c].op = "handle"
        /\ UNCHANGED <<conn, joined, next, seen, skipped>>
        BY <1>8 DEF Broadcasts, client
  <2>3. PresenceInv'
        BY <1>1, <2>1, PresenceKept
  <2>4. PresenceAt(c)
        BY <1>1, PresenceOf
  <2>5. Home[c] \in Instances /\ call[c].topic \in Names /\ c \in Conns \cup {Nobody}
        BY <2>2, <2>4, WsAssumption DEF PresenceAt
  <2>6. AdmittedInv'
        BY <1>1, <2>1, AdmittedKept
  <2>7. QED BY <1>1, <2>2, <2>3, <2>5, <2>6, DispatchKept
<1>9. ASSUME NEW i \in Instances, Forward(i)
      PROVE  PresenceInv' /\ RingsInv' /\ SeenInv' /\ OwedInv' /\ AdmittedInv'
  <2>1. UNCHANGED <<conn, call, joined, present, admitted, frames, next, seen, skipped, ring,
                    events, tasks, owed>>
        BY <1>9 DEF Forward, Subscribe, ForwarderEnds, client, server
  <2>2. QED BY <1>0, <1>2, <1>3, <1>4, <1>5, <2>1
<1>10. ASSUME NEW i \in Senders, NEW t \in Names, Broadcast(i, t)
       PROVE  PresenceInv' /\ RingsInv' /\ SeenInv' /\ OwedInv' /\ AdmittedInv'
  <2>1. /\ Dispatch(i, t, Nobody)
        /\ UNCHANGED <<conn, call, joined, present, admitted, frames, next, seen, skipped>>
        BY <1>10 DEF Broadcast, client
  <2>2. i \in Instances /\ Nobody \in Conns \cup {Nobody}
        BY WsAssumption
  <2>3. QED BY <1>0, <1>1, <1>5, <2>1, <2>2, DispatchKept
<1>11. ASSUME NEW i \in Senders, NEW c \in Conns, SendTo(i, c)
       PROVE  PresenceInv' /\ RingsInv' /\ SeenInv' /\ OwedInv' /\ AdmittedInv'
  <2> DEFINE e == NewEvent(i, c, Nobody)
  <2>1. /\ Send(i, e) /\ tasks' \in {tasks, tasks \cup {e}} /\ e = NewEvent(i, c, Nobody)
        /\ UNCHANGED <<conn, call, joined, present, admitted, frames, next, seen, skipped>>
        BY <1>11 DEF SendTo, client
  <2>2. i \in Instances /\ c \in Names /\ Nobody \in Conns \cup {Nobody}
        BY WsAssumption DEF Names
  <2> HIDE DEF e
  <2>3. QED BY <1>0, <1>1, <1>5, <2>1, <2>2, SendKept
<1>12. ASSUME NEW e \in tasks, Publish(e)
       PROVE  PresenceInv' /\ RingsInv' /\ SeenInv' /\ OwedInv' /\ AdmittedInv'
  <2>1. UNCHANGED <<conn, call, joined, present, admitted, frames, seen>>
        BY <1>12 DEF Publish, client
  <2>2. QED BY <1>0, <1>5, <1>12, <2>1, PublishKept
<1>13. CASE Next
  <2>1. PresenceInv' /\ RingsInv' /\ SeenInv' /\ OwedInv' /\ AdmittedInv'
        BY <1>7, <1>8, <1>9, <1>10, <1>11, <1>12, <1>13 DEF Next
  <2>2. QED BY <1>1, <1>13, <2>1, ForwarderKept DEF IInv
<1>14. QED BY <1>6, <1>13

\* The invariant holds in every reachable state.
LEMMA IInvariant == Spec => []IInv
BY InitHolds, IInductive, PTL DEF Spec

\* Whatever clients, callbacks and cleanups do and in whatever order, a connection at
\* rest has joined exactly the topics its channels hold it present in, and one that
\* closed has left them all, unless a callback panicked (run_channel_loop).
THEOREM Presence == Spec => []PresenceTruthful
<1>1. IInv => PresenceTruthful
  <2> SUFFICES ASSUME IInv, NEW c \in Conns
               PROVE  /\ call[c] = NoCall /\ conn[c] # "panicked" => present[c] = joined[c]
                      /\ conn[c] = "closed" => present[c] = {}
      BY DEF PresenceTruthful
  <2>1. PresenceAt(c)
        BY PresenceOf DEF IInv
  <2>2. conn[c] \in Live \cup {"none", "closed", "panicked"} /\ conn[c] = "closed" => present[c] = {}
        BY <2>1 DEF PresenceAt
  <2>3. call[c] = NoCall /\ conn[c] # "panicked" => present[c] = joined[c]
        BY <2>1 DEF PresenceAt
  <2>4. QED BY <2>2, <2>3
<1>2. QED BY <1>1, IInvariant, PTL

\* For a ring of any capacity and connections that lag by any amount: an event sent to
\* the ring of a connection that had joined its topic reaches the client or is still to
\* be read, unless the ring overwrote it or the client left.
THEOREM Reaches == Spec => []NothingLost
<1>1. IInv => NothingLost
  <2> SUFFICES ASSUME IInv, NEW c \in Conns, NEW e \in owed[c] \ skipped[c]
               PROVE  \/ e \in ToSet(seen[c])
                      \/ \E k \in next[c] .. Len(ring[Home[c]]) : ring[Home[c]][k] = e
      BY DEF NothingLost
  <2>1. Pending(ring[Home[c]], next[c], seen[c], e)
        BY DEF IInv, OwedInv, OwedRight
  <2>2. QED BY <2>1 DEF Pending
<1>2. QED BY <1>1, IInvariant, PTL

\* For any number of instances and connections, whatever the patterns match: no client
\* is sent an event twice, one that excludes it, or one that is neither addressed to it
\* nor of a topic that a channel let it join, and those of its own instance come in
\* order, although its ring is fed by its own instance at once and by the others when
\* their publish tasks happen to run.
THEOREM Delivers == Spec => []DeliveredRight
<1>1. IInv => DeliveredRight
  <2> SUFFICES ASSUME IInv PROVE DeliveredRight
      OBVIOUS
  <2>1. TypeOK
        BY IInvTyped
  <2>2. ASSUME NEW c \in Conns, NEW k \in DOMAIN seen[c]
        PROVE  /\ events[seen[c][k].id] = seen[c][k]
               /\ seen[c][k].exclude # c /\ seen[c][k].topic \in {c} \cup admitted[c]
               /\ \A j \in 1 .. k - 1 :
                     /\ seen[c][j].id # seen[c][k].id
                     /\ (seen[c][j].origin = Home[c] /\ seen[c][k].origin = Home[c]
                           => seen[c][j].id < seen[c][k].id)
    <3> DEFINE r == ring[Home[c]]
    <3>1. SeenRight(c, r, next[c], seen[c])
          BY DEF IInv, SeenInv
    <3>2. PICK p \in 1 .. next[c] - 1 : r[p] = seen[c][k]
          BY <3>1 DEF SeenRight
    <3>3. Home[c] \in Instances /\ next[c] \in 1 .. Len(r) + 1 /\ r \in Seq(Event)
          BY <3>1, WsAssumption DEF SeenRight, IInv, RingsInv
    <3>4. p \in DOMAIN r
          BY <3>3
    <3>5. events[r[p].id] = r[p]
          BY <3>3, <3>4 DEF IInv, RingsInv
    <3>6. seen[c][k].topic \in {c} \cup admitted[c]
          BY <2>2 DEF IInv, AdmittedInv, AdmittedRight
    <3> HIDE DEF r
    <3>7. QED BY <3>1, <3>2, <3>5, <3>6 DEF SeenRight
  <2>3. ASSUME NEW c \in Conns, NEW id \in Ids(c)
        PROVE  events[id].exclude # c /\ events[id].topic \in {c} \cup admitted[c]
    <3>1. PICK k \in DOMAIN seen[c] : id = seen[c][k].id
          BY DEF Ids
    <3>2. QED BY <2>2, <3>1
  <2>4. ASSUME NEW c \in Conns, NEW j \in DOMAIN seen[c], NEW k \in DOMAIN seen[c], j < k
        PROVE  /\ seen[c][j].id # seen[c][k].id
               /\ (seen[c][j].origin = Home[c] /\ seen[c][k].origin = Home[c]
                     => seen[c][j].id < seen[c][k].id)
    <3>1. seen[c] \in Seq(Event)
          BY DEF IInv, SeenInv
    <3>2. j \in 1 .. k - 1
          BY <2>4, <3>1
    <3>3. QED BY <2>2, <3>2
  <2>5. \A c \in Conns : \A t \in admitted[c] : Find(t)
        BY DEF IInv, AdmittedInv, AdmittedRight
  <2>6. QED BY <2>1, <2>3, <2>4, <2>5 DEF DeliveredRight
<1>2. QED BY <1>1, IInvariant, PTL
=============================================================================
