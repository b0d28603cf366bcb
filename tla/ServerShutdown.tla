---------------------------- MODULE ServerShutdown ----------------------------
(***************************************************************************)
(* The server loop of the ladoo crate and its graceful shutdown: accept,   *)
(* one task per connection in a JoinSet, an optional TLS handshake, the    *)
(* watch channel that tells every connection to finish, the drain with its *)
(* timeout, and the shutdown hooks with theirs.                            *)
(*                                                                         *)
(* A connection serves one request at a time.  What hyper does with a      *)
(* graceful_shutdown() is external: it closes an idle connection, lets the *)
(* current request finish and then closes, and a connection on which       *)
(* nothing was read yet is closed or still serves one request.             *)
(***************************************************************************)
EXTENDS Naturals, FiniteSets

CONSTANTS Conns,             \* connections clients may make
          Hooks,             \* hooks registered by on_shutdown()
          HandshakeTimeout,  \* 10 s, in ticks
          ShutdownTimeout,   \* App::shutdown_timeout
          HookTimeout        \* 10 s, in ticks

ASSUME ServerAssumption ==
    /\ HandshakeTimeout \in Nat /\ ShutdownTimeout \in Nat /\ HookTimeout \in Nat
    /\ IsFiniteSet(Conns) /\ IsFiniteSet(Hooks)

VARIABLES
    tls,       \* the listener has a TLS acceptor
    phase,     \* where serve() is
    left,      \* ticks to the deadline of the current phase
    notified,  \* shutdown_tx.send(true) was done
    expired,   \* history: the drain timed out
    elapsed,   \* history: ticks since the signal was sent
    conn,      \* state of each connection's task
    hs,        \* ticks left of its handshake
    graceful,  \* connections whose task has seen the signal
    aborting,  \* connections abort_all() has marked
    socket,    \* upgraded connections served by a task of their own
    hook       \* state of each hook's task

vars == <<tls, phase, left, notified, expired, elapsed, conn, hs, graceful, aborting, socket, hook>>
server == <<tls, phase, left, notified, expired, elapsed, hook>>
tasks == <<conn, hs, graceful, aborting, socket>>

Open == {"handshake", "fresh", "idle", "busy"}

\* Connections whose task is in the JoinSet and not over.
Tracked == {c \in Conns : conn[c] \in Open}
RunningHooks == {h \in Hooks : hook[h] = "running"}

\* Type invariant; a task the signal or an abort has reached was spawned.
TypeOK ==
    /\ tls \in BOOLEAN /\ notified \in BOOLEAN /\ expired \in BOOLEAN
    /\ phase \in {"accepting", "breaking", "draining", "hooks", "stopped", "dropped"}
    /\ left \in Nat /\ elapsed \in Nat
    /\ conn \in [Conns -> Open \cup {"none", "queued", "closed", "aborted", "upgraded"}]
    /\ hs \in [Conns -> 0 .. HandshakeTimeout]
    /\ graceful \subseteq {c \in Conns : conn[c] \notin {"none", "queued", "handshake"}}
    /\ aborting \subseteq {c \in Conns : conn[c] \notin {"none", "queued"}}
    /\ socket \subseteq {c \in Conns : conn[c] = "upgraded"}
    /\ hook \in [Hooks -> {"none", "running", "done", "aborted"}]

Init ==
    /\ tls \in BOOLEAN
    /\ phase = "accepting" /\ left = 0
    /\ notified = FALSE /\ expired = FALSE /\ elapsed = 0
    /\ conn = [c \in Conns |-> "none"]
    /\ hs = [c \in Conns |-> 0]
    /\ graceful = {} /\ aborting = {} /\ socket = {}
    /\ hook = [h \in Hooks |-> "none"]

-----------------------------------------------------------------------------
(* The accept loop *)

Move(c, s) == conn' = [conn EXCEPT ![c] = s]

\* A client connects: the kernel queues it as long as the listener exists, that is
\* until serve() returns.
Connect(c) ==
    /\ conn[c] = "none" /\ phase \notin {"stopped", "dropped"}
    /\ Move(c, "queued")
    /\ UNCHANGED <<server, hs, graceful, aborting, socket>>

\* accept() fails for a queued connection: `continue`.
AcceptFails(c) ==
    /\ phase = "accepting" /\ conn[c] = "queued"
    /\ Move(c, "closed")
    /\ UNCHANGED <<server, hs, graceful, aborting, socket>>

\* Mutant of Accept: the loop goes on while connections drain.
AcceptWhileDraining(c) ==
    /\ phase \in {"accepting", "draining"} /\ conn[c] = "queued"
    /\ Move(c, IF tls THEN "handshake" ELSE "fresh")
    /\ hs' = [hs EXCEPT ![c] = HandshakeTimeout]
    /\ UNCHANGED <<server, graceful, aborting, socket>>

\* accept() succeeds: a task is spawned with a clone of the shutdown receiver.
Accept(c) ==
    /\ phase = "accepting" /\ conn[c] = "queued"
    /\ Move(c, IF tls THEN "handshake" ELSE "fresh")
    /\ hs' = [hs EXCEPT ![c] = HandshakeTimeout]
    /\ UNCHANGED <<server, graceful, aborting, socket>>

\* shutdown_signal() resolves: break.
Signal ==
    /\ phase = "accepting"
    /\ phase' = "breaking"
    /\ UNCHANGED <<tls, left, notified, expired, elapsed, hook, tasks>>

\* shutdown_tx.send(true), and the drain timer starts.
Notify ==
    /\ phase = "breaking"
    /\ phase' = "draining" /\ left' = ShutdownTimeout
    /\ notified' = TRUE
    /\ UNCHANGED <<tls, expired, elapsed, hook, tasks>>

-----------------------------------------------------------------------------
(* One connection's task *)

\* The TLS handshake succeeds.
HandshakeDone(c) ==
    /\ conn[c] = "handshake"
    /\ Move(c, "fresh")
    /\ UNCHANGED <<server, hs, graceful, aborting, socket>>

\* It fails, or its timeout fires: the connection is dropped silently.
HandshakeFails(c) ==
    /\ conn[c] = "handshake"
    /\ Move(c, "closed")
    /\ UNCHANGED <<server, hs, graceful, aborting, socket>>

\* Mutant of SeeShutdown: every request on the connection is cut off.
SeeShutdownCloses(c) ==
    /\ notified /\ conn[c] \in {"fresh", "idle", "busy"} /\ c \notin graceful
    /\ graceful' = graceful \cup {c}
    /\ Move(c, "aborted")
    /\ UNCHANGED <<server, hs, aborting, socket>>

\* rx.changed() in drive_connection(): graceful_shutdown(), then the connection is
\* driven to its end.
SeeShutdown(c) ==
    /\ notified /\ conn[c] \in {"fresh", "idle", "busy"} /\ c \notin graceful
    /\ graceful' = graceful \cup {c}
    /\ \/ conn[c] \in {"fresh", "idle"} /\ Move(c, "closed")
       \/ conn[c] \in {"fresh", "busy"} /\ UNCHANGED conn
    /\ UNCHANGED <<server, hs, aborting, socket>>

\* A request arrives; hyper starts none on an idle connection told to finish.
Request(c) ==
    /\ \/ conn[c] = "fresh"
       \/ conn[c] = "idle" /\ c \notin graceful
    /\ Move(c, "busy")
    /\ UNCHANGED <<server, hs, graceful, aborting, socket>>

\* The handler answers.
Respond(c) ==
    /\ conn[c] = "busy"
    /\ Move(c, IF c \in graceful THEN "closed" ELSE "idle")
    /\ UNCHANGED <<server, hs, graceful, aborting, socket>>

\* A WebSocket handler answers 101 and spawns its task; hyper hands the connection
\* over and the task in the JoinSet ends.
Upgrade(c) ==
    /\ conn[c] = "busy"
    /\ Move(c, "upgraded")
    /\ socket' = socket \cup {c}
    /\ UNCHANGED <<server, hs, graceful, aborting>>

\* The client goes away, or the handler panics: the task ends.
ConnEnds(c) ==
    /\ conn[c] \in {"fresh", "idle", "busy"}
    /\ Move(c, "closed")
    /\ UNCHANGED <<server, hs, graceful, aborting, socket>>

\* The socket's task ends.
SocketEnds(c) ==
    /\ c \in socket
    /\ socket' = socket \ {c}
    /\ UNCHANGED <<server, conn, hs, graceful, aborting>>

\* An aborted task stops at its next await point.
AbortTakes(c) ==
    /\ c \in aborting /\ conn[c] \in Open
    /\ Move(c, "aborted")
    /\ UNCHANGED <<server, hs, graceful, aborting, socket>>

-----------------------------------------------------------------------------
(* Drain, hooks, stop *)

AbortAll == conn' = [c \in Conns |-> IF conn[c] \in Open THEN "aborted" ELSE conn[c]]

\* serve() returns: both JoinSets and the listener are dropped.
Return ==
    /\ phase' = "stopped" /\ left' = 0
    /\ AbortAll
    /\ hook' = [h \in Hooks |-> IF hook[h] = "running" THEN "aborted" ELSE hook[h]]

\* Mutant of StartHooks: the hooks get the timeout of the drain.
StartHooksLong ==
    IF Hooks = {} THEN Return
    ELSE /\ phase' = "hooks" /\ left' = ShutdownTimeout
         /\ hook' = [h \in Hooks |-> "running"]
         /\ UNCHANGED conn

\* The hooks are spawned together, if there are any.
StartHooks ==
    IF Hooks = {} THEN Return
    ELSE /\ phase' = "hooks" /\ left' = HookTimeout
         /\ hook' = [h \in Hooks |-> "running"]
         /\ UNCHANGED conn

\* join_next() is None.
Drained ==
    /\ phase = "draining" /\ Tracked = {}
    /\ StartHooks
    /\ UNCHANGED <<tls, notified, expired, elapsed, hs, graceful, aborting, socket>>

\* Mutant of DrainTimeout: no timeout around the drain.
DrainTimeoutNever ==
    /\ phase = "draining" /\ left = 0 /\ Tracked = {}
    /\ expired' = TRUE
    /\ aborting' = aborting \cup Tracked
    /\ StartHooks
    /\ UNCHANGED <<tls, notified, elapsed, hs, graceful, socket>>

\* The timeout fires: abort_all() marks the tasks and nobody waits for them.
DrainTimeout ==
    /\ phase = "draining" /\ left = 0 /\ Tracked # {}
    /\ expired' = TRUE
    /\ aborting' = aborting \cup Tracked
    /\ StartHooks
    /\ UNCHANGED <<tls, notified, elapsed, hs, graceful, socket>>

\* A hook ends, or panics.
HookEnds(h) ==
    /\ hook[h] = "running"
    /\ hook' = [hook EXCEPT ![h] = "done"]
    /\ UNCHANGED <<tls, phase, left, notified, expired, elapsed, tasks>>

\* Every hook has ended, or their timeout fires and abort_all() ends them.
HooksDone ==
    /\ phase = "hooks" /\ (RunningHooks = {} \/ left = 0)
    /\ Return
    /\ UNCHANGED <<tls, notified, expired, elapsed, hs, graceful, aborting, socket>>

\* TestServer is dropped: the task of serve() is aborted.
Drop ==
    /\ phase \notin {"stopped", "dropped"}
    /\ phase' = "dropped" /\ left' = 0
    /\ AbortAll
    /\ hook' = [h \in Hooks |-> IF hook[h] = "running" THEN "aborted" ELSE hook[h]]
    /\ UNCHANGED <<tls, notified, expired, elapsed, hs, graceful, aborting, socket>>

\* A tick, which no timer lets pass its deadline.  Only the time of a shutdown and
\* of handshakes is counted.
Tick ==
    /\ phase \in {"draining", "hooks"} => left > 0
    /\ \A c \in Conns : conn[c] = "handshake" => hs[c] > 0
    /\ phase \in {"draining", "hooks"} \/ \E c \in Conns : conn[c] = "handshake"
    /\ left' = IF phase \in {"draining", "hooks"} THEN left - 1 ELSE left
    /\ elapsed' = IF phase \in {"draining", "hooks"} THEN elapsed + 1 ELSE elapsed
    /\ hs' = [c \in Conns |-> IF conn[c] = "handshake" THEN hs[c] - 1 ELSE hs[c]]
    /\ UNCHANGED <<tls, phase, notified, expired, conn, graceful, aborting, socket, hook>>

-----------------------------------------------------------------------------

Next ==
    \/ \E c \in Conns :
          \/ Connect(c) \/ AcceptFails(c) \/ Accept(c)
          \/ HandshakeDone(c) \/ HandshakeFails(c)
          \/ SeeShutdown(c) \/ Request(c) \/ Respond(c) \/ Upgrade(c)
          \/ ConnEnds(c) \/ SocketEnds(c) \/ AbortTakes(c)
    \/ Signal \/ Notify \/ Drained \/ DrainTimeout
    \/ \E h \in Hooks : HookEnds(h)
    \/ HooksDone \/ Drop \/ Tick

Spec == Init /\ [][Next]_vars

\* serve() is polled, time passes, handshakes are ended by their timeout and a
\* polled connection sees the signal.  Nothing is assumed of clients, handlers,
\* sockets or hooks.
FairSpec ==
    /\ Spec
    /\ WF_vars(Notify) /\ WF_vars(Drained) /\ WF_vars(DrainTimeout) /\ WF_vars(HooksDone)
    /\ WF_vars(Tick)
    /\ \A c \in Conns : WF_vars(HandshakeFails(c)) /\ WF_vars(SeeShutdown(c))

-----------------------------------------------------------------------------

\* From the signal on, serve() needs at most the two timeouts, whatever handlers,
\* clients and hooks do, and only running requests use them up: a connection told to
\* finish never waits for another request on a kept-alive connection.
StopsInTime ==
    /\ TypeOK
    /\ elapsed <= ShutdownTimeout + HookTimeout
    /\ \A c \in graceful : conn[c] # "idle"

\* Nothing is cut short before its time: a task is aborted only after the shutdown
\* timeout, or because serve() itself was dropped; when serve() returns every hook has
\* been started and is over, or ran into the hook timeout.
NothingCutShort ==
    /\ \A c \in Conns : conn[c] = "aborted" => expired \/ phase = "dropped"
    /\ phase = "stopped" =>
          \A h \in Hooks : hook[h] = "done" \/ (hook[h] = "aborted" /\ elapsed >= HookTimeout)

\* The server stops once told to, whatever its connections and hooks do, TLS
\* handshakes included, which do not watch the signal.
ShutdownCompletes == phase = "breaking" ~> phase \in {"stopped", "dropped"}

Lifecycle == INSTANCE ServerLifecycle WITH
    phase <- IF phase \in {"accepting", "breaking"} THEN "serving" ELSE phase,
    open <- Tracked

\* The server implements its lifecycle.
ImplementsLifecycle == Lifecycle!Spec
=============================================================================
