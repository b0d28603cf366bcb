------------------------- MODULE ServerShutdownProofs -------------------------
(***************************************************************************)
(* Proofs about ServerShutdown, for any connections, hooks and timeouts,   *)
(* with and without TLS, and whatever clients, handlers and hooks do.      *)
(***************************************************************************)
EXTENDS ServerShutdown, TLAPS

\* The clocks: what is left of a phase and what has elapsed add up to its deadline, and
\* hooks run only in their phase.
ClockInv ==
    /\ phase \in {"accepting", "breaking"} => elapsed = 0 /\ ~expired /\ ~notified
    /\ phase = "draining" => elapsed + left = ShutdownTimeout /\ ~expired
    /\ phase = "hooks" =>
          /\ elapsed + left <= ShutdownTimeout + HookTimeout
          /\ elapsed + left >= HookTimeout
    /\ elapsed <= ShutdownTimeout + HookTimeout

\* Hooks are all running or over in their phase, and over when serve() returned.
HookInv ==
    /\ phase = "hooks" => \A h \in Hooks : hook[h] \in {"running", "done"}
    /\ phase = "stopped" =>
          \A h \in Hooks : hook[h] = "done" \/ (hook[h] = "aborted" /\ elapsed >= HookTimeout)

\* Tasks are marked and aborted only by the timeout or the drop, and without the timeout
\* none is left when the hooks run.
TaskInv ==
    /\ aborting # {} => expired
    /\ \A c \in Conns : conn[c] = "aborted" => expired \/ phase = "dropped"
    /\ phase = "hooks" /\ ~expired => \A c \in Conns : conn[c] \notin Open
    /\ \A c \in graceful : conn[c] # "idle"

IInv == TypeOK /\ ClockInv /\ HookInv /\ TaskInv

\* The initial state.
LEMMA InitHolds == Init => IInv
<1> SUFFICES ASSUME Init PROVE IInv
    OBVIOUS
<1>1. TypeOK
  <2>1. 0 \in 0 .. HandshakeTimeout
        BY ServerAssumption
  <2>2. hs \in [Conns -> 0 .. HandshakeTimeout]
        BY <2>1 DEF Init
  <2>3. /\ conn \in [Conns -> Open \cup {"none", "queued", "closed", "aborted", "upgraded"}]
        /\ hook \in [Hooks -> {"none", "running", "done", "aborted"}]
        BY DEF Init
  <2>4. QED BY <2>2, <2>3 DEF Init, TypeOK
<1>2. ClockInv /\ HookInv /\ TaskInv
      BY ServerAssumption DEF Init, ClockInv, HookInv, TaskInv
<1>3. QED BY <1>1, <1>2 DEF IInv

\* A step of one connection's task that opens nothing.
ConnStep(c) ==
    \/ Connect(c) \/ AcceptFails(c) \/ HandshakeDone(c) \/ HandshakeFails(c)
    \/ SeeShutdown(c) \/ Request(c) \/ Respond(c) \/ Upgrade(c)
    \/ ConnEnds(c) \/ SocketEnds(c) \/ AbortTakes(c)

\* What the task of a connection does keeps the invariant.
LEMMA ConnKeeps ==
    ASSUME IInv, NEW c \in Conns, ConnStep(c) \/ Accept(c)
    PROVE  IInv'
<1> USE DEF Move, server, Open
<1>1. TypeOK'
  <2>1. CASE Connect(c)
        BY <2>1 DEF Connect, IInv, TypeOK
  <2>2. CASE AcceptFails(c)
        BY <2>2 DEF AcceptFails, IInv, TypeOK
  <2>3. CASE Accept(c)
        BY <2>3, ServerAssumption DEF Accept, IInv, TypeOK
  <2>4. CASE HandshakeDone(c) \/ HandshakeFails(c)
        BY <2>4 DEF HandshakeDone, HandshakeFails, IInv, TypeOK
  <2>5. CASE SeeShutdown(c)
        BY <2>5 DEF SeeShutdown, IInv, TypeOK
  <2>6. CASE Request(c) \/ Respond(c)
        BY <2>6 DEF Request, Respond, IInv, TypeOK
  <2>7. CASE Upgrade(c)
        BY <2>7 DEF Upgrade, IInv, TypeOK
  <2>8. CASE ConnEnds(c) \/ AbortTakes(c)
        BY <2>8 DEF ConnEnds, AbortTakes, IInv, TypeOK
  <2>9. CASE SocketEnds(c)
        BY <2>9 DEF SocketEnds, IInv, TypeOK
  <2>10. QED BY <2>1, <2>2, <2>3, <2>4, <2>5, <2>6, <2>7, <2>8, <2>9 DEF ConnStep
<1>2. UNCHANGED server
      BY DEF ConnStep, Connect, AcceptFails, Accept, HandshakeDone, HandshakeFails, SeeShutdown,
             Request, Respond, Upgrade, ConnEnds, SocketEnds, AbortTakes
<1>3. ClockInv' /\ HookInv'
      BY <1>2 DEF IInv, ClockInv, HookInv
<1>4. TaskInv'
  <2>1. CASE Connect(c) \/ AcceptFails(c) \/ Accept(c)
        BY <2>1 DEF Connect, AcceptFails, Accept, IInv, TypeOK, TaskInv
  <2>2. CASE HandshakeDone(c) \/ HandshakeFails(c)
        BY <2>2 DEF HandshakeDone, HandshakeFails, IInv, TypeOK, TaskInv
  <2>3. CASE SeeShutdown(c)
        BY <2>3 DEF SeeShutdown, IInv, TypeOK, TaskInv
  <2>4. CASE Request(c) \/ Respond(c)
        BY <2>4 DEF Request, Respond, IInv, TypeOK, TaskInv
  <2>5. CASE Upgrade(c)
        BY <2>5 DEF Upgrade, IInv, TypeOK, TaskInv
  <2>6. CASE ConnEnds(c)
        BY <2>6 DEF ConnEnds, IInv, TypeOK, TaskInv
  <2>7. CASE SocketEnds(c)
        BY <2>7 DEF SocketEnds, IInv, TaskInv
  <2>8. CASE AbortTakes(c)
        BY <2>8 DEF AbortTakes, IInv, TypeOK, TaskInv
  <2>9. QED BY <2>1, <2>2, <2>3, <2>4, <2>5, <2>6, <2>7, <2>8 DEF ConnStep
<1>5. QED BY <1>1, <1>3, <1>4 DEF IInv

\* After the drain: serve() goes on with the hooks or returns.
LEMMA HooksStart ==
    ASSUME IInv, phase = "draining", StartHooks, aborting' \subseteq Tracked \cup aborting,
           expired' \in BOOLEAN, Tracked # {} => expired', aborting' # {} => expired',
           UNCHANGED <<tls, notified, elapsed, hs, graceful, socket>>
    PROVE  IInv'
<1>1. CASE Hooks = {}
  <2>1. /\ phase' = "stopped" /\ left' = 0 /\ AbortAll
        /\ hook' = [h \in Hooks |-> IF hook[h] = "running" THEN "aborted" ELSE hook[h]]
        BY <1>1 DEF StartHooks, Return
  <2>2. TypeOK'
        BY <2>1 DEF IInv, TypeOK, AbortAll, Tracked, Open
  <2>3. ClockInv' /\ HookInv'
        BY <1>1, <2>1 DEF IInv, TypeOK, ClockInv, HookInv
  <2>4. TaskInv'
        BY <2>1 DEF IInv, TypeOK, ClockInv, TaskInv, AbortAll, Tracked, Open
  <2>5. QED BY <2>2, <2>3, <2>4 DEF IInv
<1>2. CASE Hooks # {}
  <2>1. /\ phase' = "hooks" /\ left' = HookTimeout
        /\ hook' = [h \in Hooks |-> "running"]
        /\ UNCHANGED conn
        BY <1>2 DEF StartHooks
  <2>2. TypeOK'
        BY <2>1, ServerAssumption DEF IInv, TypeOK, Tracked, Open
  <2>3. ClockInv' /\ HookInv'
        BY <2>1, ServerAssumption DEF IInv, TypeOK, ClockInv, HookInv
  <2>4. TaskInv'
        BY <2>1 DEF IInv, TypeOK, ClockInv, TaskInv, Tracked, Open
  <2>5. QED BY <2>2, <2>3, <2>4 DEF IInv
<1>3. QED BY <1>1, <1>2

\* Every step keeps the invariant.
LEMMA NextKeeps == IInv /\ [Next]_vars => IInv'
<1> SUFFICES ASSUME IInv, [Next]_vars PROVE IInv'
    OBVIOUS
<1>1. CASE UNCHANGED vars
      BY <1>1 DEF vars, IInv, TypeOK, ClockInv, HookInv, TaskInv
<1>2. ASSUME NEW c \in Conns, ConnStep(c) \/ Accept(c) PROVE IInv'
      BY <1>2, ConnKeeps
<1>3. CASE Signal
      BY <1>3 DEF Signal, tasks, IInv, TypeOK, ClockInv, HookInv, TaskInv
<1>4. CASE Notify
  <2>1. TypeOK' /\ HookInv' /\ TaskInv'
        BY <1>4, ServerAssumption DEF Notify, tasks, IInv, TypeOK, HookInv, TaskInv
  <2>2. ClockInv'
        BY <1>4, ServerAssumption DEF Notify, IInv, TypeOK, ClockInv
  <2>3. QED BY <2>1, <2>2 DEF IInv
<1>5. CASE Drained
      BY <1>5, HooksStart DEF Drained, IInv, TypeOK, TaskInv
<1>6. CASE DrainTimeout
      BY <1>6, HooksStart DEF DrainTimeout
<1>7. ASSUME NEW h \in Hooks, HookEnds(h) PROVE IInv'
      BY <1>7 DEF HookEnds, tasks, IInv, TypeOK, ClockInv, HookInv, TaskInv
<1>8. CASE HooksDone
  <2>1. /\ phase' = "stopped" /\ left' = 0 /\ AbortAll
        /\ hook' = [h \in Hooks |-> IF hook[h] = "running" THEN "aborted" ELSE hook[h]]
        /\ phase = "hooks" /\ (RunningHooks = {} \/ left = 0)
        /\ UNCHANGED <<tls, notified, expired, elapsed, hs, graceful, aborting, socket>>
        BY <1>8 DEF HooksDone, Return
  <2>2. TypeOK'
        BY <2>1 DEF IInv, TypeOK, AbortAll, Open
  <2>3. ClockInv' /\ HookInv'
        BY <2>1, ServerAssumption DEF IInv, TypeOK, ClockInv, HookInv, RunningHooks
  <2>4. TaskInv'
        BY <2>1 DEF IInv, TypeOK, TaskInv, AbortAll, Open
  <2>5. QED BY <2>2, <2>3, <2>4 DEF IInv
<1>9. CASE Drop
  <2>1. TypeOK'
        BY <1>9 DEF Drop, IInv, TypeOK, AbortAll, Open
  <2>2. ClockInv' /\ HookInv'
        BY <1>9 DEF Drop, IInv, ClockInv, HookInv
  <2>3. TaskInv'
        BY <1>9 DEF Drop, IInv, TypeOK, TaskInv, AbortAll, Open
  <2>4. QED BY <2>1, <2>2, <2>3 DEF IInv
<1>10. CASE Tick
  <2>1. TypeOK'
    <3>1. \A c \in Conns : (IF conn[c] = "handshake" THEN hs[c] - 1 ELSE hs[c]) \in 0 .. HandshakeTimeout
          BY <1>10, ServerAssumption DEF Tick, IInv, TypeOK
    <3>2. left' \in Nat /\ elapsed' \in Nat
          BY <1>10 DEF Tick, IInv, TypeOK
    <3>3. QED BY <1>10, <3>1, <3>2 DEF Tick, IInv, TypeOK
  <2>2. ClockInv'
        BY <1>10, ServerAssumption DEF Tick, IInv, TypeOK, ClockInv
  <2>3. HookInv'
        BY <1>10 DEF Tick, IInv, TypeOK, HookInv
  <2>4. TaskInv'
        BY <1>10 DEF Tick, IInv, TaskInv
  <2>5. QED BY <2>1, <2>2, <2>3, <2>4 DEF IInv
<1>11. QED
       BY <1>1, <1>2, <1>3, <1>4, <1>5, <1>6, <1>7, <1>8, <1>9, <1>10 DEF Next, ConnStep

\* IInv is an invariant of serve() and its tasks.
LEMMA Inductive == Spec => []IInv
BY InitHolds, NextKeeps, PTL DEF Spec

\* From the signal on, serve() needs at most its two timeouts, whatever its connections
\* and hooks do.
THEOREM InTime == Spec => []StopsInTime
<1>1. IInv => StopsInTime
      BY DEF IInv, ClockInv, TaskInv, StopsInTime
<1>2. QED BY <1>1, Inductive, PTL

\* No task is aborted before the shutdown timeout has passed, and no hook before its own.
THEOREM CutShort == Spec => []NothingCutShort
<1>1. IInv => NothingCutShort
      BY DEF IInv, HookInv, TaskInv, NothingCutShort
<1>2. QED BY <1>1, Inductive, PTL

\* What a step of a connection means for the lifecycle: a task is opened while the
\* server accepts, or none is.
LEMMA ConnLifecycle ==
    ASSUME IInv, NEW c \in Conns, ConnStep(c) \/ Accept(c)
    PROVE  Lifecycle!Next
<1> USE DEF Move, server
<1>1. CASE Accept(c)
  <2>1. Tracked' = Tracked \cup {c} /\ phase = "accepting" /\ UNCHANGED <<phase, expired>>
        BY <1>1 DEF Accept, IInv, TypeOK, Tracked, Open
  <2>2. QED BY <2>1 DEF Lifecycle!Next, Lifecycle!Open
<1>2. CASE ConnStep(c)
  <2>1. UNCHANGED <<phase, expired>>
        BY <1>2 DEF ConnStep, Connect, AcceptFails, HandshakeDone, HandshakeFails, SeeShutdown,
                    Request, Respond, Upgrade, ConnEnds, SocketEnds, AbortTakes
  <2>2. Tracked' \in SUBSET Tracked
    <3>1. /\ \A k \in Conns \ {c} : conn'[k] = conn[k]
          /\ conn'[c] \in Open => conn[c] \in Open
          BY <1>2 DEF IInv, TypeOK, Open, ConnStep, Connect, AcceptFails, HandshakeDone,
                      HandshakeFails, SeeShutdown, Request, Respond, Upgrade, ConnEnds,
                      SocketEnds, AbortTakes
    <3>2. QED BY <3>1 DEF Tracked
  <2>3. QED BY <2>1, <2>2 DEF Lifecycle!Next, Lifecycle!Close
<1>3. QED BY <1>1, <1>2

\* After AbortAll no task is tracked.
LEMMA NoneTracked == AbortAll => Tracked' = {}
BY DEF AbortAll, Tracked, Open

\* Every step is a step of ServerLifecycle, or changes nothing of it.
LEMMA LifecycleNext == IInv /\ [Next]_vars => [Lifecycle!Next]_(Lifecycle!vars)
<1> SUFFICES ASSUME IInv, [Next]_vars
             PROVE  Lifecycle!Next \/ UNCHANGED Lifecycle!vars
    BY DEF Lifecycle!vars
<1>1. ASSUME UNCHANGED <<phase, conn, expired>> PROVE UNCHANGED Lifecycle!vars
      BY <1>1 DEF Lifecycle!vars, Tracked
<1>2. ASSUME NEW c \in Conns, ConnStep(c) \/ Accept(c) PROVE Lifecycle!Next
      BY <1>2, ConnLifecycle
<1>3. CASE Signal
      BY <1>3 DEF Signal, tasks, Lifecycle!vars, Tracked
<1>4. CASE Notify
  <2>1. phase = "breaking" /\ phase' = "draining" /\ UNCHANGED <<expired, Tracked>>
        BY <1>4 DEF Notify, tasks, Tracked
  <2>2. QED BY <2>1 DEF Lifecycle!Next, Lifecycle!Drain
<1>5. ASSUME phase = "draining", StartHooks, Tracked = {} \/ expired' PROVE Lifecycle!Next
  <2>1. CASE Hooks = {}
        BY <1>5, <2>1, NoneTracked DEF StartHooks, Return, Lifecycle!Next, Lifecycle!Stop
  <2>2. CASE Hooks # {}
    <3>1. phase' = "hooks" /\ UNCHANGED Tracked
          BY <1>5, <2>2 DEF StartHooks, Tracked
    <3>2. QED BY <1>5, <3>1 DEF Lifecycle!Next, Lifecycle!RunHooks
  <2>3. QED BY <2>1, <2>2
<1>6. CASE Drained
      BY <1>5, <1>6 DEF Drained
<1>7. CASE DrainTimeout
      BY <1>5, <1>7 DEF DrainTimeout
<1>8. ASSUME NEW h \in Hooks, HookEnds(h) PROVE UNCHANGED Lifecycle!vars
      BY <1>1, <1>8 DEF HookEnds, tasks
<1>9. CASE HooksDone
      BY <1>9, NoneTracked DEF HooksDone, Return, Lifecycle!Next, Lifecycle!Stop
<1>10. CASE Drop
       BY <1>10, NoneTracked DEF Drop, Lifecycle!Next, Lifecycle!Drop
<1>11. CASE Tick
       BY <1>1, <1>11 DEF Tick
<1>12. CASE UNCHANGED vars
       BY <1>1, <1>12 DEF vars
<1>13. QED
       BY <1>2, <1>3, <1>4, <1>6, <1>7, <1>8, <1>9, <1>10, <1>11, <1>12 DEF Next, ConnStep

\* serve() with its handshakes, drain, timeouts, hooks and aborts implements
\* ServerLifecycle.
THEOREM Refinement == Spec => ImplementsLifecycle
<1>1. Init => Lifecycle!Init
      BY DEF Init, Lifecycle!Init, Tracked, Open
<1>2. QED
      BY <1>1, LifecycleNext, Inductive, PTL DEF Spec, ImplementsLifecycle, Lifecycle!Spec
=============================================================================
