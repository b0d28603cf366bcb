------------------------------- MODULE JobNotify -------------------------------
(***************************************************************************)
(* How a worker on PostgresStore is woken: the AFTER INSERT trigger sends a*)
(* NOTIFY, spawn_listener() receives it and sends on a watch channel, and  *)
(* every turn of Worker::run waits on a receiver that subscribe() clones   *)
(* from the store's own.  A clone has seen what the original has seen, and *)
(* nobody ever calls changed() on the original.                            *)
(*                                                                         *)
(* The channel is a version number; a receiver is the version it has seen. *)
(***************************************************************************)
EXTENDS Naturals, FiniteSets

CONSTANTS Pushed,  \* jobs pushed, all due at once
          Batch    \* Worker::batch_size

ASSUME NotifyAssumption == Batch \in Nat \ {0}

VARIABLES
    waiting,   \* rows claim() may take
    claimed,   \* rows claimed
    inflight,  \* notifications on their way, each the rows of its transaction
    noticed,   \* rows whose notification reached the watch channel
    version,   \* of the watch channel
    stored,    \* version seen by PostgresStore::notify_rx
    rx,        \* version seen by the receiver run() waits on
    pc         \* where run() is

notifyVars == <<waiting, claimed, inflight, noticed, version, stored, rx, pc>>
chan == <<version, stored>>
queue == <<waiting, claimed>>

\* Type invariant: versions only come from sends, and a job is either waiting or
\* claimed.
NotifyTypeOK ==
    /\ waiting \subseteq Pushed /\ claimed \subseteq Pushed \ waiting
    /\ inflight \subseteq SUBSET (waiting \cup claimed)
    /\ noticed \subseteq waiting \cup claimed
    /\ version \in Nat /\ stored \in 0 .. version /\ rx \in 0 .. version
    /\ pc \in {"claim", "subscribe", "select", "stopped"}

NotifyInit ==
    /\ waiting = {} /\ claimed = {} /\ inflight = {} /\ noticed = {}
    /\ version = 0 /\ stored = 0 /\ rx = 0
    /\ pc = "claim"

\* A transaction that inserts rows commits: Postgres folds its equal notifications
\* into one.
Insert(S) ==
    /\ S # {} /\ S \cap (waiting \cup claimed) = {}
    /\ waiting' = waiting \cup S
    /\ inflight' = inflight \cup {S}
    /\ UNCHANGED <<claimed, noticed, chan, rx, pc>>

\* listener.recv() is Ok: tx.send(()).
ListenerRecv ==
    /\ \E S \in inflight : inflight' = inflight \ {S} /\ noticed' = noticed \cup S
    /\ version' = version + 1
    /\ UNCHANGED <<queue, stored, rx, pc>>

\* The listener's connection drops: what was on its way is lost, and recv() fails
\* or reconnects.
ListenerLost ==
    /\ inflight # {}
    /\ inflight' = {}
    /\ UNCHANGED <<queue, noticed, chan, rx, pc>>

\* claim(batch_size), and the batch is spawned.
Claim ==
    /\ pc = "claim"
    /\ \E S \in SUBSET waiting :
          /\ Cardinality(S) = IF Cardinality(waiting) <= Batch THEN Cardinality(waiting)
                                                                   ELSE Batch
          /\ waiting' = waiting \ S
          /\ claimed' = claimed \cup S
    /\ pc' = "subscribe"
    /\ UNCHANGED <<inflight, noticed, chan, rx>>

\* Mutant of Subscribe: the clone has seen everything sent so far.
SubscribeSeen ==
    /\ pc = "subscribe"
    /\ rx' = version
    /\ pc' = "select"
    /\ UNCHANGED <<queue, inflight, noticed, chan>>

\* subscribe(): a clone of notify_rx.
Subscribe ==
    /\ pc = "subscribe"
    /\ rx' = stored
    /\ pc' = "select"
    /\ UNCHANGED <<queue, inflight, noticed, chan>>

\* notify_rx.changed(): the clone has seen the version now, and is dropped.
SelectNotify ==
    /\ pc = "select" /\ rx < version
    /\ rx' = version
    /\ pc' = "claim"
    /\ UNCHANGED <<queue, inflight, noticed, chan>>

\* The poll interval has elapsed.
SelectPoll ==
    /\ pc = "select"
    /\ pc' = "claim"
    /\ UNCHANGED <<queue, inflight, noticed, chan, rx>>

\* The shutdown channel holds true.
SelectShutdown ==
    /\ pc = "select"
    /\ pc' = "stopped"
    /\ UNCHANGED <<queue, inflight, noticed, chan, rx>>

NotifyNext ==
    \/ \E S \in SUBSET Pushed : Insert(S)
    \/ ListenerRecv \/ ListenerLost
    \/ Claim \/ Subscribe \/ SelectNotify \/ SelectPoll \/ SelectShutdown

NotifySpec == NotifyInit /\ [][NotifyNext]_notifyVars

\* The runtime polls run(); nothing is assumed of the poll interval.
FairNotifySpec == NotifySpec /\ WF_notifyVars(Claim \/ Subscribe \/ SelectNotify)
-----------------------------------------------------------------------------
\* No wakeup is lost: while run() waits, a row whose notification has arrived keeps
\* the notification branch ready - also one that arrived between claim() and
\* subscribe(), and one that did not fit into the last batch.
NoWakeupLost == pc = "select" /\ noticed \cap waiting # {} => rx < version

\* "the worker wakes immediately on new jobs instead of waiting for the next poll":
\* without any poll, a noticed row is claimed unless the worker is shut down.
NoticedIsClaimed ==
    \A j \in Pushed : j \in noticed ~> j \in claimed \/ pc = "stopped"
=============================================================================
