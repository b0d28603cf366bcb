---------------------------- MODULE CronScheduler ----------------------------
(***************************************************************************)
(* CronScheduler::run of ladoo-jobs: every Window seconds each entry's next*)
(* occurrence is computed, and a job is pushed when it lies at most Window *)
(* seconds ahead of the start of the turn.  `now` is read once per turn,   *)
(* but upcoming(Utc) reads the clock itself, after the pushes of earlier   *)
(* entries have taken their time.                                          *)
(*                                                                         *)
(* Time is counted in ticks, Second of them to the second, so that whole   *)
(* seconds (num_seconds) and what they cut off can be told apart.          *)
(***************************************************************************)
EXTENDS Integers, FiniteSets

CONSTANTS Entries,   \* 1 .. number of registered jobs
          Period,    \* ticks between two occurrences of an entry
          Offset,    \* ticks of each entry's first occurrence
          Window,    \* 60 in the code
          Second,    \* ticks per second
          Lags,      \* how late a timer fires and how long a push takes, in ticks
          Horizon    \* bound: ticks simulated

ASSUME CronAssumption ==
    /\ Entries \in Nat \ {0} /\ Period \in Nat \ {0}
    /\ Offset \in [1 .. Entries -> Nat]
    /\ Window \in Nat \ {0} /\ Second \in Nat \ {0}
    /\ Lags \subseteq Nat /\ Horizon \in Nat

VARIABLES
    clock,    \* Utc::now()
    now,      \* the turn's `now`
    entry,    \* entry to look at next; 0: sleeping, -1: shut down
    sleepEnd, \* when the sleep ends
    since,    \* history: when the scheduler was started
    fired     \* history: push() calls per entry and occurrence

vars == <<clock, now, entry, sleepEnd, since, fired>>

\* Occurrences the run can reach; one more than the horizon shows.
Times(e) == {t \in 0 .. Horizon + Period : t >= Offset[e] /\ (t - Offset[e]) % Period = 0}

\* Type invariant: the scheduler stays within its entries, and only real occurrences
\* are counted.
TypeOK ==
    /\ clock \in Nat /\ now \in 0 .. clock /\ since \in 0 .. clock
    /\ entry \in -1 .. Entries
    /\ sleepEnd \in Nat
    /\ \A e \in 1 .. Entries : fired[e] \in [Times(e) -> Nat]

Init ==
    /\ clock \in 0 .. Period - 1
    /\ now = clock /\ since = clock
    /\ entry = 1
    /\ sleepEnd = 0
    /\ fired = [e \in 1 .. Entries |-> [t \in Times(e) |-> 0]]

\* schedule.upcoming(Utc).next(): the first occurrence after the clock.
Upcoming(e) == CHOOSE t \in Times(e) : t > clock /\ \A u \in Times(e) : u > clock => t <= u

\* Mutants of Imminent: the boundary left out; twice the window.
ImminentExclusive(e) == (Upcoming(e) - now) \div Second < Window
ImminentTwice(e) == (Upcoming(e) - now) \div Second <= 2 * Window

\* `diff.num_seconds() <= 60`, in whole seconds.
Imminent(e) == (Upcoming(e) - now) \div Second <= Window

\* On to the next entry, or to sleep.
Proceed ==
    IF entry < Entries
    THEN entry' = entry + 1 /\ UNCHANGED sleepEnd
    ELSE entry' = 0 /\ sleepEnd' = clock' + Window * Second

\* An imminent entry: its job is pushed with run_at = now.  What push() returns is
\* ignored.
Push ==
    /\ entry > 0 /\ clock < Horizon /\ Imminent(entry)
    /\ \E lag \in Lags : clock' = clock + lag
    /\ fired' = [fired EXCEPT ![entry][Upcoming(entry)] = @ + 1]
    /\ Proceed
    /\ UNCHANGED <<now, since>>

Pass ==
    /\ entry > 0 /\ clock < Horizon /\ ~Imminent(entry)
    /\ UNCHANGED <<clock, now, since, fired>>
    /\ Proceed

\* The sleep ends and the next turn begins.
Turn ==
    /\ entry = 0 /\ clock < Horizon
    /\ \E lag \in Lags : clock' = sleepEnd + lag
    /\ now' = clock'
    /\ entry' = 1
    /\ UNCHANGED <<sleepEnd, since, fired>>

\* The shutdown channel holds true: run() returns.
Stop ==
    /\ entry = 0
    /\ entry' = -1
    /\ UNCHANGED <<clock, now, sleepEnd, since, fired>>

Next == Push \/ Pass \/ Turn \/ Stop

Spec == Init /\ [][Next]_vars
-----------------------------------------------------------------------------
\* From one second after its start on, the scheduler skips no occurrence while the
\* lags of two turns stay below one second and an entry occurs less than once a window:
\* the window reaches into the next turn by what num_seconds() cuts off.
NeverMissed ==
    entry = 0 => \A e \in 1 .. Entries : \A t \in Times(e) :
        since + Second <= t /\ t <= clock => fired[e][t] > 0

\* Turns are a window apart, so an occurrence is pushed twice at most, however the
\* turns fall.
AtMostTwice == TypeOK /\ \A e \in 1 .. Entries : \A t \in Times(e) : fired[e][t] <= 2
==============================================================================
