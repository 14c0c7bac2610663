------------------------------- MODULE Parker -------------------------------
(***************************************************************************)
(* wake::Parker - blocks one thread until woken or until a deadline: a     *)
(* token, a flag that asks wakes to notify, and a condition variable.      *)
(* One step is one critical section of its mutex, or one notification      *)
(* issued after unlocking.                                                 *)
(***************************************************************************)
CONSTANT Wakers        \* the threads that hold a waker of this parker

VARIABLES
  token,      \* State::woken: a wake nobody consumed yet
  parked,     \* State::parked: wakes must notify
  sleeper,    \* the parked thread: "awake", "asleep" in a wait, or "resumed"
              \* from one and not yet holding the lock
  deadline,   \* of the park under way: "none", "future" or "passed"
  notifying   \* wakers that claimed the notify and have not issued it

parkerVars == <<token, parked, sleeper, deadline, notifying>>

Deadlines == {"none", "future", "passed"}

ParkerInit ==
  /\ token = FALSE /\ parked = FALSE
  /\ sleeper = "awake" /\ deadline = "none"
  /\ notifying = {}

\* sleep, up to its first wait: a token set before is consumed at once; a
\* deadline already over returns without asking for a notify.
Park(d) ==
  /\ sleeper = "awake"
  /\ \/ /\ token
        /\ token' = FALSE
        /\ UNCHANGED <<parked, sleeper, deadline>>
     \/ /\ ~token /\ d = "passed"
        /\ UNCHANGED <<token, parked, sleeper, deadline>>
     \/ /\ ~token /\ d # "passed"
        /\ parked' = TRUE /\ sleeper' = "asleep" /\ deadline' = d
        /\ UNCHANGED token
  /\ UNCHANGED notifying

\* The deadline is over and no wake came: withdraw the request and return.
LeaveAtDeadline ==
  /\ parked' = FALSE /\ sleeper' = "awake" /\ deadline' = "none"
  /\ UNCHANGED token

\* Mutant: the clock is asked before the token.
RecheckClockFirst ==
  /\ sleeper = "resumed"
  /\ \/ deadline = "passed" /\ LeaveAtDeadline
     \/ /\ token /\ deadline # "passed"
        /\ token' = FALSE /\ sleeper' = "awake" /\ deadline' = "none"
        /\ UNCHANGED parked
     \/ /\ ~token /\ deadline # "passed"
        /\ sleeper' = "asleep"
        /\ UNCHANGED <<token, parked, deadline>>
  /\ UNCHANGED notifying

\* The loop of sleep, after any return of the wait: the token first, so a wake
\* wins a tie; then the clock; else the thread waits again.
Recheck ==
  /\ sleeper = "resumed"
  /\ \/ /\ token
        /\ token' = FALSE /\ sleeper' = "awake" /\ deadline' = "none"
        /\ UNCHANGED parked
     \/ ~token /\ deadline = "passed" /\ LeaveAtDeadline
     \/ /\ ~token /\ deadline # "passed"
        /\ sleeper' = "asleep"
        /\ UNCHANGED <<token, parked, deadline>>
  /\ UNCHANGED notifying

\* Mutant: the token is left and nobody is notified.
WakeQuietly(t) ==
  /\ t \notin notifying
  /\ token' = TRUE /\ parked' = FALSE
  /\ UNCHANGED <<sleeper, deadline, notifying>>

\* wake_by_ref under the lock: leave the token, claim the notify.
Wake(t) ==
  /\ t \notin notifying
  /\ token' = TRUE
  /\ parked' = FALSE
  /\ notifying' = IF parked THEN notifying \cup {t} ELSE notifying
  /\ UNCHANGED <<sleeper, deadline>>

\* wake_by_ref's notify_one, unlocked.
Notify(t) ==
  /\ t \in notifying
  /\ notifying' = notifying \ {t}
  /\ sleeper' = IF sleeper = "asleep" THEN "resumed" ELSE sleeper
  /\ UNCHANGED <<token, parked, deadline>>

Tick ==
  /\ deadline = "future"
  /\ deadline' = "passed"
  /\ UNCHANGED <<token, parked, sleeper, notifying>>

\* Mutant: a wait that is given no timeout.
WaitForEver == FALSE

\* wait_timeout returns at the deadline.
TimedOut ==
  /\ sleeper = "asleep" /\ deadline = "passed"
  /\ sleeper' = "resumed"
  /\ UNCHANGED <<token, parked, deadline, notifying>>

\* std::sync::Condvar may return from a wait without a notification.
SpuriousReturn ==
  /\ sleeper = "asleep"
  /\ sleeper' = "resumed"
  /\ UNCHANGED <<token, parked, deadline, notifying>>

ParkerNext ==
  \/ \E d \in Deadlines : Park(d)
  \/ Recheck
  \/ \E t \in Wakers : Wake(t) \/ Notify(t)
  \/ Tick \/ TimedOut \/ SpuriousReturn

\* The scheduler of the operating system runs the parked thread once it is
\* notified, finishes every wake it started, and the clock moves.
ParkerFairness ==
  /\ WF_parkerVars(Recheck)
  /\ \A t \in Wakers : WF_parkerVars(Notify(t))
  /\ WF_parkerVars(Tick) /\ WF_parkerVars(TimedOut)

ParkerSpec == ParkerInit /\ [][ParkerNext]_parkerVars

FairParkerSpec == ParkerSpec /\ ParkerFairness

-----------------------------------------------------------------------------
ParkerTypeOK ==
  /\ token \in BOOLEAN /\ parked \in BOOLEAN
  /\ sleeper \in {"awake", "asleep", "resumed"}
  /\ deadline \in Deadlines
  /\ notifying \subseteq Wakers

\* No wake is lost between its critical section and the notify: a thread that
\* sleeps on a token has a waker about to notify it, and one that sleeps
\* without a token still asks the next wake to notify.
NoLostWake ==
  sleeper = "asleep" => IF token THEN notifying # {} ELSE parked

\* A parker that left (by token or by timeout) asks nobody to notify it: wakes
\* after it skip the system call until the next park.
AwakeAsksNoNotify == sleeper = "awake" => ~parked

\* A token is consumed only by a park that returns for it: no wake is spent on
\* a thread that keeps sleeping or that returns for its deadline.  And a park
\* that slept leaves nothing behind: "a wake present at the deadline wins and is
\* consumed, so no stale token outlives the call" (park_until), and a parker
\* that left by token or deadline no longer asks wakes to notify it.
TokenEndsAPark ==
  [][/\ token /\ ~token' => sleeper' = "awake" /\ sleeper # "asleep"
     /\ sleeper # "awake" /\ sleeper' = "awake" => ~token' /\ ~parked']_parkerVars

\* Every wake of a sleeping thread, and every deadline, ends its park.
WakeEndsPark == (sleeper # "awake" /\ token) ~> sleeper = "awake"
DeadlineEndsPark == (sleeper # "awake" /\ deadline # "none") ~> sleeper = "awake"
=============================================================================
