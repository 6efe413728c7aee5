---------------------------- MODULE DaemonTimed ----------------------------
(* Daemon with its real timing: the daemon takes no time except where it     *)
(* blocks, and the observers measure what a user with a stopwatch would.     *)
(*                                                                           *)
(* The assumptions are those of an idle machine: code runs in no time, logind *)
(* answers at once, SIGKILL works at once, and a locked session stays locked  *)
(* for at least MinLock ticks.                                               *)
EXTENDS Daemon

CONSTANT MinLock

ASSUME MinLockAssumption == MinLock \in Nat

VARIABLES lockedFor,  \* ticks the session has been locked, 0 if it is not
          calm,       \* ticks since start-up, the last unlock, the last overlay
          age,        \* ticks since the last overlay was forked
          warned,     \* the tracked overlay has been sent SIGTERM
          grace       \* ticks since then

observers == <<lockedFor, calm, age, warned, grace>>

-----------------------------------------------------------------------------
(* The longest that things may take; the observers stop counting beyond it.  *)

\* From one lock read to the next while no reminder is stopped; a signal makes
\* the poll for a client start afresh, once.
TurnTicks == 2 * PollTicks + LoopTicks

\* From a lock to its effect: a turn to see it, a stop to end the overlay.
LockTicks == TurnTicks + TermTicks

\* A reminder that has to be killed: a turn to notice each of its deadlines.
ReminderTicks ==
    SleepTicks + MarginTicks + TermTicks + 2 * TurnTicks

Watch(limit, n) == IF n < limit THEN n + 1 ELSE n

-----------------------------------------------------------------------------
TimedInit ==
    /\ Init
    /\ lockedFor = 0
    /\ calm = 0
    /\ age = 0
    /\ warned = FALSE
    /\ grace = 0

\* Every step of the system starts the stopwatches it is the origin of.
Observe ==
    /\ lockedFor' = IF locked' THEN lockedFor ELSE 0
    /\ calm' = IF \/ locked /\ ~locked'
                  \/ \E p \in Pids : Unkilled(p)
               THEN 0 ELSE calm
    /\ age' = IF pid' \in Pids \ {pid} THEN 0 ELSE age
    /\ warned' = (pid' = pid /\ (warned \/ \E p \in Pids : sig'[p] = "term"))
    /\ grace' = IF warned' THEN grace ELSE 0

\* Nobody holds a stopwatch any more once the daemon has returned.
TimedUnlock == SessionUnlocks /\ (lockedFor >= MinLock \/ pc = "exited")

\* One signal: each further one would let the poll for a client start afresh.
FirstSignal == Signal /\ ~should_stop

TimedStep ==
    /\ \/ DaemonStep
       \/ SessionLocks
       \/ TimedUnlock
       \/ FirstSignal
       \/ \E p \in Pids : Child(p)
    /\ Observe

\* The daemon is blocked, and no SIGKILL is waiting to be delivered.
MayTick ==
    /\ \/ pc \in {"control", "sleep"} /\ nap > 0
       \/ pc = "stopWait" /\ stop_deadline > 0
    /\ \A p \in Pids : Live(p) => sig[p] # "kill"

TimedTick ==
    /\ MayTick
    /\ Tick
    /\ lockedFor' = IF locked THEN Watch(LockTicks + MinLock, lockedFor) ELSE 0
    /\ calm' = IF \E p \in Pids : Unkilled(p) THEN 0 ELSE Watch(Interval, calm)
    /\ age' = Watch(ReminderTicks + 1, age)
    /\ grace' = IF warned THEN Watch(TermTicks, grace) ELSE 0
    /\ UNCHANGED warned

TimedNext == TimedStep \/ TimedTick

TimedSpec == TimedInit /\ [][TimedNext]_<<vars, observers>>

-----------------------------------------------------------------------------
(* Properties                                                                *)

\* The timer never shows an overlay before a whole interval has gone by since
\* start-up, since the session was unlocked and since the last overlay was
\* alive; the time that has gone by is what the count says (main.c:236-258,
\* 270-292; DESIGN.md:56-64).
CountIsCalm ==
    pc \notin {"boot", "exited"} /\ state = "counting" =>
        calm + remaining >= Interval

\* More than LockTicks after the session was locked no overlay covers the lock screen
\* and the daemon is paused, whatever the daemon was doing (main.c:221-240).
LockTakesEffect ==
    lockedFor > LockTicks =>
        /\ state = "locked" \/ pc \in {"boot", "exited"}
        /\ \A p \in Pids : ~Unkilled(p)

\* A reminder ends in time even when its overlay neither ends by itself nor
\* heeds SIGTERM (reminder.c:387-400, 411-431).
ReminderInTime ==
    state = "reminding" /\ pc \in {"loop", "control", "timer", "sleep"} =>
        age <= ReminderTicks

\* SIGKILL only ever follows a SIGTERM to the same overlay by the two seconds
\* it is granted to end in order (reminder.c:389-397, 411-424).
GraceBeforeKill ==
    [][\A p \in Pids : sig'[p] = "kill" /\ sig[p] # "kill" =>
           p = pid /\ warned /\ grace >= TermTicks]_<<vars, observers>>

\* Unless it is stopped, an overlay is left alone for its whole sleep and the
\* margin on top (reminder.c:338, 387).
NotCutShort ==
    [][pc = "timer" /\ sig' # sig /\ pid' = pid =>
           age >= SleepTicks + MarginTicks]_<<vars, observers>>

=============================================================================
