------------------------------- MODULE Daemon -------------------------------
(* The daemon of src/src/main.c: start-up, the one-second loop, the session  *)
(* timer and the three states of enum daemon_state, together with everything *)
(* that happens around it: the screen is locked and unlocked, requests come  *)
(* in over the control socket, signals arrive, the overlay lives and dies.   *)
(*                                                                           *)
(* The daemon is cut where it blocks or where the outside can interfere: it  *)
(* takes one step per lock read, control poll, timer check, sleep and loop   *)
(* of cgk_stop_reminder.  Time may pass between any two of its steps, so the *)
(* properties below hold however slow the daemon is.                         *)
EXTENDS Reminder

CONSTANTS Interval,   \* interval_minutes, in ticks
          LoopTicks,  \* sleep_one_second
          PollTicks   \* the 250 ms the daemon waits for a client's request

ASSUME DaemonTicksAssumption ==
    /\ Interval \in Nat \ {0}
    /\ LoopTicks \in Nat
    /\ PollTicks \in Nat

VARIABLES pc,           \* where the daemon is
          state,        \* enum daemon_state
          should_stop,  \* set by handle_signal and by quit
          remaining,    \* ticks until now - count_started_ms >= interval_ms
          nap,          \* ticks left of the blocking call the daemon is in
          after,        \* what follows the cgk_stop_reminder under way
          exit_code,    \* what cgk_daemon_main returns
          locked        \* logind's LockedHint of the session

vars == <<reminderVars, pc, state, should_stop, remaining, nap, after,
          exit_code, locked>>

Locations ==
    {"boot",      \* cgk_daemon_main before its loop
     "loop",      \* the loop condition and the lock read
     "control",   \* cgk_control_poll and the request it returns
     "timer",     \* the check of the timer, or of the overlay
     "sleep",     \* sleep_one_second
     "stopWait",  \* the first loop of cgk_stop_reminder
     "stopReap",  \* its second loop, after SIGKILL
     "final",     \* behind the loop
     "exited"}

States == {"counting", "locked", "reminding"}
Requests == {"none", "dismiss", "quit", "trigger"}

\* The five calls of cgk_stop_reminder, by what comes next.
Callers == {"unavailable", "locked", "dismiss", "quit", "final"}

\* CGK_EXIT_CONFIG, _NO_INPUT, _UNAVAILABLE and _SOFTWARE.
ExitFailures == {64, 66, 69, 70}

TypeOK ==
    /\ ReminderTypeOK
    /\ pc \in Locations
    /\ state \in States
    /\ should_stop \in BOOLEAN
    /\ remaining \in Nat
    /\ nap \in Nat
    /\ after \in Callers
    /\ exit_code \in {0} \union ExitFailures
    /\ locked \in BOOLEAN

Init ==
    /\ ReminderInit
    /\ pc = "boot"
    /\ state = "counting"
    /\ should_stop = FALSE
    /\ remaining = 0
    /\ nap = 0
    /\ after = "final"
    /\ exit_code = 0
    /\ locked \in BOOLEAN

-----------------------------------------------------------------------------
(* Building blocks                                                           *)

\* The longest the daemon blocks in location l.
BlockingTicks(l) ==
    IF l = "control" THEN PollTicks ELSE IF l = "sleep" THEN LoopTicks ELSE 0

Goto(l) == pc' = l /\ nap' = BlockingTicks(l)

\* state = STATE_COUNTING; count_started_ms = cgk_monotonic_ms()
RestartCount == state' = "counting" /\ remaining' = Interval

ExitWith(code) == Goto("exited") /\ exit_code' = code

\* Mutant: state = STATE_LOCKED is missing.
ResumeUnlocked(k) ==
    \/ /\ k = "unavailable"
       /\ ExitWith(69)
       /\ UNCHANGED <<state, should_stop, remaining>>
    \/ /\ k = "locked"
       /\ Goto("control")
       /\ UNCHANGED <<state, should_stop, remaining, exit_code>>
    \/ /\ k = "dismiss"
       /\ RestartCount
       /\ Goto("timer")
       /\ UNCHANGED <<should_stop, exit_code>>
    \/ /\ k = "quit"
       /\ should_stop' = TRUE
       /\ Goto("final")
       /\ UNCHANGED <<state, remaining, exit_code>>
    \/ /\ k = "final"
       /\ ExitWith(0)
       /\ UNCHANGED <<state, should_stop, remaining>>

\* What the caller k of cgk_stop_reminder does when it returns.
Resume(k) ==
    \/ /\ k = "unavailable"
       /\ ExitWith(69)
       /\ UNCHANGED <<state, should_stop, remaining>>
    \/ /\ k = "locked"
       /\ state' = "locked"
       /\ Goto("control")
       /\ UNCHANGED <<should_stop, remaining, exit_code>>
    \/ /\ k = "dismiss"
       /\ RestartCount
       /\ Goto("timer")
       /\ UNCHANGED <<should_stop, exit_code>>
    \/ /\ k = "quit"
       /\ should_stop' = TRUE
       /\ Goto("final")
       /\ UNCHANGED <<state, remaining, exit_code>>
    \/ /\ k = "final"
       /\ ExitWith(0)
       /\ UNCHANGED <<state, should_stop, remaining>>

\* k calls cgk_stop_reminder.
StopReminder(k) ==
    \/ /\ StopNeedless
       /\ Resume(k)
       /\ UNCHANGED <<after, locked>>
    \/ /\ StopTerminates
       /\ after' = k
       /\ Goto("stopWait")
       /\ UNCHANGED <<state, should_stop, remaining, exit_code, locked>>

\* k stops the reminder if one is active, and goes on.
StopIfReminding(k) ==
    \/ /\ state = "reminding"
       /\ StopReminder(k)
    \/ /\ state # "reminding"
       /\ Resume(k)
       /\ UNCHANGED <<reminderVars, after, locked>>

-----------------------------------------------------------------------------
(* Start-up                                                                  *)

\* Every check passes, the control socket is open, the first lock read works.
Boot ==
    /\ pc = "boot"
    /\ state' = IF locked THEN "locked" ELSE "counting"
    /\ remaining' = Interval
    /\ Goto("loop")
    /\ UNCHANGED <<reminderVars, should_stop, after, exit_code, locked>>

BootFails ==
    /\ pc = "boot"
    /\ \E code \in ExitFailures : ExitWith(code)
    /\ UNCHANGED <<reminderVars, state, should_stop, remaining, after, locked>>

-----------------------------------------------------------------------------
(* One turn of the loop                                                      *)

LeaveLoop ==
    /\ pc = "loop" /\ should_stop
    /\ Goto("final")
    /\ UNCHANGED <<reminderVars, state, should_stop, remaining, after,
                   exit_code, locked>>

\* Mutant: the daemon returns without stopping the reminder.
LockReadFailsAtOnce ==
    /\ pc = "loop" /\ ~should_stop
    /\ ExitWith(69)
    /\ UNCHANGED <<reminderVars, state, should_stop, remaining, after, locked>>

LockReadFails ==
    /\ pc = "loop" /\ ~should_stop
    /\ StopIfReminding("unavailable")

\* Mutant: a lock is ignored while there is a reminder.
LockSeenUnlessReminding ==
    /\ pc = "loop" /\ ~should_stop
    /\ locked /\ state # "locked"
    /\ state' = IF state = "reminding" THEN state ELSE "locked"
    /\ Goto("control")
    /\ UNCHANGED <<reminderVars, should_stop, remaining, after, exit_code,
                   locked>>

LockSeen ==
    /\ pc = "loop" /\ ~should_stop
    /\ locked /\ state # "locked"
    /\ StopIfReminding("locked")

\* Mutant: count_started_ms is not set on unlock.
UnlockSeenKeepsCount ==
    /\ pc = "loop" /\ ~should_stop
    /\ ~locked /\ state = "locked"
    /\ state' = "counting"
    /\ Goto("control")
    /\ UNCHANGED <<reminderVars, should_stop, remaining, after, exit_code,
                   locked>>

UnlockSeen ==
    /\ pc = "loop" /\ ~should_stop
    /\ ~locked /\ state = "locked"
    /\ RestartCount
    /\ Goto("control")
    /\ UNCHANGED <<reminderVars, should_stop, after, exit_code, locked>>

NoLockChange ==
    /\ pc = "loop" /\ ~should_stop
    /\ locked <=> state = "locked"
    /\ Goto("control")
    /\ UNCHANGED <<reminderVars, state, should_stop, remaining, after,
                   exit_code, locked>>

\* cgk_control_poll returns no request (it answers a status itself), or one that
\* changes nothing: a dismiss with no reminder, a trigger when not counting.
RequestIgnored(request) ==
    /\ pc = "control"
    /\ \/ request = "none"
       \/ (request = "dismiss" /\ state # "reminding")
       \/ (request = "trigger" /\ state # "counting")
    /\ Goto("timer")
    /\ UNCHANGED <<reminderVars, state, should_stop, remaining, after,
                   exit_code, locked>>

Dismiss(request) ==
    /\ pc = "control" /\ request = "dismiss"
    /\ state = "reminding"
    /\ StopReminder("dismiss")

Quit(request) ==
    /\ pc = "control" /\ request = "quit"
    /\ StopIfReminding("quit")

\* Mutant: a trigger is obeyed in every state.
TriggerAlways(request) ==
    /\ pc = "control" /\ request = "trigger"
    /\ \/ /\ \E p \in Pids : StartReminder(p)
          /\ state' = "reminding"
       \/ /\ StartReminderFails
          /\ UNCHANGED state
    /\ remaining' = Interval
    /\ Goto("timer")
    /\ UNCHANGED <<should_stop, after, exit_code, locked>>

\* The count restarts whether or not the overlay could be started.
Trigger(request) ==
    /\ pc = "control" /\ request = "trigger"
    /\ state = "counting"
    /\ \/ /\ \E p \in Pids : StartReminder(p)
          /\ state' = "reminding"
       \/ /\ StartReminderFails
          /\ UNCHANGED state
    /\ remaining' = Interval
    /\ Goto("timer")
    /\ UNCHANGED <<should_stop, after, exit_code, locked>>

HandleRequest(request) ==
    \/ RequestIgnored(request)
    \/ Dismiss(request)
    \/ Quit(request)
    \/ Trigger(request)

\* Locked, or the interval is not over yet.
TimerIdle ==
    /\ pc = "timer"
    /\ \/ state = "locked"
       \/ (state = "counting" /\ remaining > 0)
    /\ Goto("sleep")
    /\ UNCHANGED <<reminderVars, state, should_stop, remaining, after,
                   exit_code, locked>>

\* Mutant: the count goes on when the overlay could not be started.
TimerFiresOverdue ==
    /\ pc = "timer" /\ state = "counting" /\ remaining = 0
    /\ \/ /\ \E p \in Pids : StartReminder(p)
          /\ state' = "reminding"
       \/ /\ StartReminderFails
          /\ UNCHANGED state
    /\ Goto("sleep")
    /\ UNCHANGED <<remaining, should_stop, after, exit_code, locked>>

\* The interval is over: the overlay is started, or the count restarts.
TimerFires ==
    /\ pc = "timer" /\ state = "counting" /\ remaining = 0
    /\ \/ /\ \E p \in Pids : StartReminder(p)
          /\ state' = "reminding"
          /\ UNCHANGED remaining
       \/ /\ StartReminderFails
          /\ RestartCount
    /\ Goto("sleep")
    /\ UNCHANGED <<should_stop, after, exit_code, locked>>

\* cgk_poll_reminder, and a new count if it says that the reminder is over.
PollReminder ==
    /\ pc = "timer" /\ state = "reminding"
    /\ \/ /\ PollReaps \/ PollKills
          /\ RestartCount
       \/ /\ PollTerminates \/ PollWaits
          /\ UNCHANGED <<state, remaining>>
    /\ Goto("sleep")
    /\ UNCHANGED <<should_stop, after, exit_code, locked>>

Wake ==
    /\ pc = "sleep" /\ nap = 0
    /\ Goto("loop")
    /\ UNCHANGED <<reminderVars, state, should_stop, remaining, after,
                   exit_code, locked>>

\* Behind the loop; the daemon then closes its socket and returns 0.
Final ==
    /\ pc = "final"
    /\ StopIfReminding("final")

-----------------------------------------------------------------------------
(* Inside cgk_stop_reminder                                                  *)

StopWaitReaps ==
    /\ pc = "stopWait"
    /\ StopReapsInTime
    /\ Resume(after)
    /\ UNCHANGED <<after, locked>>

StopWaitExpires ==
    /\ pc = "stopWait"
    /\ StopKills
    /\ Goto("stopReap")
    /\ UNCHANGED <<state, should_stop, remaining, after, exit_code, locked>>

StopReapReaps ==
    /\ pc = "stopReap"
    /\ StopReapsAtLast
    /\ Resume(after)
    /\ UNCHANGED <<after, locked>>

DaemonStep ==
    \/ Boot
    \/ BootFails
    \/ LeaveLoop
    \/ LockReadFails
    \/ LockSeen
    \/ UnlockSeen
    \/ NoLockChange
    \/ \E request \in Requests : HandleRequest(request)
    \/ TimerIdle
    \/ TimerFires
    \/ PollReminder
    \/ Wake
    \/ Final
    \/ StopWaitReaps
    \/ StopWaitExpires
    \/ StopReapReaps

-----------------------------------------------------------------------------
(* Around the daemon                                                         *)

\* SIGINT or SIGTERM: nanosleep is cut short, the poll for a client restarts.
Signal ==
    /\ pc # "exited"
    /\ should_stop' = TRUE
    /\ nap' = IF pc = "sleep" THEN 0 ELSE BlockingTicks(pc)
    /\ UNCHANGED <<reminderVars, pc, state, remaining, after, exit_code, locked>>

SessionLocks ==
    /\ ~locked /\ locked' = TRUE
    /\ UNCHANGED <<reminderVars, pc, state, should_stop, remaining, nap, after,
                   exit_code>>

SessionUnlocks ==
    /\ locked /\ locked' = FALSE
    /\ UNCHANGED <<reminderVars, pc, state, should_stop, remaining, nap, after,
                   exit_code>>

Child(p) ==
    /\ ChildStep(p)
    /\ UNCHANGED <<pc, state, should_stop, remaining, nap, after, exit_code,
                   locked>>

Killed(p) == Child(p) /\ KillDelivered(p)

\* One tick of the monotonic clock, as long as somebody waits for it.
Tick ==
    /\ pc # "exited"
    /\ deadline + kill_deadline + stop_deadline + remaining + nap > 0
    /\ ReminderTick
    /\ remaining' = Countdown(remaining)
    /\ nap' = Countdown(nap)
    /\ UNCHANGED <<pc, state, should_stop, after, exit_code, locked>>

Environment ==
    \/ Signal
    \/ SessionLocks
    \/ SessionUnlocks
    \/ \E p \in Pids : Child(p)

Next == DaemonStep \/ Environment \/ Tick

\* The daemon is scheduled, time passes, and SIGKILL is delivered.  Nothing is
\* assumed of the overlay, the session, the clients or the signals.
Fairness ==
    /\ WF_vars(DaemonStep)
    /\ WF_vars(Tick)
    /\ \A p \in Pids : WF_vars(Killed(p))

Spec == Init /\ [][Next]_vars /\ Fairness

-----------------------------------------------------------------------------
(* The daemon implements the policy                                          *)

\* An overlay process that nobody has killed for good.
Unkilled(p) == Live(p) /\ sig[p] # "kill"

Policy == INSTANCE ReminderPolicy
    WITH mode <- IF pc \in {"boot", "exited"} THEN "off" ELSE state,
         overlay <- \E p \in Pids : Unkilled(p)

-----------------------------------------------------------------------------
(* Properties                                                                *)

\* The daemon does what ReminderPolicy promises: it shows an overlay only when
\* it leaves counting for reminding, one at a time, calls a reminder over only
\* when its overlay is gone or killed, and ends every reminder
\* (main.c:221-303, reminder.c:304-432).
ImplementsPolicy == Policy!PolicySpec

\* An overlay process runs unkilled only as the one the daemon tracks, only
\* while the daemon is reminding, and never before or after its loop: a
\* lock, a dismiss, a quit, a signal or a failing logind leaves none behind, and
\* no second overlay is started over a first one (main.c:163-306).
Supervised ==
    \A p \in Pids :
        Unkilled(p) =>
            /\ p = pid
            /\ state = "reminding"
            /\ pc \notin {"boot", "exited"}

\* Every signal goes to a child that has not been waited for: never to a
\* process id the kernel may have given away, never to kill's pid -1, although
\* quit stops the reminder twice (main.c:262 and 301, reminder.c:407).
SignalTargets == \A p \in Pids : sig[p] # "none" => child[p] # "free"

\* What keeps SignalTargets: a recorded pid has not been waited for, and the
\* loops of cgk_stop_reminder have one.
PidIsOurs ==
    /\ pid # NoPid => child[pid] # "free"
    /\ pc \in {"stopWait", "stopReap"} => pid # NoPid

\* What keeps a reminder from coming back to life: a tracked overlay that has
\* been sent SIGKILL is never sent SIGTERM again.
KillIsLast ==
    state = "reminding" /\ pid # NoPid /\ sig[pid] = "kill" => pc = "stopReap"

\* The inductive invariant that the safety properties follow from.
Inv == TypeOK /\ Supervised /\ SignalTargets /\ PidIsOurs /\ KillIsLast

\* A reminder ends, even if the overlay hangs and ignores SIGTERM or swallows
\* it before its exec (reminder.c:387-400).
ReminderEnds == state = "reminding" ~> state # "reminding" \/ pc = "exited"

\* A signal or quit ends the daemon, from wherever it is, with no overlay left
\* (main.c:221, 259-265, 300-305).
StopHonoured ==
    should_stop ~> pc = "exited" /\ \A p \in Pids : ~Unkilled(p)

\* Once the session stays locked, the overlay goes and stays away, and the
\* daemon knows (main.c:233-240).
LockHonoured ==
    <>[]locked =>
        <>[]( \/ pc = "exited"
              \/ state = "locked" /\ \A p \in Pids : ~Unkilled(p) )

\* A due reminder does not stay due: it is shown, or the attempt failed and the
\* count restarted, or the session was locked (main.c:280-290).
DueIsServed ==
    pc # "boot" /\ state = "counting" /\ remaining = 0
        ~> state # "counting" \/ remaining > 0 \/ pc = "exited"

=============================================================================
