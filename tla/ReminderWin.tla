----------------------------- MODULE ReminderWin -----------------------------
(* The reminder supervisor of src/src/reminder.c, Windows part, under the    *)
(* calls that the loop of src/src/main.c makes to it: processes are held by  *)
(* handles, an overlay is asked to leave by WM_CLOSE to its windows, if it   *)
(* has any yet, and is terminated two seconds later.                         *)
(*                                                                           *)
(* An open handle keeps the process id from being given away.  Handles are   *)
(* named after their process; those of a daemon that exits are closed.       *)
(* Deadlines are ticks left, as in Reminder.  Left out: that waiting on an   *)
(* open handle fails (reminder.c:165-171).                                   *)
EXTENDS Naturals

CONSTANTS Pids,          \* process ids
          NoProcess,     \* the NULL of reminder->process
          OverlayTicks,  \* sleep_seconds + 30
          CloseTicks,    \* the 2 s between WM_CLOSE and TerminateProcess
          WaitTicks      \* the 1 s cgk_poll_reminder waits after it

ASSUME NoProcessAssumption == NoProcess \notin Pids
ASSUME WinTicksAssumption ==
    OverlayTicks \in Nat /\ CloseTicks \in Nat \ {0} /\ WaitTicks \in Nat

VARIABLES proc,           \* what each process id stands for
          asked,          \* processes with a WM_CLOSE in their queue
          terminated,     \* processes TerminateProcess was called on
          handles,        \* processes the daemon has an open handle of
          process,        \* reminder->process, and so reminder->pid
          deadline,       \* ticks until reminder->deadline_ms
          kill_deadline,  \* ticks until reminder->kill_deadline_ms
          term_sent,      \* reminder->term_sent
          wait,           \* ticks left of the blocking wait the daemon is in
          at,             \* the call the daemon is in
          mode,           \* enum daemon_state, or off
          next_mode       \* what the caller of cgk_stop_reminder sets it to

processVars == <<proc, asked, terminated>>
structVars == <<process, deadline, kill_deadline, term_sent>>
callVars == <<wait, at, mode, next_mode>>
vars == <<processVars, handles, structVars, callVars>>

Overlays == {"starting", "window"}  \* running, without and with a window
Ours == Overlays \union {"ended"}

TypeOK ==
    /\ proc \in [Pids -> Ours \union {"free", "stranger"}]
    /\ asked \subseteq Pids /\ terminated \subseteq Pids
    /\ handles \subseteq Pids
    /\ process \in Pids \union {NoProcess}
    /\ deadline \in Nat /\ kill_deadline \in Nat /\ wait \in Nat
    /\ term_sent \in BOOLEAN
    /\ at \in {"loop", "pollWait", "stopWait", "stopReap", "final"}
    /\ mode \in {"off", "counting", "locked", "reminding"}
    /\ next_mode \in {"off", "counting", "locked", "quit"}

Init ==
    /\ proc \in [Pids -> {"free", "stranger"}]
    /\ asked = {} /\ terminated = {} /\ handles = {}
    /\ process = NoProcess
    /\ deadline = 0 /\ kill_deadline = 0 /\ wait = 0
    /\ term_sent = FALSE
    /\ at = "loop" /\ mode = "off" /\ next_mode = "off"

-----------------------------------------------------------------------------
(* Building blocks                                                           *)

Targets == IF process = NoProcess THEN {} ELSE {process}

\* request_process_exit: EnumWindows finds the windows of the process, if any.
RequestExit ==
    asked' = asked \union {p \in Targets : proc[p] \in {"window", "stranger"}}

\* TerminateProcess: nothing to be done if the process has ended.
Terminate ==
    terminated' = terminated \union {p \in Targets : proc[p] # "ended"}

\* What reap_if_finished would answer.
Finished == \A p \in Targets : proc[p] = "ended"

\* Mutant: the handle is closed, and process and pid stay in the struct.
ReapKeepsProcess ==
    /\ Finished
    /\ handles' = handles \ Targets
    /\ UNCHANGED process

\* reap_if_finished with the answer TRUE: the handle is closed.
Reap ==
    /\ Finished
    /\ handles' = handles \ Targets
    /\ process' = NoProcess

\* Back to the loop, in mode m.
Return(m) ==
    /\ at' = "loop" /\ mode' = m
    /\ UNCHANGED <<wait, next_mode>>

-----------------------------------------------------------------------------
(* The calls of main.c                                                       *)

\* The daemon starts, or a mode without a reminder gives way to another; a
\* daemon that exits, by here or by a stop, leaves no handle to the next.
ChangeMode ==
    /\ at = "loop" /\ mode # "reminding"
    /\ \E m \in {"off", "counting", "locked"} \ {mode} :
           /\ mode = "off" => m # "off"
           /\ mode' = m
           /\ IF "off" \in {m, mode}
              THEN handles' = {} /\ process' = NoProcess
              ELSE UNCHANGED <<handles, process>>
    /\ UNCHANGED <<processVars, deadline, kill_deadline, term_sent, wait, at,
                   next_mode>>

\* cgk_start_reminder: CreateProcess gives process id p.  A handle that the last
\* reminder left behind is overwritten and stays open.
StartReminder(p) ==
    /\ at = "loop" /\ mode = "counting" /\ proc[p] = "free"
    /\ proc' = [proc EXCEPT ![p] = "starting"]
    /\ handles' = handles \union {p}
    /\ process' = p
    /\ deadline' = OverlayTicks /\ kill_deadline' = 0 /\ term_sent' = FALSE
    /\ Return("reminding")
    /\ UNCHANGED <<asked, terminated>>

\* cgk_poll_reminder: the overlay has ended.
PollReaps ==
    /\ at = "loop" /\ mode = "reminding"
    /\ Reap
    /\ Return("counting")
    /\ UNCHANGED <<processVars, deadline, kill_deadline, term_sent>>

\* The overlay runs past its deadline: it is asked to close, once.
PollRequests ==
    /\ at = "loop" /\ mode = "reminding" /\ ~Finished
    /\ ~term_sent /\ deadline = 0
    /\ RequestExit
    /\ term_sent' = TRUE
    /\ kill_deadline' = CloseTicks
    /\ UNCHANGED <<proc, terminated, handles, process, deadline, callVars>>

\* Mutant: the poll does not terminate what does not close.
PollGivesUp ==
    /\ at = "loop" /\ mode = "reminding" /\ ~Finished
    /\ term_sent /\ kill_deadline = 0
    /\ at' = "pollWait" /\ wait' = WaitTicks
    /\ UNCHANGED <<processVars, handles, structVars, mode, next_mode>>

\* It has not left: it is terminated and waited for, a second at most.
PollTerminates ==
    /\ at = "loop" /\ mode = "reminding" /\ ~Finished
    /\ term_sent /\ kill_deadline = 0
    /\ Terminate
    /\ at' = "pollWait" /\ wait' = WaitTicks
    /\ UNCHANGED <<proc, asked, handles, structVars, mode, next_mode>>

\* The wait is over: the reminder is, too, reaped or not.
PollReturns ==
    /\ at = "pollWait"
    /\ \/ Reap
       \/ ~Finished /\ wait = 0 /\ UNCHANGED <<handles, process>>
    /\ Return("counting")
    /\ UNCHANGED <<processVars, deadline, kill_deadline, term_sent>>

\* cgk_stop_reminder, on a lock, a dismiss or a quit in the loop, or behind it.
StopRequests ==
    /\ at \in {"loop", "final"} /\ mode = "reminding" /\ process # NoProcess
    /\ RequestExit
    /\ at' = "stopWait" /\ wait' = CloseTicks
    /\ next_mode' \in {"off", "counting", "locked", "quit"}
    /\ at = "final" => next_mode' = "off"
    /\ UNCHANGED <<proc, terminated, handles, structVars, mode>>

\* cgk_stop_reminder returns; quit breaks out of the loop, still reminding.
Resume ==
    IF next_mode = "quit"
    THEN at' = "final" /\ UNCHANGED <<wait, mode, next_mode>>
    ELSE Return(next_mode)

StopReaps ==
    /\ \/ at = "stopWait" /\ wait > 0
       \/ at = "stopReap"
    /\ Reap
    /\ Resume
    /\ UNCHANGED <<processVars, deadline, kill_deadline, term_sent>>

\* Behind the loop after a quit, where the reminder is stopped a second time.
StopNeedless ==
    /\ at = "final" /\ process = NoProcess
    /\ Return("off")
    /\ UNCHANGED <<processVars, handles, structVars>>

StopTerminates ==
    /\ at = "stopWait" /\ wait = 0
    /\ Terminate
    /\ at' = "stopReap"
    /\ UNCHANGED <<proc, asked, handles, structVars, wait, mode, next_mode>>

DaemonStep ==
    \/ ChangeMode
    \/ \E p \in Pids : StartReminder(p)
    \/ PollReaps \/ PollRequests \/ PollTerminates \/ PollReturns
    \/ StopRequests \/ StopReaps \/ StopTerminates \/ StopNeedless

-----------------------------------------------------------------------------
(* Around the daemon                                                         *)

Become(p, s) ==
    /\ proc' = [proc EXCEPT ![p] = s]
    /\ UNCHANGED <<handles, structVars, callVars>>

WindowOpens(p) ==
    /\ proc[p] = "starting"
    /\ Become(p, "window") /\ UNCHANGED <<asked, terminated>>

\* The overlay ends by itself, for a WM_CLOSE, or because it is terminated.
Ends(p) ==
    /\ proc[p] \in Overlays \union {"stranger"}
    /\ Become(p, IF proc[p] = "stranger" THEN "free" ELSE "ended")
    /\ asked' = asked \ {p} /\ terminated' = terminated \ {p}

\* Nobody has a handle of the ended process any more.
Forgotten(p) ==
    /\ proc[p] = "ended" /\ p \notin handles
    /\ Become(p, "free") /\ UNCHANGED <<asked, terminated>>

StrangerStarts(p) ==
    /\ proc[p] = "free"
    /\ Become(p, "stranger") /\ UNCHANGED <<asked, terminated>>

\* TerminateProcess takes effect.
Killed(p) == p \in terminated /\ Ends(p)

ProcessStep(p) ==
    WindowOpens(p) \/ Ends(p) \/ Forgotten(p) \/ StrangerStarts(p)

Countdown(t) == IF t = 0 THEN 0 ELSE t - 1

Tick ==
    /\ deadline + kill_deadline + wait > 0
    /\ deadline' = Countdown(deadline)
    /\ kill_deadline' = Countdown(kill_deadline)
    /\ wait' = Countdown(wait)
    /\ UNCHANGED <<processVars, handles, process, term_sent, at, mode, next_mode>>

Next == DaemonStep \/ (\E p \in Pids : ProcessStep(p)) \/ Tick

\* A call that polls or stops goes on, time passes, a terminated process ends.
Fairness ==
    /\ WF_vars(PollReaps \/ PollRequests \/ PollTerminates \/ PollReturns)
    /\ WF_vars(StopReaps) /\ WF_vars(StopTerminates) /\ WF_vars(StopNeedless)
    /\ WF_vars(Tick)
    /\ \A p \in Pids : WF_vars(Killed(p))

Spec == Init /\ [][Next]_vars /\ Fairness

-----------------------------------------------------------------------------
(* Properties                                                                *)

\* An overlay that nobody has terminated.
Unkilled(p) == proc[p] \in Overlays /\ p \notin terminated

Policy == INSTANCE ReminderPolicy
    WITH overlay <- \E p \in Pids : Unkilled(p)

\* With handles and windows the daemon keeps the same promises as with pids and
\* signals: one overlay at a time, none after a stop has returned, every
\* reminder ends, even if its overlay hangs or has no window to be closed yet
\* (reminder.c:188-233, main.c:233-302).
ImplementsPolicy == Policy!PolicySpec

\* No other program's window is ever closed, and no other program terminated,
\* though process ids are given away again and handles are left behind
\* (reminder.c:129-152, 182-184, 205, 229).
StrangersUntouched ==
    \A p \in asked \union terminated : proc[p] \in Overlays

\* What keeps it: the struct holds an open handle, and a handle keeps its id.
HandlesHold ==
    /\ process # NoProcess => process \in handles
    /\ \A p \in handles : proc[p] \in Ours

Inv == TypeOK /\ StrangersUntouched /\ HandlesHold

\* What the refinement rests on: the only overlay not terminated is the one the
\* struct holds, while the daemon reminds and has not yet decided to end it.
Supervised ==
    /\ \A p \in Pids : Unkilled(p) =>
           /\ p = process /\ mode = "reminding"
           /\ at \in {"loop", "stopWait"}
    /\ at # "loop" => mode = "reminding"
=============================================================================
