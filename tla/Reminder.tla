------------------------------ MODULE Reminder ------------------------------
(* The reminder supervisor of src/src/reminder.c (POSIX part): struct        *)
(* cgk_reminder, cgk_start_reminder, cgk_poll_reminder, cgk_stop_reminder,   *)
(* and the overlay processes they fork, signal and reap.                     *)
(*                                                                           *)
(* Time is counted in ticks.  A deadline of the code is an absolute time     *)
(* that is only ever compared with the current one; here it is the number of *)
(* ticks left until it, 0 once it has passed.                                *)
EXTENDS Naturals

CONSTANTS Pids,        \* the process ids the kernel may give to a child
          NoPid,       \* the -1 of reminder->pid
          SleepTicks,  \* the sleep_seconds the overlay is started with
          MarginTicks, \* the 30 s an overlay may run longer than that
          TermTicks    \* the 2 s between SIGTERM and SIGKILL

ASSUME NoPidAssumption == NoPid \notin Pids
ASSUME ReminderTicksAssumption ==
    SleepTicks \in Nat /\ MarginTicks \in Nat /\ TermTicks \in Nat \ {0}

VARIABLES child,          \* what the process with that id is to the daemon
          sig,            \* the strongest signal sent to it and not yet handled
          pid,            \* reminder->pid
          deadline,       \* ticks until reminder->deadline_ms
          kill_deadline,  \* ticks until reminder->kill_deadline_ms
          term_sent,      \* reminder->term_sent
          stop_deadline   \* ticks until the local deadline of cgk_stop_reminder

reminderVars ==
    <<child, sig, pid, deadline, kill_deadline, term_sent, stop_deadline>>

processVars == <<child, sig>>
structVars == <<pid, deadline, kill_deadline, term_sent>>

(* "free": not a child of the daemon (no process, or a stranger's);          *)
(* "forked": our child before execl, still with the daemon's signal handler; *)
(* "overlay": the overlay program; "zombie": ended and not yet waited for.   *)
ChildStates == {"free", "forked", "overlay", "zombie"}
Signals == {"none", "term", "kill"}

ReminderTypeOK ==
    /\ child \in [Pids -> ChildStates]
    /\ sig \in [Pids -> Signals]
    /\ pid \in Pids \union {NoPid}
    /\ deadline \in Nat
    /\ kill_deadline \in Nat
    /\ term_sent \in BOOLEAN
    /\ stop_deadline \in Nat

ReminderInit ==
    /\ child = [p \in Pids |-> "free"]
    /\ sig = [p \in Pids |-> "none"]
    /\ pid = NoPid
    /\ deadline = 0
    /\ kill_deadline = 0
    /\ term_sent = FALSE
    /\ stop_deadline = 0

Live(p) == child[p] \in {"forked", "overlay"}

-----------------------------------------------------------------------------
(* System calls on the child.                                                *)

\* kill(reminder->pid, s): with the pid -1 it reaches every process there is.
KillChild(s) ==
    sig' = [p \in Pids |-> IF pid \in {p, NoPid} THEN s ELSE sig[p]]

\* What reap_if_finished would answer: no pid is recorded, or waitpid has one.
Finished == pid # NoPid => child[pid] = "zombie"

\* Mutant: the pid stays recorded after it has been waited for.
ReapKeepsPid ==
    /\ Finished
    /\ child' = [p \in Pids |-> IF p = pid THEN "free" ELSE child[p]]
    /\ sig' = [p \in Pids |-> IF p = pid THEN "none" ELSE sig[p]]
    /\ UNCHANGED pid

\* reap_if_finished with the answer TRUE: waitpid frees the process id.
ReapIfFinished ==
    /\ Finished
    /\ child' = [p \in Pids |-> IF p = pid THEN "free" ELSE child[p]]
    /\ sig' = [p \in Pids |-> IF p = pid THEN "none" ELSE sig[p]]
    /\ pid' = NoPid

-----------------------------------------------------------------------------
(* cgk_start_reminder                                                        *)

\* Mutant: the struct is not cleared, term_sent stays as the last overlay left it.
StartKeepsTermSent(p) ==
    /\ child[p] = "free"
    /\ child' = [child EXCEPT ![p] = "forked"]
    /\ sig' = [sig EXCEPT ![p] = "none"]
    /\ pid' = p
    /\ deadline' = SleepTicks + MarginTicks
    /\ kill_deadline' = 0
    /\ UNCHANGED <<term_sent, stop_deadline>>

\* fork succeeds with process id p: the struct is cleared and filled in.
StartReminder(p) ==
    /\ child[p] = "free"
    /\ child' = [child EXCEPT ![p] = "forked"]
    /\ sig' = [sig EXCEPT ![p] = "none"]
    /\ pid' = p
    /\ deadline' = SleepTicks + MarginTicks
    /\ kill_deadline' = 0
    /\ term_sent' = FALSE
    /\ UNCHANGED stop_deadline

\* No overlay path, or fork fails: -1, and the struct is left as it was.
StartReminderFails == UNCHANGED reminderVars

-----------------------------------------------------------------------------
(* cgk_poll_reminder                                                         *)

\* The overlay has ended (returns true).
PollReaps ==
    /\ ReapIfFinished
    /\ UNCHANGED <<deadline, kill_deadline, term_sent, stop_deadline>>

\* Mutant: term_sent is not set, so that SIGTERM is all that is ever sent.
PollTerminatesAgain ==
    /\ ~Finished
    /\ ~term_sent /\ deadline = 0
    /\ KillChild("term")
    /\ kill_deadline' = TermTicks
    /\ UNCHANGED <<child, pid, term_sent, deadline, stop_deadline>>

\* Mutant: the comparison with the deadline is the wrong way round.
PollTerminatesEarly ==
    /\ ~Finished
    /\ ~term_sent /\ deadline > 0
    /\ KillChild("term")
    /\ term_sent' = TRUE
    /\ kill_deadline' = TermTicks
    /\ UNCHANGED <<child, pid, deadline, stop_deadline>>

\* The overlay runs past its deadline: SIGTERM, once (returns false).
PollTerminates ==
    /\ ~Finished
    /\ ~term_sent /\ deadline = 0
    /\ KillChild("term")
    /\ term_sent' = TRUE
    /\ kill_deadline' = TermTicks
    /\ UNCHANGED <<child, pid, deadline, stop_deadline>>

\* SIGTERM was not enough: SIGKILL, and one more waitpid whose answer is not
\* used (returns true).  The child is reaped only if it is gone by then.
PollKills ==
    /\ ~Finished
    /\ term_sent /\ kill_deadline = 0
    /\ \/ /\ KillChild("kill")
          /\ UNCHANGED <<child, pid>>
       \/ /\ child' = [child EXCEPT ![pid] = "free"]
          /\ sig' = [sig EXCEPT ![pid] = "none"]
          /\ pid' = NoPid
    /\ UNCHANGED <<deadline, kill_deadline, term_sent, stop_deadline>>

\* Nothing to do yet (returns false).
PollWaits ==
    /\ ~Finished
    /\ IF term_sent THEN kill_deadline > 0 ELSE deadline > 0
    /\ UNCHANGED reminderVars

-----------------------------------------------------------------------------
(* cgk_stop_reminder: blocks the daemon, so it is cut at its sleeps.         *)

\* pid <= 0: there is nothing to stop.
StopNeedless ==
    /\ pid = NoPid
    /\ UNCHANGED reminderVars

\* Mutant: the guard on the pid is gone.
StopTerminatesAnyway ==
    /\ KillChild("term")
    /\ stop_deadline' = TermTicks
    /\ UNCHANGED <<child, structVars>>

\* SIGTERM, and the start of the two seconds of grace.
StopTerminates ==
    /\ pid # NoPid
    /\ KillChild("term")
    /\ stop_deadline' = TermTicks
    /\ UNCHANGED <<child, structVars>>

\* A reap_if_finished of the first loop succeeds.
StopReapsInTime ==
    /\ stop_deadline > 0
    /\ ReapIfFinished
    /\ UNCHANGED <<deadline, kill_deadline, term_sent, stop_deadline>>

\* Mutant: SIGKILL is left out.
StopKillsNobody ==
    /\ stop_deadline = 0
    /\ UNCHANGED reminderVars

\* The first loop runs out of time.
StopKills ==
    /\ stop_deadline = 0
    /\ KillChild("kill")
    /\ UNCHANGED <<child, structVars, stop_deadline>>

\* A reap_if_finished of the second loop succeeds.
StopReapsAtLast ==
    /\ ReapIfFinished
    /\ UNCHANGED <<deadline, kill_deadline, term_sent, stop_deadline>>

-----------------------------------------------------------------------------
(* The child: the half of cgk_start_reminder behind fork, then the overlay.  *)

Become(p, s) ==
    /\ child' = [child EXCEPT ![p] = s]
    /\ UNCHANGED <<sig, structVars, stop_deadline>>

\* execl succeeds; the handlers fall back to their defaults.
Exec(p) == child[p] = "forked" /\ Become(p, "overlay")

\* execl fails: _exit(127).
ExecFails(p) == child[p] = "forked" /\ Become(p, "zombie")

\* SIGTERM reaches the child before execl: handle_signal, inherited from the
\* daemon, runs and the signal is gone.
SwallowTerm(p) ==
    /\ child[p] = "forked" /\ sig[p] = "term"
    /\ sig' = [sig EXCEPT ![p] = "none"]
    /\ UNCHANGED <<child, structVars, stop_deadline>>

\* The overlay ends: its countdown is over, it failed, or SIGTERM ended it.
\* Nothing obliges it to, not even SIGTERM: it may be stopped or hang.
OverlayExits(p) == child[p] = "overlay" /\ Become(p, "zombie")

\* SIGKILL takes effect.
KillDelivered(p) == Live(p) /\ sig[p] = "kill" /\ Become(p, "zombie")

ChildStep(p) ==
    \/ Exec(p)
    \/ ExecFails(p)
    \/ SwallowTerm(p)
    \/ OverlayExits(p)
    \/ KillDelivered(p)

-----------------------------------------------------------------------------
(* Time.                                                                     *)

Countdown(t) == IF t = 0 THEN 0 ELSE t - 1

ReminderTick ==
    /\ deadline' = Countdown(deadline)
    /\ kill_deadline' = Countdown(kill_deadline)
    /\ stop_deadline' = Countdown(stop_deadline)
    /\ UNCHANGED <<child, sig, pid, term_sent>>

=============================================================================
