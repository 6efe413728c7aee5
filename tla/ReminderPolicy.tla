--------------------------- MODULE ReminderPolicy ---------------------------
(* What Cat Gatekeeper promises its user, without processes, pids, signals   *)
(* or timers: an overlay appears only by way of a reminder, a reminder ends  *)
(* only when its overlay is gone or done for, and every reminder ends.       *)
(* DESIGN.md, "Timer" and "Control", as the code of src/src/main.c has it.   *)
VARIABLES mode,    \* what the gatekeeper is doing
          overlay  \* an overlay is up that nothing has ended yet

policyVars == <<mode, overlay>>

Modes == {"off", "counting", "locked", "reminding"}

PolicyInit == mode = "off" /\ overlay = FALSE

\* The gatekeeper starts, in a session that is locked or not.
TurnOn ==
    /\ mode = "off"
    /\ mode' \in {"counting", "locked"}
    /\ UNCHANGED overlay

\* The time is up or the user asks for it: the one way an overlay appears.
Remind ==
    /\ mode = "counting"
    /\ mode' = "reminding"
    /\ overlay' = TRUE

\* The overlay ends, by itself or because it is told to.
Vanish ==
    /\ overlay
    /\ overlay' = FALSE
    /\ UNCHANGED mode

\* The reminder is over: the overlay is gone, or goes in this very step.
EndReminder ==
    /\ mode = "reminding"
    /\ mode' \in {"counting", "locked", "off"}
    /\ overlay' = FALSE

\* The session is locked, or unlocked, while there is no reminder.
LockOrUnlock ==
    /\ mode \in {"counting", "locked"}
    /\ mode' \in {"counting", "locked"}
    /\ UNCHANGED overlay

\* The gatekeeper is told to quit, or has to, while there is no reminder.
TurnOff ==
    /\ mode \in {"counting", "locked"}
    /\ mode' = "off"
    /\ UNCHANGED overlay

PolicyNext ==
    \/ TurnOn
    \/ Remind
    \/ Vanish
    \/ EndReminder
    \/ LockOrUnlock
    \/ TurnOff

PolicySafety == PolicyInit /\ [][PolicyNext]_policyVars

\* Every reminder ends; that the gatekeeper is ever turned on, that the time is
\* ever up and that an overlay ends by itself is not promised.
PolicySpec == PolicySafety /\ WF_policyVars(EndReminder)

=============================================================================
