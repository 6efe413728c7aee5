--------------------------- MODULE ControlSession ---------------------------
(* The conversation over the control socket: the loop of the daemon as its   *)
(* clients meet it (src/src/main.c:221-305) with cgk_control_poll            *)
(* (src/src/control.c:672-745), and the clients: cgk_control_client_send of  *)
(* cat-gatekeeperctl (control.c:759-825) and the probe of a second daemon    *)
(* (control.c:538-543).                                                      *)
(*                                                                           *)
(* The daemon serves one client per turn, and nobody while it stops an       *)
(* overlay.  A client gives up after a while; what it has sent stays in its  *)
(* socket, and the daemon reads it later.                                    *)
EXTENDS Naturals, Sequences

CONSTANTS Clients,
          Backlog,         \* connections that may wait to be accepted
          SigpipeIgnored,  \* whether the daemon may have inherited SIG_IGN for
                           \* SIGPIPE: a set of BOOLEAN
          TurnTicks,       \* from one cgk_control_poll to the next: the sleep
          PollTicks,       \* the 250 ms a client is given to send its request
          PatienceTicks    \* the 3 s a client waits for the reply

ASSUME SessionAssumption ==
    /\ Backlog \in Nat \ {0}
    /\ SigpipeIgnored \subseteq BOOLEAN
    /\ {TurnTicks, PollTicks, PatienceTicks} \subseteq Nat

VARIABLES request,   \* what each client is about
          stage,     \* where it is
          sent,      \* its request is in the socket
          reply,     \* what the daemon has written or done to the connection
          result,    \* how it ends: "ok" is exit code 0 of cat-gatekeeperctl
          patience,  \* ticks until its poll for the reply times out
          queue,     \* the connections that wait to be accepted
          server,    \* what the daemon is doing
          current,   \* the connection accepted last
          nap,       \* ticks left of the daemon's poll or sleep
          after,     \* where it goes when the overlay has been stopped
          reminding, \* state is STATE_REMINDING
          executed,  \* how often a request was carried out
          held,      \* who has waited while an overlay was being stopped
          sigpipe_ignored

clientVars == <<request, stage, sent, result, patience>>
servedVars == <<current, executed, held, sigpipe_ignored>>
serverVars == <<server, after, reminding, nap, servedVars>>
vars == <<clientVars, reply, queue, serverVars>>

\* "start" is a second daemon: it connects to see whether somebody is there;
\* "unknown" is a command the daemon does not know.
Kinds == {"status", "dismiss", "trigger", "quit", "unknown", "start"}

Init ==
    /\ request \in [Clients -> Kinds]
    /\ stage = [c \in Clients |-> "idle"]
    /\ sent = [c \in Clients |-> FALSE]
    /\ reply = [c \in Clients |-> "none"]
    /\ result = [c \in Clients |-> "none"]
    /\ patience = [c \in Clients |-> 0]
    /\ queue = <<>>
    /\ server = "accepting" /\ after = "none"
    /\ reminding = FALSE
    /\ nap = 0
    /\ current \in Clients
    /\ executed = [c \in Clients |-> 0]
    /\ held = {}
    /\ sigpipe_ignored \in SigpipeIgnored

Gone == server \in {"closed", "dead"}

\* The client has closed its end.
Left(c) == stage[c] = "left"

Leave(c, how) ==
    /\ stage' = [stage EXCEPT ![c] = "left"]
    /\ result' = [result EXCEPT ![c] = how]

-----------------------------------------------------------------------------
(* The client                                                                *)

\* connect blocks as long as the backlog is full.
Connect(c) ==
    /\ stage[c] = "idle" /\ ~Gone /\ Len(queue) < Backlog
    /\ stage' = [stage EXCEPT ![c] = "connected"]
    /\ queue' = Append(queue, c)
    /\ UNCHANGED <<request, sent, result, patience, reply, serverVars>>

\* "daemon is not running"; a second daemon finds no answer and goes on.
ConnectFails(c) ==
    /\ stage[c] = "idle" /\ Gone
    /\ Leave(c, "failed")
    /\ UNCHANGED <<request, sent, patience, reply, queue, serverVars>>

\* A second daemon closes the connection at once: "another instance is already
\* running".
Probe(c) ==
    /\ stage[c] = "connected" /\ request[c] = "start"
    /\ Leave(c, "failed")
    /\ UNCHANGED <<request, sent, patience, reply, queue, serverVars>>

\* write_all of the request, and the wait for the reply begins.
Send(c) ==
    /\ stage[c] = "connected" /\ request[c] # "start" /\ reply[c] = "none"
    /\ stage' = [stage EXCEPT ![c] = "waiting"]
    /\ sent' = [sent EXCEPT ![c] = TRUE]
    /\ patience' = [patience EXCEPT ![c] = PatienceTicks]
    /\ UNCHANGED <<request, result, reply, queue, serverVars>>

\* The daemon has hung up before the request was written.
SendFails(c) ==
    /\ stage[c] = "connected" /\ request[c] # "start" /\ reply[c] # "none"
    /\ Leave(c, "failed")
    /\ UNCHANGED <<request, sent, patience, reply, queue, serverVars>>

\* The reply is read: exit code 0 if it begins with "OK ".
Receive(c) ==
    /\ stage[c] = "waiting" /\ reply[c] # "none"
    /\ Leave(c, IF reply[c] = "OK" THEN "ok" ELSE "failed")
    /\ UNCHANGED <<request, sent, patience, reply, queue, serverVars>>

\* "daemon did not reply".
GiveUp(c) ==
    /\ stage[c] = "waiting" /\ reply[c] = "none" /\ patience[c] = 0
    /\ Leave(c, "timeout")
    /\ UNCHANGED <<request, sent, patience, reply, queue, serverVars>>

\* The user interrupts the client.
Interrupt(c) ==
    /\ stage[c] \in {"connected", "waiting"}
    /\ Leave(c, "interrupted")
    /\ UNCHANGED <<request, sent, patience, reply, queue, serverVars>>

-----------------------------------------------------------------------------
(* The daemon                                                                *)

\* cgk_stop_reminder; it takes as long as it takes.
StopThen(next) ==
    IF reminding THEN server' = "stopping" /\ after' = next
    ELSE server' = next /\ UNCHANGED after

StopEnds ==
    /\ server = "stopping"
    /\ server' = after
    /\ after' = "none"
    /\ reminding' = FALSE
    /\ UNCHANGED <<clientVars, reply, queue, nap, servedVars>>

\* The session is locked.
LockSeen ==
    /\ server = "accepting" /\ reminding
    /\ StopThen("accepting")
    /\ UNCHANGED <<clientVars, reply, queue, reminding, nap, servedVars>>

\* The loop ends for another reason than a quit: a signal, or logind is gone.
LeaveLoop ==
    /\ server = "accepting"
    /\ StopThen("quitting")
    /\ UNCHANGED <<clientVars, reply, queue, reminding, nap, servedVars>>

AcceptNobody ==
    /\ server = "accepting" /\ queue = <<>>
    /\ server' = "timer"
    /\ UNCHANGED <<clientVars, reply, queue, after, reminding, nap, servedVars>>

\* Mutant: a client is given as long to ask as it gives the daemon to answer.
AcceptPatiently ==
    /\ server = "accepting" /\ queue # <<>>
    /\ current' = Head(queue)
    /\ queue' = Tail(queue)
    /\ server' = "reading"
    /\ nap' = PatienceTicks
    /\ UNCHANGED <<clientVars, reply, after, reminding, executed, held,
                   sigpipe_ignored>>

Accept ==
    /\ server = "accepting" /\ queue # <<>>
    /\ current' = Head(queue)
    /\ queue' = Tail(queue)
    /\ server' = "reading"
    /\ nap' = PollTicks
    /\ UNCHANGED <<clientVars, reply, after, reminding, executed, held,
                   sigpipe_ignored>>

\* The daemon writes text to the accepted connection, closes it and goes to the
\* place next.  Writing to a client that has left raises SIGPIPE, which ends the
\* daemon unless it is ignored.
Answer(text, next) ==
    /\ IF Left(current) /\ ~sigpipe_ignored
       THEN server' = "dead" /\ UNCHANGED reply
       ELSE server' = next /\ reply' = [reply EXCEPT ![current] = text]
    /\ nap' = 0
    /\ UNCHANGED <<clientVars, queue, after, reminding, servedVars>>

\* Mutant: the daemon waits until the client speaks or leaves.
ReadNothingUntilGone ==
    /\ server = "reading" /\ ~sent[current]
    /\ Left(current)
    /\ Answer("ERR", "timer")

\* "ERR empty request": the client has left without a request, or it has not
\* sent one in time.
ReadNothing ==
    /\ server = "reading" /\ ~sent[current]
    /\ Left(current) \/ nap = 0
    /\ Answer("ERR", "timer")

\* "ERR unknown command".
ReadUnknown ==
    /\ server = "reading" /\ sent[current] /\ request[current] = "unknown"
    /\ Answer("ERR", "timer")

\* Mutant: whatever is sent is answered in the same way.
ReadRequestOnly ==
    /\ server = "reading" /\ sent[current]
    /\ Answer("OK", IF request[current] = "unknown" THEN "timer" ELSE "handling")

\* The request is read and answered: "OK dismissed", "OK triggered", "OK quitting",
\* or the status.
ReadRequest ==
    /\ server = "reading" /\ sent[current] /\ request[current] # "unknown"
    /\ Answer("OK", "handling")

\* A trigger may fail to start the overlay, and is ignored when the session is
\* locked or a reminder is up.
Handle(kind) ==
    \/ kind = "status" /\ server' = "timer" /\ UNCHANGED <<after, reminding>>
    \/ kind = "dismiss" /\ StopThen("timer") /\ UNCHANGED reminding
    \/ kind = "quit" /\ StopThen("quitting") /\ UNCHANGED reminding
    \/ /\ kind = "trigger" /\ server' = "timer"
       /\ reminding' \in {TRUE, reminding}
       /\ UNCHANGED after

\* Mutant: control_request is not reset, and the next turn handles it again.
HandleRequestTwice ==
    /\ server = "handling" \/ (server = "timer" /\ executed[current] = 1)
    /\ Handle(request[current])
    /\ executed' = [executed EXCEPT ![current] = @ + 1]
    /\ UNCHANGED <<clientVars, reply, queue, nap, current, held, sigpipe_ignored>>

\* The rest of the turn in main.c.
HandleRequest ==
    /\ server = "handling"
    /\ Handle(request[current])
    /\ executed' = [executed EXCEPT ![current] = @ + 1]
    /\ UNCHANGED <<clientVars, reply, queue, nap, current, held, sigpipe_ignored>>

\* The timer fires or not, the overlay has ended or not.
Timer ==
    /\ server = "timer"
    /\ server' = "sleeping"
    /\ reminding' \in BOOLEAN
    /\ nap' = TurnTicks
    /\ UNCHANGED <<clientVars, reply, queue, after, servedVars>>

Wake ==
    /\ server = "sleeping" /\ nap = 0
    /\ server' = "accepting"
    /\ UNCHANGED <<clientVars, reply, queue, after, reminding, nap, servedVars>>

\* The daemon is gone, by a quit or by SIGPIPE: whoever waits is disconnected.
Disconnect ==
    /\ server = "quitting" \/ (server = "dead" /\ queue # <<>>)
    /\ server' = IF server = "quitting" THEN "closed" ELSE "dead"
    /\ reply' = [c \in Clients |->
           IF \E i \in DOMAIN queue : queue[i] = c THEN "EOF" ELSE reply[c]]
    /\ queue' = <<>>
    /\ UNCHANGED <<clientVars, after, reminding, nap, servedVars>>

-----------------------------------------------------------------------------
Countdown(t) == IF t = 0 THEN 0 ELSE t - 1

\* The daemon blocks: asleep, polling a client that says nothing, or stopping.
Blocked ==
    \/ nap > 0 /\ server = "sleeping"
    \/ nap > 0 /\ server = "reading" /\ stage[current] = "connected"
    \/ server = "stopping"

Tick ==
    /\ Blocked
    /\ nap' = Countdown(nap)
    /\ patience' = [c \in Clients |-> Countdown(patience[c])]
    /\ held' = IF server = "stopping"
               THEN held \union {c \in Clients : stage[c] = "waiting"}
               ELSE held
    /\ UNCHANGED <<request, stage, sent, result, reply, queue, server, after,
                   reminding, current, executed, sigpipe_ignored>>

DaemonStep ==
    \/ StopEnds
    \/ LockSeen
    \/ LeaveLoop
    \/ AcceptNobody
    \/ Accept
    \/ ReadNothing
    \/ ReadUnknown
    \/ ReadRequest
    \/ HandleRequest
    \/ Timer
    \/ Wake
    \/ Disconnect

ClientStep(c) ==
    \/ Connect(c)
    \/ ConnectFails(c)
    \/ Probe(c)
    \/ Send(c)
    \/ SendFails(c)
    \/ Receive(c)
    \/ GiveUp(c)
    \/ Interrupt(c)

Next == DaemonStep \/ Tick \/ \E c \in Clients : ClientStep(c)

\* The daemon runs, a stop ends (Daemon shows that), and time passes.  A client may
\* stop wherever it is.
Spec == Init /\ [][Next]_vars /\ WF_vars(DaemonStep) /\ WF_vars(Tick)

-----------------------------------------------------------------------------
(* Properties                                                                *)

\* A client that reports success has had its request carried out, once, or the
\* daemon is just about to, whoever else connects, stalls or leaves meanwhile; the
\* reply is written first (control.c:722-744, 815-824; main.c:249-278).
OkMeansExecuted ==
    \A c \in Clients : result[c] = "ok" =>
        /\ request[c] # "unknown"
        /\ executed[c] = IF server = "handling" /\ current = c THEN 0 ELSE 1

\* No request is carried out twice, and none that was not sent
\* (control.c:674, 711-720; main.c:247-278).
ExecutedAtMostOnce ==
    \A c \in Clients : executed[c] <= (IF sent[c] THEN 1 ELSE 0)

\* A client loses patience only if an overlay was being stopped while it waited:
\* otherwise, as long as all of them together need no more turns than it lasts, each
\* is answered in time, and one that stalls costs the others one poll
\* (control.c:697-709, 800-813; main.c:221-298).
GivesUpOnlyDuringStop == \A c \in Clients : result[c] = "timeout" => c \in held

\* Who waits is answered in the end, or hears that the daemon is gone, whatever the
\* other clients, the session and the overlay do (control.c:672-745; main.c:221-305).
EveryoneIsAnswered ==
    \A c \in Clients :
        (stage[c] = "waiting" /\ reply[c] = "none") ~>
            (reply[c] # "none" \/ Left(c))

\* What has become of the request of c, as ControlService has it.
Fate(c) ==
    CASE executed[c] > 1 -> "twice"
      [] executed[c] = 1 -> "done"
      [] executed[c] = 0 /\ reply[c] = "OK" -> "promised"
      [] executed[c] = 0 /\ reply[c] \in {"ERR", "EOF"} -> "refused"
      [] executed[c] = 0 /\ reply[c] = "none" /\ sent[c] -> "asked"
      [] OTHER -> "new"

Heard(c) ==
    CASE result[c] = "none" -> "nothing"
      [] result[c] = "ok" -> "yes"
      [] OTHER -> "no"

Service == INSTANCE ControlService
    WITH Commands <- {"status", "dismiss", "trigger", "quit"},
         fate <- [c \in Clients |-> Fate(c)],
         heard <- [c \in Clients |-> Heard(c)]

\* The daemon and its clients keep to ControlService: each request is refused or
\* carried out, once, "OK" is a promise that is kept before anybody else is served, and
\* nobody is refused and served (control.c:672-745, 759-825; main.c:221-305).
ImplementsService == Service!ServiceSpec

\* A start-up that is refused because another instance is already running does
\* not end that instance (control.c:538-543).
RefusedStartIsHarmless == server = "dead" => request[current] # "start"

=============================================================================
