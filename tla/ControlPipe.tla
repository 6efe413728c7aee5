---------------------------- MODULE ControlPipe ----------------------------
(* The control pipe of the Windows build (src/src/control.c:9-385): several  *)
(* daemons that may be started, one named pipe with a single instance, and   *)
(* the clients that use it one at a time.                                    *)
(*                                                                           *)
(* After every client the daemon closes the pipe and creates it anew; in     *)
(* between, the name is free for whoever asks.  Waits with a limit end when  *)
(* they like.  Windows is modelled by what the code relies on; a client of   *)
(* another user is left out.                                                 *)
EXTENDS Naturals

CONSTANTS Daemons, Clients, Nobody

ASSUME NobodyAssumption == Nobody \notin Daemons \union Clients

VARIABLES at,        \* where each daemon is
          pending,   \* the client whose request cgk_control_poll is to return
          quitting,  \* it has been asked to quit
          owner,     \* the daemon that has the instance of the pipe
          peer,      \* the client that is connected to the instance
          request,   \* what each client is about
          stage,     \* where it is
          sent,      \* its request is in the pipe
          reply,     \* what the daemon has written for it
          result,    \* how it ends: "ok" is exit code 0 of cat-gatekeeperctl
          executed,  \* how often its request was carried out; twice is too often
          lost       \* history: the clients whose request, accepted, a crash undid

daemonVars == <<at, pending, quitting>>
pipeVars == <<owner, peer>>
clientVars == <<request, stage, sent, result>>
vars == <<daemonVars, pipeVars, clientVars, reply, executed, lost>>

Places ==
    {"down",      \* not running
     "serving",   \* the loop is about to call cgk_control_poll
     "reading",   \* read_request_with_timeout
     "flushing",  \* reset_server_pipe: FlushFileBuffers
     "closed",    \*   the handle is closed, the pipe not yet created
     "handling",  \* the pipe is reset; main.c carries the request out
     "asleep"}    \* the rest of the turn

Stages == {"idle", "waiting", "opening", "connected", "reading", "left"}
Kinds == {"trigger", "quit", "unknown"}

TypeOK ==
    /\ at \in [Daemons -> Places]
    /\ pending \in [Daemons -> Clients \union {Nobody}]
    /\ quitting \in [Daemons -> BOOLEAN]
    /\ owner \in Daemons \union {Nobody}
    /\ peer \in Clients \union {Nobody}
    /\ request \in [Clients -> Kinds]
    /\ stage \in [Clients -> Stages]
    /\ sent \in [Clients -> BOOLEAN]
    /\ reply \in [Clients -> {"none", "OK", "ERR"}]
    /\ result \in [Clients -> {"none", "ok", "failed"}]
    /\ executed \in [Clients -> 0..2]
    /\ lost \subseteq Clients

Init ==
    /\ at = [d \in Daemons |-> "down"]
    /\ pending = [d \in Daemons |-> Nobody]
    /\ quitting = [d \in Daemons |-> FALSE]
    /\ owner = Nobody /\ peer = Nobody
    /\ request \in [Clients -> Kinds]
    /\ stage = [c \in Clients |-> "idle"]
    /\ sent = [c \in Clients |-> FALSE]
    /\ reply = [c \in Clients |-> "none"]
    /\ result = [c \in Clients |-> "none"]
    /\ executed = [c \in Clients |-> 0]
    /\ lost = {}

Left(c) == stage[c] = "left"

Move(d, place) == at' = [at EXCEPT ![d] = place]

\* cgk_control_poll will return the request of c.
Return(d, c) == pending' = [pending EXCEPT ![d] = c]

\* The handle of the pipe is closed, and its client with it disconnected.
Release == owner' = Nobody /\ peer' = Nobody

-----------------------------------------------------------------------------
(* The daemon                                                                *)

\* The pipe has one instance at most: while there is one, a start ends with exit
\* code 70 and changes nothing.
Open(d) ==
    /\ at[d] = "down" /\ owner = Nobody
    /\ owner' = d
    /\ Move(d, "serving")
    /\ UNCHANGED <<pending, quitting, peer, clientVars, reply, executed, lost>>

\* No client is connected, or there is no pipe to look at.
PollNobody(d) ==
    /\ at[d] = "serving" /\ (owner = d => peer = Nobody)
    /\ Move(d, "asleep")
    /\ UNCHANGED <<pending, quitting, pipeVars, clientVars, reply, executed, lost>>

\* Mutant: the pipe is not reset.
PollGoneKeepsPipe(d) ==
    /\ at[d] = "serving" /\ owner = d
    /\ peer # Nobody /\ Left(peer)
    /\ Move(d, "asleep")
    /\ UNCHANGED <<pending, quitting, pipeVars, clientVars, reply, executed, lost>>

\* The client has gone again (ERROR_NO_DATA).
PollGone(d) ==
    /\ at[d] = "serving" /\ owner = d
    /\ peer # Nobody /\ Left(peer)
    /\ Move(d, "flushing")
    /\ UNCHANGED <<pending, quitting, pipeVars, clientVars, reply, executed, lost>>

Accept(d) ==
    /\ at[d] = "serving" /\ owner = d
    /\ peer # Nobody /\ ~Left(peer)
    /\ Move(d, "reading")
    /\ UNCHANGED <<pending, quitting, pipeVars, clientVars, reply, executed, lost>>

\* The daemon writes text for the client and goes on to reset the pipe.
Answer(d, text) ==
    /\ reply' = [reply EXCEPT ![peer] = text]
    /\ Move(d, "flushing")

\* "ERR permission denied": the client has gone, and its process cannot be asked for
\* its user any more.
Deny(d) ==
    /\ at[d] = "reading" /\ Left(peer)
    /\ Answer(d, "ERR")
    /\ UNCHANGED <<pending, quitting, pipeVars, clientVars, executed, lost>>

\* "ERR empty request": the client has gone, or 250 ms are over.
ReadNothing(d) ==
    /\ at[d] = "reading" /\ ~sent[peer]
    /\ Answer(d, "ERR")
    /\ UNCHANGED <<pending, quitting, pipeVars, clientVars, executed, lost>>

\* "ERR unknown command".
ReadUnknown(d) ==
    /\ at[d] = "reading" /\ sent[peer] /\ request[peer] = "unknown"
    /\ Answer(d, "ERR")
    /\ UNCHANGED <<pending, quitting, pipeVars, clientVars, executed, lost>>

\* The reply is written before the request is returned, and carried out, by way of
\* the reset of the pipe.
ReadRequest(d) ==
    /\ at[d] = "reading" /\ sent[peer] /\ request[peer] # "unknown"
    /\ Answer(d, "OK")
    /\ Return(d, peer)
    /\ UNCHANGED <<quitting, pipeVars, clientVars, executed, lost>>

\* cgk_control_poll returns to the loop.
AfterPoll(d) == IF pending[d] = Nobody THEN "asleep" ELSE "handling"

\* Mutant: the client is not disconnected, the pipe not created anew.
ResetKeepsPeer(d) ==
    /\ at[d] = "flushing"
    /\ Move(d, AfterPoll(d))
    /\ UNCHANGED <<pending, quitting, pipeVars, clientVars, reply, executed, lost>>

\* FlushFileBuffers returns when the client has read everything or has gone;
\* the client is disconnected and the handle closed.
Reset(d) ==
    /\ at[d] = "flushing" /\ Left(peer)
    /\ Release
    /\ Move(d, "closed")
    /\ UNCHANGED <<pending, quitting, clientVars, reply, executed, lost>>

\* Mutant: the daemon tries until it has the name again.
RecreateRetries(d) ==
    /\ at[d] = "closed" /\ owner = Nobody
    /\ owner' = d
    /\ Move(d, AfterPoll(d))
    /\ UNCHANGED <<pending, quitting, peer, clientVars, reply, executed, lost>>

\* Mutant: without a pipe the request is not returned.
RecreateForgets(d) ==
    /\ at[d] = "closed"
    /\ owner' = IF owner = Nobody THEN d ELSE owner
    /\ IF owner = Nobody
       THEN Move(d, AfterPoll(d)) /\ UNCHANGED pending
       ELSE Move(d, "asleep") /\ Return(d, Nobody)
    /\ UNCHANGED <<quitting, peer, clientVars, reply, executed, lost>>

\* "cannot recreate control pipe" if somebody else has it by now; the request is
\* returned in any case.
Recreate(d) ==
    /\ at[d] = "closed"
    /\ owner' = IF owner = Nobody THEN d ELSE owner
    /\ Move(d, AfterPoll(d))
    /\ UNCHANGED <<pending, quitting, peer, clientVars, reply, executed, lost>>

\* main.c looks at the request that has been returned; a quit ends the loop.
HandleRequest(d) ==
    /\ at[d] = "handling"
    /\ quitting' = [quitting EXCEPT ![d] = request[pending[d]] = "quit"]
    /\ executed' = [executed EXCEPT ![pending[d]] = @ + 1]
    /\ Return(d, Nobody)
    /\ Move(d, "asleep")
    /\ UNCHANGED <<pipeVars, clientVars, reply, lost>>

Wake(d) ==
    /\ at[d] = "asleep" /\ ~quitting[d]
    /\ Move(d, "serving")
    /\ UNCHANGED <<pending, quitting, pipeVars, clientVars, reply, executed, lost>>

\* The daemon ends, asked to or not, and closes the pipe if it has it.
End(d) ==
    /\ IF owner = d THEN Release ELSE UNCHANGED pipeVars
    /\ Move(d, "down")
    /\ Return(d, Nobody)
    /\ quitting' = [quitting EXCEPT ![d] = FALSE]
    /\ UNCHANGED <<clientVars, reply, executed>>

Close(d) == at[d] = "asleep" /\ quitting[d] /\ End(d) /\ UNCHANGED lost

\* A request that has been answered and not carried out goes with it.
Crash(d) ==
    /\ at[d] # "down" /\ End(d)
    /\ lost' = lost \union ({pending[d]} \ {Nobody})

-----------------------------------------------------------------------------
(* The client                                                                *)

Go(c, place) == stage' = [stage EXCEPT ![c] = place]

Leave(c, how) ==
    /\ Go(c, "left")
    /\ result' = [result EXCEPT ![c] = how]

\* WaitNamedPipe: "daemon is not running" if there is no pipe of that name.
Wait(c) ==
    /\ stage[c] = "idle"
    /\ \/ owner # Nobody /\ Go(c, "waiting") /\ UNCHANGED result
       \/ owner = Nobody /\ Leave(c, "failed")
    /\ UNCHANGED <<daemonVars, pipeVars, request, sent, reply, executed, lost>>

\* The instance is free, or three seconds are over: "daemon is busy".
WaitEnds(c) ==
    /\ stage[c] = "waiting"
    /\ \/ owner # Nobody /\ peer = Nobody /\ Go(c, "opening") /\ UNCHANGED result
       \/ Leave(c, "failed")
    /\ UNCHANGED <<daemonVars, pipeVars, request, sent, reply, executed, lost>>

\* CreateFile: somebody else may have been faster.
Connect(c) ==
    /\ stage[c] = "opening"
    /\ \/ /\ owner # Nobody /\ peer = Nobody
          /\ peer' = c
          /\ Go(c, "connected")
          /\ UNCHANGED result
       \/ /\ owner = Nobody \/ peer # Nobody
          /\ Leave(c, "failed")
          /\ UNCHANGED peer
    /\ UNCHANGED <<daemonVars, owner, request, sent, reply, executed, lost>>

Send(c) ==
    /\ stage[c] = "connected" /\ peer = c
    /\ sent' = [sent EXCEPT ![c] = TRUE]
    /\ Go(c, "reading")
    /\ UNCHANGED <<daemonVars, pipeVars, request, reply, result, executed, lost>>

\* ReadFile has no limit; exit code 0 if the reply begins with "OK ".
Receive(c) ==
    /\ stage[c] = "reading" /\ reply[c] # "none"
    /\ Leave(c, IF reply[c] = "OK" THEN "ok" ELSE "failed")
    /\ UNCHANGED <<daemonVars, pipeVars, request, sent, reply, executed, lost>>

\* The daemon has disconnected it.
Dropped(c) ==
    /\ stage[c] \in {"connected", "reading"} /\ peer # c
    /\ Leave(c, "failed")
    /\ UNCHANGED <<daemonVars, pipeVars, request, sent, reply, executed, lost>>

Interrupt(c) ==
    /\ stage[c] \notin {"idle", "left"}
    /\ Leave(c, "failed")
    /\ UNCHANGED <<daemonVars, pipeVars, request, sent, reply, executed, lost>>

-----------------------------------------------------------------------------
\* A daemon that runs.
DaemonStep(d) ==
    \/ PollNobody(d)
    \/ PollGone(d)
    \/ Accept(d)
    \/ Deny(d)
    \/ ReadNothing(d)
    \/ ReadUnknown(d)
    \/ ReadRequest(d)
    \/ Reset(d)
    \/ Recreate(d)
    \/ HandleRequest(d)
    \/ Wake(d)
    \/ Close(d)

ClientStep(c) ==
    \/ Wait(c)
    \/ WaitEnds(c)
    \/ Connect(c)
    \/ Send(c)
    \/ Receive(c)
    \/ Dropped(c)
    \/ Interrupt(c)

Next ==
    \/ \E d \in Daemons : Open(d) \/ DaemonStep(d) \/ Crash(d)
    \/ \E c \in Clients : ClientStep(c)

\* Running daemons go on; clients may stop wherever they are.
Spec == Init /\ [][Next]_vars /\ \A d \in Daemons : WF_vars(DaemonStep(d))

-----------------------------------------------------------------------------
(* Properties                                                                *)

\* A client that reports success has had its own request carried out, or the request
\* is in the hands of a daemon that still runs, or of one that crashed with it: it is
\* never dropped, nor one that nobody knows, whichever daemon answers, whoever had the
\* pipe before, and even if the daemon does not get its pipe back
\* (control.c:221-234, 287-315, 375-384; main.c:247-278).
OkIsKept ==
    \A c \in Clients : result[c] = "ok" =>
        /\ request[c] # "unknown"
        /\ executed[c] = 1 \/ c \in lost \/ \E d \in Daemons : pending[d] = c

\* And in the end it is carried out, or its daemon has crashed: the reset of the pipe
\* in between, with its wait for the client and its race for the name, does not hold
\* it up for ever (control.c:221-234, 313; main.c:247-278).
PromiseIsKept ==
    \A c \in Clients : result[c] = "ok" ~> executed[c] = 1 \/ c \in lost

\* No request is carried out twice, and none that was not sent: nothing of a client
\* is left in the pipe for the next poll (control.c:221-234, 293-313).
ExecutedAtMostOnce ==
    \A c \in Clients : executed[c] <= (IF sent[c] THEN 1 ELSE 0)

\* A client that has gone does not keep the single instance of the pipe, at
\* whatever point it went and even if its daemon crashes (control.c:221-234, 263-291).
PipeIsFreed == \A c \in Clients : peer = c /\ Left(c) ~> peer # c

\* What has become of the request of c, as ControlService has it.
Fate(c) ==
    CASE executed[c] > 1 -> "twice"
      [] executed[c] = 1 -> "done"
      [] executed[c] = 0 /\ c \in lost -> "lost"
      [] executed[c] = 0 /\ c \notin lost /\ reply[c] = "OK" -> "promised"
      [] executed[c] = 0 /\ c \notin lost /\ reply[c] = "ERR" -> "refused"
      [] executed[c] = 0 /\ c \notin lost /\ reply[c] = "none" /\ sent[c] -> "asked"
      [] OTHER -> "new"

Heard(c) ==
    CASE result[c] = "none" -> "nothing"
      [] result[c] = "ok" -> "yes"
      [] OTHER -> "no"

\* With one daemon at a time.  Two of them, of which one has lost its pipe to the other
\* while it was reset, may owe two clients at once.
Service == INSTANCE ControlService
    WITH Commands <- {"trigger", "quit"},
         fate <- [c \in Clients |-> Fate(c)],
         heard <- [c \in Clients |-> Heard(c)]

\* A daemon between two polls listens on the pipe (control.c:221-234;
\* DESIGN.md:128-132).
KeepsListening ==
    \A d \in Daemons : at[d] \in {"serving", "handling", "asleep"} => owner = d

=============================================================================
