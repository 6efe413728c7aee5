------------------------ MODULE ControlSessionProofs ------------------------
(* Theorems about ControlSession for every number of clients, every backlog  *)
(* and all times: replies and executions agree, who waits is served before   *)
(* its patience ends, and the whole keeps to ControlService.                 *)
EXTENDS ControlSession, FiniteSetTheorems, TLAPS

Types ==
    /\ request \in [Clients -> Kinds]
    /\ stage \in [Clients -> {"idle", "connected", "waiting", "left"}]
    /\ sent \in [Clients -> BOOLEAN]
    /\ reply \in [Clients -> {"none", "OK", "ERR", "EOF"}]
    /\ result \in [Clients -> {"none", "ok", "failed", "timeout", "interrupted"}]
    /\ queue \in Seq(Clients)
    /\ current \in Clients
    /\ executed \in [Clients -> Nat]
    /\ after \in {"none", "accepting", "timer", "quitting"}

Serving == server \in {"reading", "handling"}

\* Nobody is in the queue twice.
QueuedOnce ==
    \A i, j \in 1..Len(queue) : queue[i] = queue[j] => i = j

\* Nothing has been done for a client that is in the queue.
QueuedUnserved ==
    \A i \in 1..Len(queue) :
        /\ stage[queue[i]] # "idle" /\ reply[queue[i]] = "none"
        /\ executed[queue[i]] = 0
        /\ Serving => queue[i] # current

\* Nor for one that has not connected.
IdleUnserved ==
    \A c \in Clients : stage[c] = "idle" =>
        ~sent[c] /\ reply[c] = "none" /\ result[c] = "none" /\ executed[c] = 0

\* What the daemon knows of the client it is serving.
CurrentServed ==
    /\ Serving => stage[current] # "idle" /\ executed[current] = 0
    /\ server = "reading" => reply[current] = "none"
    /\ server = "handling" =>
           sent[current] /\ reply[current] = "OK" /\ request[current] # "unknown"

\* A reply of success is one that is true.
RepliesTrue ==
    \A c \in Clients :
        /\ reply[c] = "OK" =>
               /\ request[c] # "unknown"
               /\ executed[c] = IF server = "handling" /\ current = c THEN 0 ELSE 1
        /\ result[c] = "ok" => reply[c] = "OK"

IInv ==
    /\ Types
    /\ QueuedOnce /\ QueuedUnserved /\ IdleUnserved
    /\ CurrentServed /\ RepliesTrue
    /\ ExecutedAtMostOnce

\* At first nobody is connected.
LEMMA Initially == Init => IInv
BY DEF Init, IInv, Types, QueuedOnce, QueuedUnserved, IdleUnserved, CurrentServed,
       RepliesTrue, ExecutedAtMostOnce, Serving

(***************************************************************************)
(* The clients                                                             *)
(***************************************************************************)

\* Who connects has not been served, and is now at the end of the queue.
LEMMA ConnectKeeps ==
    ASSUME IInv, NEW c \in Clients, Connect(c)
    PROVE  IInv'
<1>1. /\ stage[c] = "idle"
      /\ stage' = [stage EXCEPT ![c] = "connected"]
      /\ queue' = Append(queue, c)
      /\ UNCHANGED <<request, sent, result, reply, server, after, current, executed>>
  BY DEF Connect, serverVars, servedVars
<1>2. /\ queue \in Seq(Clients) /\ Len(queue) \in Nat
      /\ Len(queue') = Len(queue) + 1
      /\ \A i \in 1..Len(queue) : queue'[i] = queue[i]
      /\ queue'[Len(queue) + 1] = c
  BY <1>1 DEF IInv, Types
<1>3. \A i \in 1..Len(queue) : queue[i] # c
  BY <1>1 DEF IInv, QueuedUnserved
<1>4. Types'
  BY <1>1 DEF IInv, Types
<1>5. QueuedOnce'
  BY <1>2, <1>3 DEF IInv, QueuedOnce
<1>6. QueuedUnserved'
  <2>1. /\ reply[c] = "none" /\ executed[c] = 0 /\ (Serving => c # current)
        /\ stage'[c] # "idle"
    BY <1>1 DEF IInv, Types, IdleUnserved, CurrentServed
  <2>2. \A d \in Clients : stage[d] # "idle" => stage'[d] # "idle"
    BY <1>1 DEF IInv, Types
  <2>3. \A i \in 1..Len(queue) : queue[i] \in Clients
    BY <1>2
  <2> QED
    BY <1>1, <1>2, <2>1, <2>2, <2>3 DEF IInv, QueuedUnserved, Serving
<1>7. IdleUnserved' /\ CurrentServed' /\ RepliesTrue' /\ ExecutedAtMostOnce'
  BY <1>1 DEF IInv, Types, IdleUnserved, CurrentServed, RepliesTrue,
              ExecutedAtMostOnce, Serving
<1> QED
  BY <1>4, <1>5, <1>6, <1>7 DEF IInv

\* Sending changes nothing for the others.
LEMMA SendKeeps ==
    ASSUME IInv, NEW c \in Clients, Send(c)
    PROVE  IInv'
<1>1. /\ stage[c] = "connected"
      /\ stage' = [stage EXCEPT ![c] = "waiting"]
      /\ sent' = [sent EXCEPT ![c] = TRUE]
      /\ UNCHANGED <<request, result, reply, queue, server, after, current, executed>>
  BY DEF Send, serverVars, servedVars
<1>2. \A d \in Clients : /\ stage'[d] = "idle" <=> stage[d] = "idle"
                         /\ sent[d] => sent'[d]
                         /\ stage[d] = "idle" => sent'[d] = sent[d]
  BY <1>1 DEF IInv, Types
<1>3. Types'
  BY <1>1 DEF IInv, Types
<1>4. QueuedOnce' /\ QueuedUnserved'
  <2>1. \A i \in 1..Len(queue) : queue[i] \in Clients
    BY DEF IInv, Types
  <2> QED
    BY <1>1, <1>2, <2>1 DEF IInv, QueuedOnce, QueuedUnserved, Serving
<1>5. IdleUnserved' /\ CurrentServed' /\ RepliesTrue' /\ ExecutedAtMostOnce'
  BY <1>1, <1>2 DEF IInv, Types, IdleUnserved, CurrentServed, RepliesTrue,
                    ExecutedAtMostOnce, Serving
<1> QED
  BY <1>3, <1>4, <1>5 DEF IInv

\* Who leaves with success has read the reply that says so.
LEMMA LeaveKeeps ==
    ASSUME IInv, NEW c \in Clients, NEW how, Leave(c, how),
           how \in {"ok", "failed", "timeout", "interrupted"},
           how = "ok" => reply[c] = "OK",
           UNCHANGED <<request, sent, reply, queue, server, after, current, executed>>
    PROVE  IInv'
<1>1. /\ stage' = [stage EXCEPT ![c] = "left"]
      /\ result' = [result EXCEPT ![c] = how]
  BY DEF Leave
<1>2. \A d \in Clients : stage'[d] = "idle" => d # c /\ stage[d] = "idle"
  BY <1>1 DEF IInv, Types
<1>3. Types'
  BY <1>1 DEF IInv, Types
<1>4. QueuedOnce' /\ QueuedUnserved'
  <2>1. \A i \in 1..Len(queue) : queue[i] \in Clients
    BY DEF IInv, Types
  <2> QED
    BY <1>2, <2>1 DEF IInv, QueuedOnce, QueuedUnserved, Serving
<1>5. IdleUnserved' /\ CurrentServed' /\ RepliesTrue' /\ ExecutedAtMostOnce'
  BY <1>1, <1>2 DEF IInv, Types, IdleUnserved, CurrentServed, RepliesTrue,
                    ExecutedAtMostOnce, Serving
<1> QED
  BY <1>3, <1>4, <1>5 DEF IInv

\* No step of a client disturbs the invariant.
LEMMA ClientKeeps ==
    ASSUME IInv, NEW c \in Clients, ClientStep(c)
    PROVE  IInv'
<1>1. CASE Connect(c)
  BY <1>1, ConnectKeeps
<1>2. CASE Send(c)
  BY <1>2, SendKeeps
<1>3. CASE Receive(c)
  <2> DEFINE how == IF reply[c] = "OK" THEN "ok" ELSE "failed"
  <2>1. Leave(c, how) /\ how \in {"ok", "failed"} /\ (how = "ok" => reply[c] = "OK")
    BY <1>3 DEF Receive
  <2>2. UNCHANGED <<request, sent, reply, queue, server, after, current, executed>>
    BY <1>3 DEF Receive, serverVars, servedVars
  <2> HIDE DEF how
  <2> QED
    BY <2>1, <2>2, LeaveKeeps
<1>4. CASE ConnectFails(c) \/ Probe(c) \/ SendFails(c) \/ GiveUp(c) \/ Interrupt(c)
  <2>1. PICK how \in {"failed", "timeout", "interrupted"} : Leave(c, how)
    BY <1>4 DEF ConnectFails, Probe, SendFails, GiveUp, Interrupt
  <2>2. UNCHANGED <<request, sent, reply, queue, server, after, current, executed>>
    BY <1>4 DEF ConnectFails, Probe, SendFails, GiveUp, Interrupt, serverVars,
                servedVars
  <2> QED
    BY <2>1, <2>2, LeaveKeeps
<1> QED
  BY <1>1, <1>2, <1>3, <1>4 DEF ClientStep

(***************************************************************************)
(* The daemon                                                              *)
(***************************************************************************)

\* The daemon may go where it likes, as long as it serves nobody.
LEMMA MoveKeeps ==
    ASSUME IInv, ~Serving, ~Serving',
           after' \in {"none", "accepting", "timer", "quitting"},
           UNCHANGED <<request, stage, sent, result, reply, queue, current, executed>>
    PROVE  IInv'
BY DEF IInv, Types, QueuedOnce, QueuedUnserved, IdleUnserved, CurrentServed,
       RepliesTrue, ExecutedAtMostOnce, Serving

\* The client accepted is not in the queue any more, and has not been served.
LEMMA AcceptKeeps ==
    ASSUME IInv, Accept
    PROVE  IInv'
<1>1. /\ server = "accepting" /\ queue # <<>>
      /\ current' = Head(queue) /\ queue' = Tail(queue) /\ server' = "reading"
      /\ UNCHANGED <<request, stage, sent, result, reply, after, executed>>
  BY DEF Accept, clientVars
<1>2. /\ queue \in Seq(Clients) /\ Len(queue) \in Nat /\ 1 \in 1..Len(queue)
      /\ current' = queue[1] /\ current' \in Clients
      /\ Len(queue') = Len(queue) - 1 /\ queue' \in Seq(Clients)
      /\ \A i \in 1..Len(queue') : i + 1 \in 1..Len(queue) /\ queue'[i] = queue[i + 1]
  BY <1>1 DEF IInv, Types
<1>3. Types'
  BY <1>1, <1>2 DEF IInv, Types
<1>4. QueuedOnce'
  BY <1>2 DEF IInv, QueuedOnce
<1>5. \A i \in 1..Len(queue') : queue'[i] # current'
  BY <1>2 DEF IInv, QueuedOnce
<1>6. QueuedUnserved'
  BY <1>1, <1>2, <1>5 DEF IInv, QueuedUnserved
<1>7. CurrentServed'
  BY <1>1, <1>2 DEF IInv, QueuedUnserved, CurrentServed, Serving
<1>8. IdleUnserved' /\ RepliesTrue' /\ ExecutedAtMostOnce'
  BY <1>1 DEF IInv, IdleUnserved, RepliesTrue, ExecutedAtMostOnce
<1> QED
  BY <1>3, <1>4, <1>6, <1>7, <1>8 DEF IInv

\* Writing a reply: "OK" only to a request that is then handled.
LEMMA AnswerKeeps ==
    ASSUME IInv, server = "reading", NEW text, NEW next, Answer(text, next),
           \/ text = "ERR" /\ next = "timer"
           \/ /\ text = "OK" /\ next = "handling"
              /\ sent[current] /\ request[current] # "unknown"
    PROVE  IInv'
<1>1. /\ UNCHANGED <<request, stage, sent, result, queue, after, current, executed>>
      /\ \/ server' = "dead" /\ reply' = reply
         \/ server' = next /\ reply' = [reply EXCEPT ![current] = text]
  BY DEF Answer, clientVars, servedVars
<1>2. /\ current \in Clients /\ stage[current] # "idle" /\ executed[current] = 0
      /\ reply[current] = "none" /\ result[current] # "ok"
      /\ \A i \in 1..Len(queue) : queue[i] \in Clients /\ queue[i] # current
  BY DEF IInv, Types, CurrentServed, QueuedUnserved, RepliesTrue, Serving
<1>3. Types'
  BY <1>1, <1>2 DEF IInv, Types
<1>4. QueuedOnce' /\ QueuedUnserved'
  BY <1>1, <1>2 DEF IInv, Types, QueuedOnce, QueuedUnserved, Serving
<1>5. CurrentServed'
  BY <1>1, <1>2 DEF IInv, Types, CurrentServed, Serving
<1>6. RepliesTrue'
  BY <1>1, <1>2 DEF IInv, Types, RepliesTrue
<1>7. IdleUnserved' /\ ExecutedAtMostOnce'
  BY <1>1, <1>2 DEF IInv, Types, IdleUnserved, ExecutedAtMostOnce
<1> QED
  BY <1>3, <1>4, <1>5, <1>6, <1>7 DEF IInv

\* A request is handled for the first time, and the client had sent it.
LEMMA HandleKeeps ==
    ASSUME IInv, HandleRequest
    PROVE  IInv'
<1>1. /\ server = "handling"
      /\ executed' = [executed EXCEPT ![current] = @ + 1]
      /\ UNCHANGED <<request, stage, sent, result, reply, queue, current>>
  BY DEF HandleRequest, clientVars
<1>2. /\ server' \in {"timer", "quitting", "stopping"}
      /\ after' \in {"none", "accepting", "timer", "quitting"}
  BY DEF HandleRequest, Handle, StopThen, IInv, Types
<1>3. /\ current \in Clients /\ stage[current] # "idle"
      /\ sent[current] /\ executed'[current] = 1
      /\ \A d \in Clients : d # current => executed'[d] = executed[d]
      /\ \A i \in 1..Len(queue) : queue[i] \in Clients /\ queue[i] # current
  BY <1>1 DEF IInv, Types, CurrentServed, QueuedUnserved, Serving
<1>4. Types'
  BY <1>1, <1>2 DEF IInv, Types
<1>5. QueuedOnce' /\ QueuedUnserved'
  BY <1>1, <1>2, <1>3 DEF IInv, QueuedOnce, QueuedUnserved, Serving
<1>6. CurrentServed'
  BY <1>2 DEF CurrentServed, Serving
<1>7. RepliesTrue'
  BY <1>1, <1>2, <1>3 DEF IInv, Types, RepliesTrue
<1>8. IdleUnserved' /\ ExecutedAtMostOnce'
  BY <1>1, <1>3 DEF IInv, Types, IdleUnserved, ExecutedAtMostOnce
<1> QED
  BY <1>4, <1>5, <1>6, <1>7, <1>8 DEF IInv

\* Who is disconnected had no reply yet.
LEMMA DisconnectKeeps ==
    ASSUME IInv, Disconnect
    PROVE  IInv'
<1> DEFINE Queued(c) == \E i \in DOMAIN queue : queue[i] = c
<1>1. /\ ~Serving /\ server' \in {"closed", "dead"}
      /\ reply' = [c \in Clients |-> IF Queued(c) THEN "EOF" ELSE reply[c]]
      /\ queue' = <<>>
      /\ UNCHANGED <<request, stage, sent, result, after, current, executed>>
  BY DEF Disconnect, clientVars, servedVars, Serving
<1>2. \A c \in Clients : Queued(c) => reply[c] = "none" /\ stage[c] # "idle"
  BY DEF IInv, Types, QueuedUnserved
<1> HIDE DEF Queued
<1>3. Types'
  BY <1>1 DEF IInv, Types
<1>4. QueuedOnce' /\ QueuedUnserved' /\ CurrentServed'
  BY <1>1 DEF QueuedOnce, QueuedUnserved, CurrentServed, Serving
<1>5. IdleUnserved' /\ RepliesTrue' /\ ExecutedAtMostOnce'
  BY <1>1, <1>2 DEF IInv, Types, IdleUnserved, RepliesTrue, ExecutedAtMostOnce, Serving
<1> QED
  BY <1>3, <1>4, <1>5 DEF IInv

\* No step of the daemon disturbs the invariant.
LEMMA DaemonKeeps ==
    ASSUME IInv, DaemonStep
    PROVE  IInv'
<1>1. CASE Accept
  BY <1>1, AcceptKeeps
<1>2. CASE ReadNothing \/ ReadUnknown
  <2>1. server = "reading" /\ Answer("ERR", "timer")
    BY <1>2 DEF ReadNothing, ReadUnknown
  <2> QED
    BY <2>1, AnswerKeeps
<1>3. CASE ReadRequest
  <2>1. /\ server = "reading" /\ Answer("OK", "handling")
        /\ sent[current] /\ request[current] # "unknown"
    BY <1>3 DEF ReadRequest
  <2> QED
    BY <2>1, AnswerKeeps
<1>4. CASE HandleRequest
  BY <1>4, HandleKeeps
<1>5. CASE Disconnect
  BY <1>5, DisconnectKeeps
<1>6. CASE StopEnds \/ LockSeen \/ LeaveLoop \/ AcceptNobody \/ Timer \/ Wake
  <2>1. /\ ~Serving /\ ~Serving'
        /\ after' \in {"none", "accepting", "timer", "quitting"}
    BY <1>6 DEF StopEnds, LockSeen, LeaveLoop, AcceptNobody, Timer, Wake, StopThen,
                Serving, IInv, Types
  <2>2. UNCHANGED <<request, stage, sent, result, reply, queue, current, executed>>
    BY <1>6 DEF StopEnds, LockSeen, LeaveLoop, AcceptNobody, Timer, Wake,
                clientVars, servedVars
  <2> QED
    BY <2>1, <2>2, MoveKeeps
<1> QED
  BY <1>1, <1>2, <1>3, <1>4, <1>5, <1>6 DEF DaemonStep

\* Every step keeps the invariant.
LEMMA Inductive == IInv /\ [Next]_vars => IInv'
<1> SUFFICES ASSUME IInv, [Next]_vars PROVE IInv'
  OBVIOUS
<1>1. CASE DaemonStep
  BY <1>1, DaemonKeeps
<1>2. CASE \E c \in Clients : ClientStep(c)
  BY <1>2, ClientKeeps
<1>3. CASE Tick \/ UNCHANGED vars
  <2>1. UNCHANGED <<request, stage, sent, result, reply, queue, server, after,
                    current, executed>>
    BY <1>3 DEF Tick, vars, clientVars, serverVars, servedVars
  <2> QED
    BY <2>1 DEF IInv, Types, QueuedOnce, QueuedUnserved, IdleUnserved,
                CurrentServed, RepliesTrue, ExecutedAtMostOnce, Serving
<1> QED
  BY <1>1, <1>2, <1>3 DEF Next

(***************************************************************************)
(* The theorems                                                            *)
(***************************************************************************)

\* The invariant holds for every number of clients (control.c:672-745, 759-825).
THEOREM Invariance == Spec => []IInv
BY Initially, Inductive, PTL DEF Spec

\* "OK" to a client means that its request has been carried out once, or is about to
\* be (control.c:722-744; main.c:249-278).
THEOREM OkIsTrue == Spec => []OkMeansExecuted
<1>1. IInv => OkMeansExecuted
  BY DEF IInv, RepliesTrue, OkMeansExecuted
<1> QED
  BY <1>1, Invariance, PTL

\* Every request is carried out at most once, and only if it was sent
\* (control.c:674, 711-720).
THEOREM ExecutedOnce == Spec => []ExecutedAtMostOnce
<1>1. IInv => ExecutedAtMostOnce
  BY DEF IInv
<1> QED
  BY <1>1, Invariance, PTL

(***************************************************************************)
(* Patience: how long a client may have to wait                            *)
(***************************************************************************)

\* What one client in the queue costs those behind it, at most.
Turn == PollTicks + TurnTicks

\* What those before the i-th in the queue may cost it.
Ahead(i) == (i - 1) * Turn

\* How long it takes at most until the daemon accepts the next client, if it does
\* not stop an overlay meanwhile.
TurnLeft ==
    CASE server = "reading" ->
             (IF stage[current] = "connected" THEN nap ELSE 0) + TurnTicks
      [] server \in {"handling", "timer"} -> TurnTicks
      [] server = "sleeping" -> nap
      [] server = "stopping" -> IF after = "timer" THEN TurnTicks ELSE 0
      [] OTHER -> 0

TimeTypes == nap \in Nat /\ patience \in [Clients -> Nat]

NapBounded ==
    /\ server = "reading" => nap <= PollTicks
    /\ server = "sleeping" => nap <= TurnTicks

\* Who is connected without a reply is in the queue, or being read.
NobodyForgotten ==
    \A c \in Clients : stage[c] \in {"connected", "waiting"} /\ reply[c] = "none" =>
        \/ \E i \in 1..Len(queue) : queue[i] = c
        \/ server = "reading" /\ current = c

\* Who waits in the queue has more patience left than its turn is away.
QueueInTime ==
    \A i \in 1..Len(queue) :
        stage[queue[i]] = "waiting" /\ queue[i] \notin held =>
            TurnLeft + Ahead(i) < patience[queue[i]]

\* And who is read at last has some left.
CurrentInTime ==
    server = "reading" /\ stage[current] = "waiting" /\ current \notin held =>
        0 < patience[current]

PInv ==
    /\ TimeTypes /\ NapBounded /\ NobodyForgotten
    /\ QueueInTime /\ CurrentInTime
    /\ GivesUpOnlyDuringStop

\* A queue that the patience of a client outlasts.
Outlasts(crowd) == crowd \in Nat /\ crowd * Turn < PatienceTicks

LEMMA Times ==
    /\ TurnTicks \in Nat /\ PollTicks \in Nat /\ PatienceTicks \in Nat
    /\ Turn \in Nat /\ Turn = PollTicks + TurnTicks
BY SessionAssumption DEF Turn

\* Every place in the queue costs a turn more.
LEMMA Places ==
    ASSUME NEW i \in Nat \ {0}
    PROVE  /\ Ahead(i) \in Nat
           /\ Ahead(i + 1) = Ahead(i) + Turn
           /\ \A n \in Nat : i <= n => Ahead(i) + Turn <= n * Turn
<1>1. Turn \in Nat
  BY Times
<1>2. \A a, t \in Nat : a * t \in Nat /\ (a + 1) * t = a * t + t
  BY SMTT(20)
<1>3. \A a, n, t \in Nat : a <= n => a * t <= n * t
  BY SMTT(20)
<1>4. PICK a \in Nat : i = a + 1
  <2>1. i - 1 \in Nat /\ i = (i - 1) + 1
    OBVIOUS
  <2> QED
    BY <2>1
<1>5. Ahead(i) = a * Turn
  BY <1>4 DEF Ahead
<1>6. Ahead(i + 1) = (a + 1) * Turn
  <2>1. (i + 1) - 1 = a + 1
    BY <1>4
  <2> QED
    BY <2>1 DEF Ahead
<1>7. ASSUME NEW n \in Nat, i <= n
      PROVE  Ahead(i) + Turn <= n * Turn
  <2>1. (a + 1) * Turn <= n * Turn
    BY <1>1, <1>3, <1>4, <1>7
  <2> QED
    BY <1>1, <1>2, <1>5, <2>1
<1> QED
  BY <1>1, <1>2, <1>5, <1>6, <1>7

\* The daemon is never further than a turn from its queue.
LEMMA TurnLeftBounded ==
    ASSUME TimeTypes, NapBounded
    PROVE  TurnLeft \in Nat /\ TurnLeft <= Turn
BY Times DEF TimeTypes, NapBounded, TurnLeft

\* At first nobody waits.
LEMMA InitiallyPatient == Init => PInv
BY DEF Init, PInv, TimeTypes, NapBounded, NobodyForgotten, QueueInTime,
       CurrentInTime, GivesUpOnlyDuringStop

\* A step that brings the daemon no further from its queue, and makes nobody wait.
LEMMA SoonerKeeps ==
    ASSUME IInv, PInv, UNCHANGED <<queue, patience, held>>,
           TurnLeft' \in Nat, TurnLeft' <= TurnLeft \/ queue = <<>>,
           \A d \in Clients : stage'[d] = "waiting" => stage[d] = "waiting",
           server' = "reading" => server = "reading" /\ current' = current
    PROVE  QueueInTime' /\ CurrentInTime'
<1>1. CurrentInTime'
  BY DEF IInv, Types, PInv, CurrentInTime
<1>2. QueueInTime'
  <2> SUFFICES ASSUME NEW i \in 1..Len(queue),
                      stage'[queue[i]] = "waiting", queue[i] \notin held
               PROVE  TurnLeft' + Ahead(i) < patience[queue[i]]
    BY DEF QueueInTime
  <2>1. /\ queue \in Seq(Clients) /\ queue[i] \in Clients /\ queue # <<>>
        /\ i \in Nat \ {0} /\ patience[queue[i]] \in Nat
    BY DEF IInv, Types, PInv, TimeTypes
  <2>2. TurnLeft + Ahead(i) < patience[queue[i]]
    BY <2>1 DEF PInv, QueueInTime
  <2>3. Ahead(i) \in Nat /\ TurnLeft \in Nat /\ TurnLeft' <= TurnLeft
    BY <2>1, Places, TurnLeftBounded DEF PInv
  <2> QED
    BY <2>1, <2>2, <2>3
<1> QED
  BY <1>1, <1>2

\* Who connects has nothing to wait for yet.
LEMMA ConnectPatient ==
    ASSUME IInv, PInv, NEW c \in Clients, Connect(c)
    PROVE  PInv'
<1>1. /\ stage[c] = "idle"
      /\ stage' = [stage EXCEPT ![c] = "connected"]
      /\ queue' = Append(queue, c)
      /\ UNCHANGED <<result, patience, reply, server, after, nap, current, held>>
  BY DEF Connect, serverVars, servedVars
<1>2. /\ queue \in Seq(Clients) /\ Len(queue) \in Nat
      /\ Len(queue') = Len(queue) + 1
      /\ \A i \in 1..Len(queue) : queue'[i] = queue[i] /\ queue[i] \in Clients
      /\ queue'[Len(queue) + 1] = c
  BY <1>1 DEF IInv, Types
<1>3. /\ stage'[c] = "connected"
      /\ \A d \in Clients : d # c => stage'[d] = stage[d]
  BY <1>1 DEF IInv, Types
<1>4. Serving => current # c
  BY <1>1 DEF IInv, CurrentServed
<1>5. TurnLeft' = TurnLeft
  BY <1>1, <1>3, <1>4 DEF TurnLeft, Serving, IInv, Types
<1>6. TimeTypes' /\ NapBounded' /\ GivesUpOnlyDuringStop'
  BY <1>1 DEF PInv, TimeTypes, NapBounded, GivesUpOnlyDuringStop
<1>7. NobodyForgotten'
  <2> SUFFICES ASSUME NEW d \in Clients,
                      stage'[d] \in {"connected", "waiting"}, reply[d] = "none"
               PROVE  \/ \E i \in 1..Len(queue') : queue'[i] = d
                      \/ server = "reading" /\ current = d
    BY <1>1 DEF NobodyForgotten
  <2>1. CASE d = c
    BY <1>2, <2>1
  <2>2. CASE d # c
    BY <1>2, <1>3, <2>2 DEF PInv, NobodyForgotten
  <2> QED
    BY <2>1, <2>2
<1>8. QueueInTime'
  BY <1>1, <1>2, <1>3, <1>5 DEF PInv, QueueInTime
<1>9. CurrentInTime'
  BY <1>1, <1>3 DEF IInv, Types, PInv, CurrentInTime
<1> QED
  BY <1>6, <1>7, <1>8, <1>9 DEF PInv

\* Who starts to wait has all its patience, and no place in a queue of that length is
\* further away.
LEMMA SendPatient ==
    ASSUME IInv, PInv, NEW crowd, Outlasts(crowd), Len(queue) <= crowd,
           NEW c \in Clients, Send(c)
    PROVE  PInv'
<1>1. /\ stage[c] = "connected"
      /\ stage' = [stage EXCEPT ![c] = "waiting"]
      /\ patience' = [patience EXCEPT ![c] = PatienceTicks]
      /\ UNCHANGED <<result, reply, queue, server, after, nap, current, held>>
  BY DEF Send, serverVars, servedVars
<1>2. /\ stage'[c] = "waiting" /\ patience'[c] = PatienceTicks
      /\ \A d \in Clients : d # c => stage'[d] = stage[d] /\ patience'[d] = patience[d]
  BY <1>1 DEF IInv, Types, PInv, TimeTypes
<1>3. TimeTypes' /\ NapBounded' /\ GivesUpOnlyDuringStop'
  BY <1>1, Times DEF PInv, TimeTypes, NapBounded, GivesUpOnlyDuringStop
<1>4. NobodyForgotten'
  BY <1>1, <1>2 DEF PInv, NobodyForgotten
<1>5. /\ TurnLeft \in Nat /\ TurnLeft <= Turn
      /\ TurnLeft' \in Nat /\ TurnLeft' <= TurnLeft
  <2>1. /\ nap \in Nat /\ TurnTicks \in Nat /\ current \in Clients
    BY Times DEF PInv, TimeTypes, IInv, Types
  <2>2. TurnLeft' \in Nat /\ TurnLeft' <= TurnLeft
    BY <1>1, <1>2, <2>1 DEF TurnLeft
  <2> QED
    BY <2>2, TurnLeftBounded DEF PInv
<1>6. QueueInTime'
  <2> SUFFICES ASSUME NEW i \in 1..Len(queue),
                      stage'[queue[i]] = "waiting", queue[i] \notin held
               PROVE  TurnLeft' + Ahead(i) < patience'[queue[i]]
    BY <1>1 DEF QueueInTime
  <2>1. /\ queue[i] \in Clients /\ i \in Nat \ {0} /\ i <= crowd /\ crowd \in Nat
        /\ patience'[queue[i]] \in Nat
    <3>1. Len(queue) \in Nat /\ queue[i] \in Clients
      BY DEF IInv, Types
    <3> QED
      BY <1>3, <3>1 DEF Outlasts, TimeTypes
  <2>2. Ahead(i) \in Nat /\ Ahead(i) + Turn <= crowd * Turn
    BY <2>1, Places
  <2>3. CASE queue[i] = c
    <3>1. crowd * Turn < PatienceTicks /\ crowd * Turn \in Nat
      BY Times DEF Outlasts
    <3> QED
      BY <1>2, <1>5, <2>2, <2>3, <3>1, Times
  <2>4. CASE queue[i] # c
    <3>1. TurnLeft + Ahead(i) < patience[queue[i]]
      BY <1>2, <2>1, <2>4 DEF PInv, QueueInTime
    <3> QED
      BY <1>2, <1>5, <2>1, <2>2, <2>4, <3>1
  <2> QED
    BY <2>3, <2>4
<1>7. CurrentInTime'
  <2>1. 0 < PatienceTicks
    <3>1. \A n, t \in Nat : n * t \in Nat
      OBVIOUS
    <3> QED
      BY <3>1, Times DEF Outlasts
  <2> QED
    BY <1>1, <1>2, <2>1 DEF IInv, Types, PInv, CurrentInTime
<1> QED
  BY <1>3, <1>4, <1>6, <1>7 DEF PInv

\* Who has no patience left is not in the queue, unless it was held up.
LEMMA OutOfPatience ==
    ASSUME IInv, PInv, NEW c \in Clients, GiveUp(c)
    PROVE  c \in held
<1>1. stage[c] = "waiting" /\ reply[c] = "none" /\ patience[c] = 0
  BY DEF GiveUp
<1>2. SUFFICES ASSUME c \notin held PROVE FALSE
  OBVIOUS
<1>3. CASE server = "reading" /\ current = c
  BY <1>1, <1>2, <1>3 DEF PInv, CurrentInTime
<1>4. CASE \E i \in 1..Len(queue) : queue[i] = c
  <2>1. PICK i \in 1..Len(queue) : queue[i] = c
    BY <1>4
  <2>2. TurnLeft + Ahead(i) < 0
    BY <1>1, <1>2, <2>1 DEF PInv, QueueInTime
  <2>3. TurnLeft \in Nat
    BY TurnLeftBounded DEF PInv
  <2>4. Ahead(i) \in Nat
    <3>1. i \in Nat \ {0}
      BY DEF IInv, Types
    <3> QED
      BY <3>1, Places
  <2> QED
    BY <2>2, <2>3, <2>4
<1> QED
  BY <1>1, <1>3, <1>4 DEF PInv, NobodyForgotten

\* Who leaves makes nobody wait longer.
LEMMA LeavePatient ==
    ASSUME IInv, PInv, NEW c \in Clients, NEW how, Leave(c, how),
           how = "timeout" => c \in held,
           UNCHANGED <<patience, reply, queue, server, after, nap, current, held>>
    PROVE  PInv'
<1>1. /\ stage' = [stage EXCEPT ![c] = "left"]
      /\ result' = [result EXCEPT ![c] = how]
  BY DEF Leave
<1>2. /\ stage'[c] = "left"
      /\ \A d \in Clients : d # c => stage'[d] = stage[d]
  BY <1>1 DEF IInv, Types
<1>3. TimeTypes' /\ NapBounded'
  BY DEF PInv, TimeTypes, NapBounded
<1>4. GivesUpOnlyDuringStop'
  BY <1>1 DEF IInv, Types, PInv, GivesUpOnlyDuringStop
<1>5. NobodyForgotten'
  BY <1>2 DEF PInv, NobodyForgotten
<1>6. TurnLeft' \in Nat /\ TurnLeft' <= TurnLeft
  <2>1. /\ nap \in Nat /\ TurnTicks \in Nat /\ current \in Clients
    BY Times DEF PInv, TimeTypes, IInv, Types
  <2> QED
    BY <1>2, <2>1 DEF TurnLeft
<1>7. QueueInTime' /\ CurrentInTime'
  <2>1. \A d \in Clients : stage'[d] = "waiting" => stage[d] = "waiting"
    BY <1>2
  <2> QED
    BY <1>6, <2>1, SoonerKeeps
<1> QED
  BY <1>3, <1>4, <1>5, <1>7 DEF PInv

\* No step of a client makes another one wait too long.
LEMMA ClientPatient ==
    ASSUME IInv, PInv, NEW crowd, Outlasts(crowd), Len(queue) <= crowd,
           NEW c \in Clients, ClientStep(c)
    PROVE  PInv'
<1>1. CASE Connect(c)
  BY <1>1, ConnectPatient
<1>2. CASE Send(c)
  BY <1>2, SendPatient
<1>3. CASE GiveUp(c)
  <2>1. /\ Leave(c, "timeout")
        /\ UNCHANGED <<patience, reply, queue, server, after, nap, current, held>>
    BY <1>3 DEF GiveUp, serverVars, servedVars
  <2> QED
    BY <1>3, <2>1, OutOfPatience, LeavePatient
<1>4. CASE \/ ConnectFails(c) \/ Probe(c) \/ SendFails(c) \/ Receive(c)
           \/ Interrupt(c)
  <2>1. PICK how \in {"ok", "failed", "interrupted"} : Leave(c, how)
    BY <1>4 DEF ConnectFails, Probe, SendFails, Receive, Interrupt
  <2>2. UNCHANGED <<patience, reply, queue, server, after, nap, current, held>>
    BY <1>4 DEF ConnectFails, Probe, SendFails, Receive, Interrupt, serverVars,
                servedVars
  <2> QED
    BY <2>1, <2>2, LeavePatient
<1> QED
  BY <1>1, <1>2, <1>3, <1>4 DEF ClientStep

\* The head of the queue is read, and everybody else is a turn nearer.
LEMMA AcceptPatient ==
    ASSUME IInv, PInv, Accept
    PROVE  PInv'
<1>1. /\ server = "accepting" /\ queue # <<>>
      /\ current' = Head(queue) /\ queue' = Tail(queue) /\ server' = "reading"
      /\ nap' = PollTicks
      /\ UNCHANGED <<stage, result, patience, reply, held>>
  BY DEF Accept, clientVars
<1>2. /\ queue \in Seq(Clients) /\ Len(queue) \in Nat /\ 1 \in 1..Len(queue)
      /\ current' = queue[1]
      /\ Len(queue') = Len(queue) - 1
      /\ \A i \in 1..Len(queue') :
             /\ i \in Nat \ {0}
             /\ i + 1 \in 1..Len(queue) /\ queue'[i] = queue[i + 1]
      /\ \A i \in 1..Len(queue) : i # 1 => i - 1 \in 1..Len(queue') /\ i = (i - 1) + 1
  BY <1>1 DEF IInv, Types
<1>3. TimeTypes' /\ NapBounded' /\ GivesUpOnlyDuringStop'
  BY <1>1, Times DEF PInv, TimeTypes, NapBounded, GivesUpOnlyDuringStop
<1>4. NobodyForgotten'
  <2> SUFFICES ASSUME NEW d \in Clients,
                      stage[d] \in {"connected", "waiting"}, reply[d] = "none"
               PROVE  (\E i \in 1..Len(queue') : queue'[i] = d) \/ current' = d
    BY <1>1 DEF NobodyForgotten
  <2>1. PICK i \in 1..Len(queue) : queue[i] = d
    BY <1>1 DEF PInv, NobodyForgotten
  <2>2. CASE i = 1
    BY <1>2, <2>1, <2>2
  <2>3. CASE i # 1
    <3>1. i - 1 \in 1..Len(queue') /\ queue'[i - 1] = d
      BY <1>2, <2>1, <2>3
    <3> QED
      BY <3>1
  <2> QED
    BY <2>2, <2>3
<1>5. TurnLeft = 0 /\ TurnLeft' \in Nat /\ TurnLeft' <= Turn
  BY <1>1, Times DEF TurnLeft
<1>6. QueueInTime'
  <2> SUFFICES ASSUME NEW i \in 1..Len(queue'),
                      stage[queue'[i]] = "waiting", queue'[i] \notin held
               PROVE  TurnLeft' + Ahead(i) < patience[queue'[i]]
    BY <1>1 DEF QueueInTime
  <2>1. /\ i \in Nat \ {0} /\ i + 1 \in 1..Len(queue) /\ queue'[i] = queue[i + 1]
        /\ patience[queue'[i]] \in Nat
    <3>1. queue[i + 1] \in Clients
      BY <1>2
    <3> QED
      BY <1>2, <3>1 DEF PInv, TimeTypes
  <2>2. TurnLeft + Ahead(i + 1) < patience[queue'[i]]
    BY <2>1 DEF PInv, QueueInTime
  <2>3. Ahead(i) \in Nat /\ Ahead(i + 1) = Ahead(i) + Turn
    BY <2>1, Places
  <2> QED
    BY <1>5, <2>1, <2>2, <2>3, Times
<1>7. CurrentInTime'
  <2> SUFFICES ASSUME stage[queue[1]] = "waiting", queue[1] \notin held
               PROVE  0 < patience[queue[1]]
    BY <1>1, <1>2 DEF CurrentInTime
  <2>1. TurnLeft + Ahead(1) < patience[queue[1]]
    BY <1>2 DEF PInv, QueueInTime
  <2>2. Ahead(1) \in Nat
    BY Places
  <2>3. patience[queue[1]] \in Nat
    BY <1>2 DEF PInv, TimeTypes
  <2> QED
    BY <1>5, <2>1, <2>2, <2>3
<1> QED
  BY <1>3, <1>4, <1>6, <1>7 DEF PInv

\* Who is read gets its reply, and the daemon has the sleep before it.
LEMMA AnswerPatient ==
    ASSUME IInv, PInv, server = "reading", NEW text, NEW next, Answer(text, next),
           text # "none", next \in {"timer", "handling"}
    PROVE  PInv'
<1>1. /\ UNCHANGED <<stage, result, patience, queue, after, current, held>>
      /\ nap' = 0
      /\ \/ server' = "dead" /\ reply' = reply /\ Left(current)
         \/ server' = next /\ reply' = [reply EXCEPT ![current] = text]
  BY DEF Answer, clientVars, servedVars
<1>2. TimeTypes' /\ NapBounded' /\ GivesUpOnlyDuringStop'
  BY <1>1, Times DEF PInv, TimeTypes, NapBounded, GivesUpOnlyDuringStop
<1>3. NobodyForgotten'
  BY <1>1 DEF IInv, Types, PInv, NobodyForgotten, Left
<1>4. TurnLeft' \in Nat /\ TurnLeft' <= TurnLeft
  <2>1. nap \in Nat /\ TurnTicks \in Nat
    BY Times DEF PInv, TimeTypes
  <2> QED
    BY <1>1, <2>1 DEF TurnLeft
<1>5. QueueInTime' /\ CurrentInTime'
  <2>1. server' # "reading"
    BY <1>1
  <2> QED
    BY <1>1, <1>4, <2>1, SoonerKeeps
<1> QED
  BY <1>2, <1>3, <1>5 DEF PInv

\* Where the daemon goes while it reads nobody, it comes no further from its queue.
LEMMA MovePatient ==
    ASSUME IInv, PInv, StopEnds \/ LockSeen \/ LeaveLoop \/ AcceptNobody \/
                       HandleRequest \/ Timer \/ Wake
    PROVE  PInv'
<1>1. /\ UNCHANGED <<stage, result, patience, queue, reply, current, held>>
      /\ nap' \in {nap, TurnTicks}
  BY DEF StopEnds, LockSeen, LeaveLoop, AcceptNobody, HandleRequest, Timer, Wake,
         clientVars, servedVars
<1>2. server # "reading" /\ server' # "reading"
  BY DEF StopEnds, LockSeen, LeaveLoop, AcceptNobody, HandleRequest, Timer, Wake,
         Handle, StopThen, IInv, Types
<1>3. server' = "sleeping" => nap' = TurnTicks
  BY DEF StopEnds, LockSeen, LeaveLoop, AcceptNobody, HandleRequest, Timer, Wake,
         Handle, StopThen, IInv, Types
<1>4. TimeTypes' /\ NapBounded' /\ GivesUpOnlyDuringStop'
  BY <1>1, <1>2, <1>3, Times DEF PInv, TimeTypes, NapBounded, GivesUpOnlyDuringStop
<1>5. NobodyForgotten'
  BY <1>1, <1>2 DEF PInv, NobodyForgotten
<1>6. TurnLeft' \in Nat /\ (TurnLeft' <= TurnLeft \/ queue = <<>>)
  <2>1. nap \in Nat /\ TurnTicks \in Nat
    BY Times DEF PInv, TimeTypes
  <2>2. CASE StopEnds
    BY <2>1, <2>2 DEF StopEnds, TurnLeft, IInv, Types
  <2>3. CASE LockSeen \/ LeaveLoop
    BY <2>1, <2>3 DEF LockSeen, LeaveLoop, StopThen, TurnLeft
  <2>4. CASE AcceptNobody
    BY <2>1, <2>4 DEF AcceptNobody, TurnLeft
  <2>5. CASE HandleRequest
    <3>1. \/ server' = "timer" \/ server' = "quitting"
          \/ server' = "stopping"
      BY <2>5 DEF HandleRequest, Handle, StopThen
    <3>2. TurnLeft = TurnTicks
      BY <2>5 DEF HandleRequest, TurnLeft
    <3>3. TurnLeft' \in {0, TurnTicks}
      BY <3>1 DEF TurnLeft
    <3> QED
      BY <2>1, <3>2, <3>3
  <2>6. CASE Timer
    BY <2>1, <2>6 DEF Timer, TurnLeft
  <2>7. CASE Wake
    BY <2>1, <2>7 DEF Wake, TurnLeft
  <2> QED
    BY <2>2, <2>3, <2>4, <2>5, <2>6, <2>7
<1>7. QueueInTime' /\ CurrentInTime'
  BY <1>1, <1>2, <1>6, SoonerKeeps
<1> QED
  BY <1>4, <1>5, <1>7 DEF PInv

\* When the daemon is gone nobody is left without a reply.
LEMMA DisconnectPatient ==
    ASSUME IInv, PInv, Disconnect
    PROVE  PInv'
<1> DEFINE Queued(c) == \E i \in DOMAIN queue : queue[i] = c
<1>1. /\ server \in {"quitting", "dead"} /\ server' \in {"closed", "dead"}
      /\ reply' = [c \in Clients |-> IF Queued(c) THEN "EOF" ELSE reply[c]]
      /\ queue' = <<>>
      /\ UNCHANGED <<stage, result, patience, nap, held>>
  BY DEF Disconnect, clientVars, servedVars
<1>2. \A c \in Clients : Queued(c) <=> \E i \in 1..Len(queue) : queue[i] = c
  BY DEF IInv, Types
<1> HIDE DEF Queued
<1>3. TimeTypes' /\ NapBounded' /\ GivesUpOnlyDuringStop'
  BY <1>1 DEF PInv, TimeTypes, NapBounded, GivesUpOnlyDuringStop
<1>4. NobodyForgotten'
  BY <1>1, <1>2 DEF PInv, NobodyForgotten
<1>5. QueueInTime' /\ CurrentInTime'
  BY <1>1 DEF QueueInTime, CurrentInTime
<1> QED
  BY <1>3, <1>4, <1>5 DEF PInv

\* Time that passes brings everybody's turn as much nearer, unless an overlay is
\* being stopped.
LEMMA TickPatient ==
    ASSUME IInv, PInv, Tick
    PROVE  PInv'
<1>1. /\ Blocked
      /\ nap' = Countdown(nap)
      /\ patience' = [c \in Clients |-> Countdown(patience[c])]
      /\ UNCHANGED <<stage, result, reply, queue, server, after, current>>
  BY DEF Tick
<1>2. /\ nap \in Nat /\ nap' \in Nat /\ nap' <= nap
      /\ nap > 0 => nap = nap' + 1
      /\ \A c \in Clients :
             /\ patience[c] \in Nat /\ patience'[c] \in Nat
             /\ patience[c] > 0 => patience[c] = patience'[c] + 1
  BY <1>1 DEF PInv, TimeTypes, Countdown
<1>3. /\ held \subseteq held'
      /\ server = "stopping" =>
             \A c \in Clients : stage[c] = "waiting" => c \in held'
  BY DEF Tick
<1>4. TimeTypes'
  BY <1>1, <1>2 DEF PInv, TimeTypes
<1>5. NapBounded'
  BY <1>1, <1>2, Times DEF PInv, NapBounded
<1>6. GivesUpOnlyDuringStop' /\ NobodyForgotten'
  BY <1>1, <1>3 DEF PInv, GivesUpOnlyDuringStop, NobodyForgotten
<1>7. CurrentInTime'
  <2>1. server = "reading" => stage[current] = "connected"
    BY <1>1 DEF Blocked
  <2> QED
    BY <1>1, <2>1 DEF CurrentInTime
<1>8. QueueInTime'
  <2> SUFFICES ASSUME NEW i \in 1..Len(queue),
                      stage[queue[i]] = "waiting", queue[i] \notin held'
               PROVE  TurnLeft' + Ahead(i) < patience'[queue[i]]
    BY <1>1 DEF QueueInTime
  <2>1. queue[i] \in Clients /\ i \in Nat \ {0}
    BY DEF IInv, Types
  <2>2. /\ TurnLeft + Ahead(i) < patience[queue[i]]
        /\ server # "stopping"
    BY <1>3, <2>1 DEF PInv, QueueInTime
  <2>3. Ahead(i) \in Nat
    BY <2>1, Places
  <2>4. TurnLeft \in Nat /\ TurnLeft' \in Nat /\ TurnLeft = TurnLeft' + 1
    <3>1. CASE server = "sleeping"
      BY <1>1, <1>2, <3>1 DEF Blocked, TurnLeft
    <3>2. CASE server = "reading"
      <4>1. /\ stage[current] = "connected" /\ nap = nap' + 1
            /\ UNCHANGED <<server, stage, current>>
        BY <1>1, <1>2, <3>2 DEF Blocked
      <4>2. TurnLeft = nap + TurnTicks /\ TurnLeft' = nap' + TurnTicks
        BY <3>2, <4>1 DEF TurnLeft
      <4> QED
        BY <1>2, <4>1, <4>2, Times
    <3> QED
      BY <1>1, <2>2, <3>1, <3>2 DEF Blocked
  <2>5. \A t, u, a, p, q \in Nat :
            t = u + 1 /\ t + a < p /\ (p > 0 => p = q + 1) => u + a < q
    OBVIOUS
  <2> HIDE DEF TurnLeft
  <2> QED
    BY <1>2, <2>1, <2>2, <2>3, <2>4, <2>5
<1> QED
  BY <1>4, <1>5, <1>6, <1>7, <1>8 DEF PInv

\* As long as the queue is no longer than patience lasts, nobody waits too long.
LEMMA PatienceInductive ==
    ASSUME NEW crowd, Outlasts(crowd)
    PROVE  IInv /\ PInv /\ Len(queue) <= crowd /\ [Next]_vars => PInv'
<1> SUFFICES ASSUME IInv, PInv, Len(queue) <= crowd, [Next]_vars PROVE PInv'
  OBVIOUS
<1>1. CASE \E c \in Clients : ClientStep(c)
  BY <1>1, ClientPatient
<1>2. CASE Tick
  BY <1>2, TickPatient
<1>3. CASE Accept
  BY <1>3, AcceptPatient
<1>4. CASE Disconnect
  BY <1>4, DisconnectPatient
<1>5. CASE ReadNothing \/ ReadUnknown \/ ReadRequest
  <2>1. /\ server = "reading"
        /\ Answer("ERR", "timer") \/ Answer("OK", "handling")
    BY <1>5 DEF ReadNothing, ReadUnknown, ReadRequest
  <2> QED
    BY <2>1, AnswerPatient
<1>6. CASE StopEnds \/ LockSeen \/ LeaveLoop \/ AcceptNobody \/ HandleRequest \/
           Timer \/ Wake
  BY <1>6, MovePatient
<1>7. CASE UNCHANGED vars
  <2>1. UNCHANGED <<stage, result, patience, reply, queue, server, after, nap,
                    current, held>>
    BY <1>7 DEF vars, clientVars, serverVars, servedVars
  <2> QED
    BY <2>1 DEF PInv, TimeTypes, NapBounded, NobodyForgotten, QueueInTime,
                CurrentInTime, GivesUpOnlyDuringStop, TurnLeft
<1> QED
  BY <1>1, <1>2, <1>3, <1>4, <1>5, <1>6, <1>7 DEF Next, DaemonStep

\* The kernel lets no more connections wait than the backlog.
LEMMA QueueBounded == Spec => [](Len(queue) <= Backlog)
<1>1. Init => Len(queue) <= Backlog
  BY SessionAssumption DEF Init
<1>2. IInv /\ Len(queue) <= Backlog /\ [Next]_vars =>
          (Len(queue) <= Backlog)'
  <2> SUFFICES ASSUME IInv, Len(queue) <= Backlog, [Next]_vars
               PROVE  (Len(queue) <= Backlog)'
    OBVIOUS
  <2>1. /\ Backlog \in Nat /\ Len(queue) \in Nat /\ queue \in Seq(Clients)
    BY SessionAssumption DEF IInv, Types
  <2>2. \/ queue' \in {queue, <<>>}
        \/ queue # <<>> /\ queue' = Tail(queue)
        \/ Len(queue) < Backlog /\ \E c \in Clients : queue' = Append(queue, c)
    BY DEF Next, DaemonStep, ClientStep, Connect, ConnectFails, Probe, Send,
           SendFails, Receive, GiveUp, Interrupt, Tick, StopEnds, LockSeen,
           LeaveLoop, AcceptNobody, Accept, ReadNothing, ReadUnknown, ReadRequest,
           Answer, HandleRequest, Timer, Wake, Disconnect, vars
  <2> QED
    BY <2>1, <2>2
<1> QED
  BY <1>1, <1>2, Invariance, PTL DEF Spec

\* As long as no more connections wait at a time than the patience of a client covers,
\* nobody gives up except while an overlay is being stopped (control.c:697-709,
\* 800-813; main.c:221-298).
THEOREM PatienceSuffices ==
    ASSUME NEW crowd \in Nat, crowd * (PollTicks + TurnTicks) < PatienceTicks
    PROVE  Spec /\ [](Len(queue) <= crowd) => []GivesUpOnlyDuringStop
<1>1. Outlasts(crowd)
  BY DEF Outlasts, Turn
<1>2. IInv /\ PInv /\ Len(queue) <= crowd /\ [Next]_vars => PInv'
  BY <1>1, PatienceInductive
<1>3. PInv => GivesUpOnlyDuringStop
  BY DEF PInv
<1> QED
  BY <1>2, <1>3, InitiallyPatient, Invariance, PTL DEF Spec

\* That is so if the backlog is that small,
THEOREM SmallBacklog ==
    ASSUME Backlog * (PollTicks + TurnTicks) < PatienceTicks
    PROVE  Spec => []GivesUpOnlyDuringStop
<1>1. IInv /\ PInv /\ Len(queue) <= Backlog /\ [Next]_vars => PInv'
  <2>1. Outlasts(Backlog)
    BY SessionAssumption DEF Outlasts, Turn
  <2> QED
    BY <2>1, PatienceInductive
<1>2. PInv => GivesUpOnlyDuringStop
  BY DEF PInv
<1> QED
  BY <1>1, <1>2, InitiallyPatient, Invariance, QueueBounded, PTL DEF Spec

\* or if there are so few clients, for nobody is in the queue twice: two of them with
\* the times of the code, turns of a second, polls of 250 ms and a patience of 3 s.
THEOREM FewClients ==
    ASSUME IsFiniteSet(Clients),
           Cardinality(Clients) * (PollTicks + TurnTicks) < PatienceTicks
    PROVE  Spec => []GivesUpOnlyDuringStop
<1>1. IInv /\ PInv /\ [Next]_vars => PInv'
  <2> SUFFICES ASSUME IInv, PInv, [Next]_vars PROVE PInv'
    OBVIOUS
  <2>1. Outlasts(Cardinality(Clients))
    BY FS_CardinalityType DEF Outlasts, Turn
  <2>2. queue \in Seq(Clients) /\ Len(queue) \in Nat
    BY DEF IInv, Types
  <2>3. Len(queue) <= Cardinality(Clients)
    <3>1. queue \in Injection(1..Len(queue), Clients)
      BY <2>2 DEF IInv, QueuedOnce, Injection, IsInjective
    <3>2. \A S, T : \A f \in Injection(S, T) :
              IsFiniteSet(T) => Cardinality(S) <= Cardinality(T)
      BY FS_Injection
    <3>3. Cardinality(1..Len(queue)) <= Cardinality(Clients)
      BY <3>1, <3>2
    <3>4. Cardinality(1..Len(queue)) = Len(queue)
      <4>1. \A a, b \in Int : Cardinality(a..b) = IF a > b THEN 0 ELSE b - a + 1
        BY FS_Interval
      <4>2. Cardinality(1..Len(queue)) =
                IF 1 > Len(queue) THEN 0 ELSE Len(queue) - 1 + 1
        BY <2>2, <4>1
      <4> QED
        BY <2>2, <4>2
    <3> QED
      BY <3>3, <3>4
  <2> QED
    BY <2>1, <2>3, PatienceInductive
<1>2. PInv => GivesUpOnlyDuringStop
  BY DEF PInv
<1> QED
  BY <1>1, <1>2, InitiallyPatient, Invariance, PTL DEF Spec

(***************************************************************************)
(* The abstract service                                                    *)
(***************************************************************************)

\* Who has not left has not been told anything; a second daemon sends nothing.
Untold ==
    \A c \in Clients :
        /\ stage[c] # "left" => result[c] = "none"
        /\ sent[c] => request[c] # "start"

LEMMA UntoldInductive == IInv /\ Untold /\ [Next]_vars => Untold'
<1> SUFFICES ASSUME IInv, Untold, [Next]_vars PROVE Untold'
  OBVIOUS
<1>1. ASSUME NEW c \in Clients, ClientStep(c)
      PROVE  Untold'
  <2>1. CASE Connect(c)
    BY <2>1 DEF Connect, Untold, IInv, Types, serverVars, servedVars
  <2>2. CASE Send(c)
    BY <2>2 DEF Send, Untold, IInv, Types, serverVars, servedVars
  <2>3. CASE \/ ConnectFails(c) \/ Probe(c) \/ SendFails(c) \/ Receive(c)
             \/ GiveUp(c) \/ Interrupt(c)
    <3>1. UNCHANGED <<request, sent>> /\ \E how : Leave(c, how)
      BY <2>3 DEF ConnectFails, Probe, SendFails, Receive, GiveUp, Interrupt
    <3> QED
      BY <3>1 DEF Leave, Untold, IInv, Types
  <2> QED
    BY <1>1, <2>1, <2>2, <2>3 DEF ClientStep
<1>2. CASE DaemonStep \/ Tick \/ UNCHANGED vars
  <2>1. UNCHANGED <<request, stage, sent, result>>
    BY <1>2 DEF DaemonStep, StopEnds, LockSeen, LeaveLoop, AcceptNobody, Accept,
                ReadNothing, ReadUnknown, ReadRequest, Answer, HandleRequest, Timer,
                Wake, Disconnect, Tick, vars, clientVars
  <2> QED
    BY <2>1 DEF Untold
<1> QED
  BY <1>1, <1>2 DEF Next

THEOREM UntoldHolds == Spec => []Untold
<1>1. Init => Untold
  BY DEF Init, Untold
<1> QED
  BY <1>1, UntoldInductive, Invariance, PTL DEF Spec

\* Fate by cases.
LEMMA Fates ==
    ASSUME IInv, NEW c \in Clients
    PROVE  /\ Fate(c) = "done" <=> executed[c] > 0
           /\ Fate(c) = "promised" <=> executed[c] = 0 /\ reply[c] = "OK"
           /\ Fate(c) = "refused" <=> executed[c] = 0 /\ reply[c] \in {"ERR", "EOF"}
           /\ Fate(c) = "asked" <=> executed[c] = 0 /\ reply[c] = "none" /\ sent[c]
           /\ Fate(c) = "new" <=> executed[c] = 0 /\ reply[c] = "none" /\ ~sent[c]
<1>1. executed[c] \in Nat /\ reply[c] \in {"none", "OK", "ERR", "EOF"}
  BY DEF IInv, Types
<1>2. executed[c] = 0 \/ executed[c] = 1
  BY <1>1 DEF IInv, ExecutedAtMostOnce
<1> QED
  BY <1>1, <1>2 DEF Fate

\* What leaves the requests and their replies alone is nothing to the service.
LEMMA Unnoticed ==
    ASSUME UNCHANGED <<request, sent, reply, result, executed>>
    PROVE  UNCHANGED Service!serviceVars
BY DEF Service!serviceVars, Fate, Heard

\* One request gets a new fate.
LEMMA FateChanges ==
    ASSUME NEW c \in Clients, NEW next, UNCHANGED <<request, result>>,
           Fate(c)' = next,
           \A d \in Clients : d # c => Fate(d)' = Fate(d)
    PROVE  Service!Becomes(c, next)
<1>1. UNCHANGED [d \in Clients |-> Heard(d)]
  BY DEF Heard
<1>2. [d \in Clients |-> Fate(d)]' = [[d \in Clients |-> Fate(d)] EXCEPT ![c] = next]
  OBVIOUS
<1> QED
  BY <1>1, <1>2 DEF Service!Becomes

\* A client that leaves hears "yes" only if it was accepted.
LEMMA LeaveIsHeard ==
    ASSUME IInv, Untold, NEW c \in Clients, NEW how, Leave(c, how),
           stage[c] # "left", how \in {"ok", "failed", "timeout", "interrupted"},
           how = "ok" => reply[c] = "OK",
           UNCHANGED <<request, sent, reply, executed>>
    PROVE  Service!Hear(c, "yes") \/ Service!Hear(c, "no")
<1>1. result[c] = "none" /\ result' = [result EXCEPT ![c] = how]
  BY DEF Leave, Untold
<1>2. UNCHANGED <<request, [d \in Clients |-> Fate(d)]>>
  BY DEF Fate
<1>3. Heard(c) = "nothing"
  BY <1>1 DEF Heard
<1>4. ASSUME NEW answer, answer = IF how = "ok" THEN "yes" ELSE "no"
      PROVE  [d \in Clients |-> Heard(d)]' =
                 [[d \in Clients |-> Heard(d)] EXCEPT ![c] = answer]
  <2>1. \A d \in Clients : Heard(d)' = IF d = c THEN answer ELSE Heard(d)
    BY <1>1, <1>4 DEF Heard, IInv, Types
  <2> QED
    BY <2>1
<1>5. CASE how = "ok"
  <2>1. executed[c] = 0 \/ executed[c] > 0
    BY DEF IInv, Types
  <2>2. Fate(c) \in {"promised", "done"}
    BY <1>5, <2>1, Fates
  <2>3. Service!Hear(c, "yes")
    BY <1>2, <1>3, <1>4, <1>5, <2>2 DEF Service!Hear
  <2> QED
    BY <2>3
<1>6. CASE how # "ok"
  <2>1. Service!Hear(c, "no")
    BY <1>2, <1>3, <1>4, <1>6 DEF Service!Hear
  <2> QED
    BY <2>1
<1> QED
  BY <1>5, <1>6

\* What a client does is to ask, to hear, or nothing to the service.
LEMMA ClientServed ==
    ASSUME IInv, Untold, NEW c \in Clients, ClientStep(c)
    PROVE  [Service!ServiceNext]_Service!serviceVars
<1>1. CASE Connect(c)
  <2>1. UNCHANGED <<request, sent, reply, result, executed>>
    BY <1>1 DEF Connect, serverVars, servedVars
  <2> QED
    BY <2>1, Unnoticed
<1>2. CASE Send(c)
  <2>1. /\ reply[c] = "none" /\ sent' = [sent EXCEPT ![c] = TRUE]
        /\ UNCHANGED <<request, reply, result, executed>>
    BY <1>2 DEF Send, serverVars, servedVars
  <2>2. CASE sent[c]
    <3>1. sent' = sent
      BY <2>1, <2>2 DEF IInv, Types
    <3> QED
      BY <2>1, <3>1, Unnoticed
  <2>3. CASE ~sent[c]
    <3>1. executed[c] = 0
      BY <2>3 DEF IInv, Types, ExecutedAtMostOnce
    <3>2. Fate(c) = "new"
      BY <2>1, <2>3, <3>1, Fates
    <3>3. sent'[c] = TRUE /\ \A d \in Clients : d # c => sent'[d] = sent[d]
      BY <2>1 DEF IInv, Types
    <3>4. Fate(c)' = "asked"
      BY <2>1, <3>1, <3>3 DEF Fate
    <3>5. \A d \in Clients : d # c => Fate(d)' = Fate(d)
      BY <2>1, <3>3 DEF Fate
    <3>6. Service!Ask(c)
      <4>1. Service!Becomes(c, "asked")
        BY <2>1, <3>4, <3>5, FateChanges
      <4> QED
        BY <3>2, <4>1 DEF Service!Ask
    <3> QED
      BY <3>6 DEF Service!ServiceNext
  <2> QED
    BY <2>2, <2>3
<1>3. CASE \/ ConnectFails(c) \/ Probe(c) \/ SendFails(c) \/ Receive(c)
           \/ GiveUp(c) \/ Interrupt(c)
  <2>1. PICK how \in {"ok", "failed", "timeout", "interrupted"} :
            Leave(c, how) /\ (how = "ok" => reply[c] = "OK")
    BY <1>3 DEF ConnectFails, Probe, SendFails, Receive, GiveUp, Interrupt
  <2>2. stage[c] # "left" /\ UNCHANGED <<request, sent, reply, executed>>
    BY <1>3 DEF ConnectFails, Probe, SendFails, Receive, GiveUp, Interrupt,
                serverVars, servedVars
  <2>3. Service!Hear(c, "yes") \/ Service!Hear(c, "no")
    BY <2>1, <2>2, LeaveIsHeard
  <2> QED
    BY <2>3 DEF Service!ServiceNext
<1> QED
  BY <1>1, <1>2, <1>3 DEF ClientStep

\* An error refuses the client that is read, an OK is a promise to it and the only
\* one; a daemon that dies of the reply has said nothing.
LEMMA AnswerServed ==
    ASSUME IInv, Untold, server = "reading", NEW text, NEW next, Answer(text, next),
           \/ text = "ERR"
           \/ text = "OK" /\ sent[current] /\ request[current] # "unknown"
    PROVE  [Service!ServiceNext]_Service!serviceVars
<1>1. /\ UNCHANGED <<request, sent, result, executed>>
      /\ \/ reply' = reply
         \/ reply' = [reply EXCEPT ![current] = text]
  BY DEF Answer, clientVars, servedVars
<1>2. CASE reply' = reply
  BY <1>1, <1>2, Unnoticed
<1>3. CASE reply' = [reply EXCEPT ![current] = text]
  <2>1. PICK c \in Clients : c = current
    BY DEF IInv, Types
  <2>2. reply[c] = "none" /\ executed[c] = 0
    BY <2>1 DEF IInv, CurrentServed, Serving
  <2>3. reply'[c] = text /\ \A d \in Clients : d # c => reply'[d] = reply[d]
    BY <1>3, <2>1 DEF IInv, Types
  <2>4. \A d \in Clients : d # c => Fate(d)' = Fate(d)
    BY <1>1, <2>3 DEF Fate
  <2>5. CASE text = "ERR"
    <3>1. Fate(c) \in {"new", "asked"}
      <4>1. sent[c] \/ ~sent[c]
        OBVIOUS
      <4> QED
        BY <2>2, <4>1, Fates
    <3>2. Fate(c)' = "refused"
      BY <1>1, <2>2, <2>3, <2>5 DEF Fate
    <3>3. [d \in Clients |-> Fate(d)]' =
              [d \in Clients |-> IF d \in {c} THEN "refused"
                                 ELSE [e \in Clients |-> Fate(e)][d]]
      BY <2>4, <3>2
    <3>4. UNCHANGED <<request, [d \in Clients |-> Heard(d)]>>
      BY <1>1 DEF Heard
    <3>5. Service!Refuse({c})
      BY <3>1, <3>3, <3>4 DEF Service!Refuse
    <3> QED
      BY <3>5 DEF Service!ServiceNext
  <2>6. CASE text = "OK" /\ sent[c] /\ request[c] # "unknown"
    <3>1. Fate(c) = "asked"
      BY <2>2, <2>6, Fates
    <3>2. Fate(c)' = "promised"
      BY <1>1, <2>2, <2>3, <2>6 DEF Fate
    <3>3. request[c] \in {"status", "dismiss", "trigger", "quit"}
      BY <2>6 DEF IInv, Types, Kinds, Untold
    <3>4. \A d \in Clients : Fate(d) # "promised"
      <4> SUFFICES ASSUME NEW d \in Clients, executed[d] = 0, reply[d] = "OK"
                   PROVE  FALSE
        BY Fates
      <4> QED
        BY DEF IInv, RepliesTrue
    <3>5. Service!Becomes(c, "promised")
      BY <1>1, <2>4, <3>2, FateChanges
    <3>6. Service!Promise(c)
      BY <3>1, <3>3, <3>4, <3>5 DEF Service!Promise, Service!Acceptable
    <3> QED
      BY <3>6 DEF Service!ServiceNext
  <2> QED
    BY <2>1, <2>5, <2>6
<1> QED
  BY <1>1, <1>2, <1>3

\* The request handled is the one that was promised.
LEMMA HandleServed ==
    ASSUME IInv, HandleRequest
    PROVE  [Service!ServiceNext]_Service!serviceVars
<1>1. /\ server = "handling"
      /\ executed' = [executed EXCEPT ![current] = @ + 1]
      /\ UNCHANGED <<request, sent, result, reply>>
  BY DEF HandleRequest, clientVars
<1>2. PICK c \in Clients : c = current
  BY DEF IInv, Types
<1>3. reply[c] = "OK" /\ executed[c] = 0
  BY <1>1, <1>2 DEF IInv, CurrentServed, Serving
<1>4. executed'[c] = 1 /\ \A d \in Clients : d # c => executed'[d] = executed[d]
  BY <1>1, <1>2, <1>3 DEF IInv, Types
<1>5. Fate(c) = "promised"
  BY <1>3, Fates
<1>6. Fate(c)' = "done"
  BY <1>4 DEF Fate
<1>7. \A d \in Clients : d # c => Fate(d)' = Fate(d)
  BY <1>1, <1>4 DEF Fate
<1>8. Service!Becomes(c, "done")
  BY <1>1, <1>6, <1>7, FateChanges
<1>9. Service!Keep(c)
  BY <1>5, <1>8 DEF Service!Keep
<1> QED
  BY <1>9 DEF Service!ServiceNext

\* Whoever still waits is refused when the daemon ends.
LEMMA DisconnectServed ==
    ASSUME IInv, Disconnect
    PROVE  [Service!ServiceNext]_Service!serviceVars
<1>1. PICK S \in SUBSET Clients :
          \A c \in Clients : c \in S <=> \E i \in DOMAIN queue : queue[i] = c
  <2>1. \E S \in SUBSET Clients :
            S = {c \in Clients : \E i \in DOMAIN queue : queue[i] = c}
    OBVIOUS
  <2> QED
    BY <2>1
<1>2. /\ \A c \in Clients : reply'[c] = IF c \in S THEN "EOF" ELSE reply[c]
      /\ UNCHANGED <<request, sent, result, executed>>
  BY <1>1 DEF Disconnect, clientVars, servedVars
<1>3. \A c \in S : reply[c] = "none" /\ executed[c] = 0
  <2> TAKE c \in S
  <2>1. DOMAIN queue = 1..Len(queue)
    BY DEF IInv, Types
  <2>2. PICK i \in 1..Len(queue) : queue[i] = c
    BY <1>1, <2>1
  <2> QED
    BY <2>2 DEF IInv, QueuedUnserved
<1>4. \A c \in S : Fate(c) \in {"new", "asked"}
  <2> TAKE c \in S
  <2>1. c \in Clients /\ (sent[c] \/ ~sent[c])
    OBVIOUS
  <2> QED
    BY <1>3, <2>1, Fates
<1>5. \A c \in Clients : Fate(c)' = IF c \in S THEN "refused" ELSE Fate(c)
  <2>1. \A c \in S : Fate(c)' = "refused"
    BY <1>2, <1>3 DEF Fate
  <2>2. \A c \in Clients : c \notin S => Fate(c)' = Fate(c)
    BY <1>2 DEF Fate
  <2> QED
    BY <2>1, <2>2
<1>6. UNCHANGED <<request, [c \in Clients |-> Heard(c)]>>
  BY <1>2 DEF Heard
<1>7. Service!Refuse(S)
  BY <1>4, <1>5, <1>6 DEF Service!Refuse
<1> QED
  BY <1>7 DEF Service!ServiceNext

\* Every step of the session is one of the service, or nothing to it.
LEMMA StepServed ==
    IInv /\ Untold /\ [Next]_vars => [Service!ServiceNext]_Service!serviceVars
<1> SUFFICES ASSUME IInv, Untold, [Next]_vars
             PROVE  [Service!ServiceNext]_Service!serviceVars
  OBVIOUS
<1>1. CASE \E c \in Clients : ClientStep(c)
  BY <1>1, ClientServed
<1>2. CASE ReadNothing \/ ReadUnknown \/ ReadRequest
  <2>1. CASE ReadNothing \/ ReadUnknown
    <3>1. server = "reading" /\ Answer("ERR", "timer")
      BY <2>1 DEF ReadNothing, ReadUnknown
    <3> QED
      BY <3>1, AnswerServed
  <2>2. CASE ReadRequest
    <3>1. /\ server = "reading" /\ Answer("OK", "handling")
          /\ sent[current] /\ request[current] # "unknown"
      BY <2>2 DEF ReadRequest
    <3> QED
      BY <3>1, AnswerServed
  <2> QED
    BY <1>2, <2>1, <2>2
<1>3. CASE HandleRequest
  BY <1>3, HandleServed
<1>4. CASE Disconnect
  BY <1>4, DisconnectServed
<1>5. CASE StopEnds \/ LockSeen \/ LeaveLoop \/ AcceptNobody \/ Accept \/ Timer \/
           Wake \/ Tick \/ UNCHANGED vars
  <2>1. UNCHANGED <<request, sent, reply, result, executed>>
    BY <1>5 DEF StopEnds, LockSeen, LeaveLoop, AcceptNobody, Accept, Timer, Wake,
                Tick, vars, clientVars, serverVars, servedVars
  <2> QED
    BY <2>1, Unnoticed
<1> QED
  BY <1>1, <1>2, <1>3, <1>4, <1>5 DEF Next, DaemonStep

\* The daemon and its clients keep the safety part of ControlService, for any number of
\* clients: each request is refused or carried out, once, and "OK" is a promise that
\* is kept first (control.c:672-745, 759-825; main.c:221-305).
THEOREM SessionKeepsService == Spec => Service!ServiceSafety
<1>1. Init => Service!ServiceInit
  BY DEF Init, Service!ServiceInit, Fate, Heard
<1> QED
  BY <1>1, StepServed, Invariance, UntoldHolds, PTL DEF Spec, Service!ServiceSafety

=============================================================================
