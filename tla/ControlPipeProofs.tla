-------------------------- MODULE ControlPipeProofs --------------------------
(* Replies and executions agree on the pipe too, for every number of daemons *)
(* and clients, and the pipe keeps to ControlService.                        *)
EXTENDS ControlPipe, TLAPS

\* Whoever is connected has the pipe of a daemon that runs and is not between the
\* closing and the creation of its pipe.
PipeHeld ==
    /\ peer # Nobody =>
           owner # Nobody /\ stage[peer] \in {"connected", "reading", "left"}
    /\ owner # Nobody =>
           at[owner] \in {"serving", "reading", "flushing", "handling", "asleep"}
    /\ \A d \in Daemons :
           at[d] \in {"reading", "flushing"} => owner = d /\ peer # Nobody

\* Nothing has been said to a client before it is connected, nor before the pipe
\* is about to be reset.
Unanswered ==
    /\ \A c \in Clients :
           stage[c] \in {"idle", "waiting", "opening"} => reply[c] = "none"
    /\ peer # Nobody /\ at[owner] # "flushing" => reply[peer] = "none"

\* A request that is to be returned to the loop has been answered, is not carried out,
\* and is in the hands of one daemon; it waits for the reset of the pipe at most.
PendingHeld ==
    /\ \A d \in Daemons : pending[d] # Nobody =>
           /\ at[d] \in {"flushing", "closed", "handling"}
           /\ reply[pending[d]] = "OK"
           /\ executed[pending[d]] = 0 /\ pending[d] \notin lost
           /\ \A e \in Daemons : pending[e] = pending[d] => e = d
    /\ \A d \in Daemons : at[d] = "handling" => pending[d] # Nobody

\* What has become of a request that was answered with success, and of no other.
Accepted(c) ==
    executed[c] = 1 \/ c \in lost \/ \E d \in Daemons : pending[d] = c

RepliesTrue ==
    \A c \in Clients :
        /\ executed[c] \in {0, 1}
        /\ reply[c] = "OK" <=> Accepted(c)
        /\ reply[c] = "OK" => sent[c] /\ request[c] # "unknown"
        /\ result[c] = "ok" => reply[c] = "OK"

IInv == TypeOK /\ PipeHeld /\ Unanswered /\ PendingHeld /\ RepliesTrue

\* At first there is no pipe, and nobody has been told anything.
LEMMA Initially == Init => IInv
BY NobodyAssumption
   DEF Init, IInv, TypeOK, PipeHeld, Unanswered, PendingHeld, RepliesTrue, Accepted,
       Places, Stages, Kinds

(***************************************************************************)
(* The daemon                                                              *)
(***************************************************************************)

\* The steps that only move a daemon from place to place.
LEMMA MovesKeep ==
    ASSUME IInv, NEW d \in Daemons,
           PollNobody(d) \/ PollGone(d) \/ Accept(d) \/ Wake(d)
    PROVE  IInv'
<1> USE NobodyAssumption
        DEF IInv, PollNobody, PollGone, Accept, Wake, Move, pipeVars, clientVars
<1>1. TypeOK'
  BY DEF TypeOK, Places
<1>2. PipeHeld'
  BY DEF TypeOK, PipeHeld, Left
<1>3. Unanswered'
  BY DEF TypeOK, PipeHeld, Unanswered, Left
<1>4. PendingHeld' /\ RepliesTrue'
  BY DEF TypeOK, PendingHeld, RepliesTrue, Accepted
<1> QED BY <1>1, <1>2, <1>3, <1>4

\* The pipe has an owner, or another one, without a client; a request that is to be
\* returned is so once the pipe is reset.
LEMMA OwnersKeep ==
    ASSUME IInv, NEW d \in Daemons, Open(d) \/ Reset(d) \/ Recreate(d)
    PROVE  IInv'
<1> USE NobodyAssumption
        DEF IInv, Open, Reset, Recreate, AfterPoll, Release, Move, clientVars
<1>1. TypeOK'
  BY DEF TypeOK, Places
<1>2. PipeHeld'
  BY DEF TypeOK, PipeHeld
<1>3. Unanswered'
  BY DEF TypeOK, PipeHeld, Unanswered
<1>4. PendingHeld' /\ RepliesTrue'
  BY DEF TypeOK, PendingHeld, RepliesTrue, Accepted
<1> QED BY <1>1, <1>2, <1>3, <1>4

\* The client is told no, and nothing is to be carried out.
LEMMA RefusalsKeep ==
    ASSUME IInv, NEW d \in Daemons, Deny(d) \/ ReadNothing(d) \/ ReadUnknown(d)
    PROVE  IInv'
<1>1. /\ at[d] = "reading" /\ owner = d /\ peer \in Clients /\ reply[peer] = "none"
      /\ at' = [at EXCEPT ![d] = "flushing"]
      /\ reply' = [reply EXCEPT ![peer] = "ERR"]
      /\ UNCHANGED <<pending, quitting, pipeVars, clientVars, executed, lost>>
  BY NobodyAssumption DEF IInv, TypeOK, PipeHeld, Unanswered, Deny, ReadNothing,
     ReadUnknown, Answer, Move
<1> USE NobodyAssumption DEF IInv, pipeVars, clientVars
<1>2. TypeOK'
  BY <1>1 DEF TypeOK, Places
<1>3. PipeHeld'
  BY <1>1 DEF TypeOK, PipeHeld
<1>4. Unanswered'
  BY <1>1 DEF TypeOK, PipeHeld, Unanswered
<1>5. PendingHeld' /\ RepliesTrue'
  BY <1>1 DEF TypeOK, PendingHeld, RepliesTrue, Accepted
<1> QED BY <1>2, <1>3, <1>4, <1>5

\* The client is told yes, and its request is in the hands of the daemon.
LEMMA ReadRequestKeeps ==
    ASSUME IInv, NEW d \in Daemons, ReadRequest(d)
    PROVE  IInv'
<1>1. /\ at[d] = "reading" /\ owner = d /\ peer \in Clients /\ reply[peer] = "none"
      /\ sent[peer] /\ request[peer] # "unknown"
      /\ at' = [at EXCEPT ![d] = "flushing"]
      /\ reply' = [reply EXCEPT ![peer] = "OK"]
      /\ pending' = [pending EXCEPT ![d] = peer]
      /\ UNCHANGED <<quitting, pipeVars, clientVars, executed, lost>>
  BY NobodyAssumption DEF IInv, TypeOK, PipeHeld, Unanswered, ReadRequest, Answer,
     Return, Move
<1>2. /\ executed[peer] = 0 /\ peer \notin lost /\ pending[d] = Nobody
      /\ \A e \in Daemons : pending[e] # peer
  BY <1>1 DEF IInv, TypeOK, PendingHeld, RepliesTrue, Accepted
<1> USE NobodyAssumption DEF IInv, pipeVars, clientVars
<1>3. TypeOK'
  BY <1>1 DEF TypeOK, Places
<1>4. PipeHeld'
  BY <1>1 DEF TypeOK, PipeHeld
<1>5. Unanswered'
  BY <1>1 DEF TypeOK, PipeHeld, Unanswered
<1>6. PendingHeld'
  BY <1>1, <1>2 DEF TypeOK, PendingHeld
<1>7. RepliesTrue'
  <2>1. \A c \in Clients : c # peer => (Accepted(c)' <=> Accepted(c))
    BY <1>1, <1>2 DEF TypeOK, Accepted
  <2>2. Accepted(peer)'
    BY <1>1 DEF TypeOK, Accepted
  <2> QED BY <1>1, <2>1, <2>2 DEF TypeOK, RepliesTrue
<1> QED BY <1>3, <1>4, <1>5, <1>6, <1>7

\* The request that is carried out is one that was answered, and it is the first time.
LEMMA Handling ==
    ASSUME IInv, NEW d \in Daemons, HandleRequest(d)
    PROVE  \E c \in Clients :
               /\ pending[d] = c /\ reply[c] = "OK" /\ executed[c] = 0 /\ c \notin lost
               /\ \A e \in Daemons : pending[e] = c => e = d
               /\ quitting' = [quitting EXCEPT ![d] = request[c] = "quit"]
               /\ executed' = [executed EXCEPT ![c] = 1]
<1>1. at[d] = "handling"
  BY DEF HandleRequest
<1>2. PICK c \in Clients : pending[d] = c
  BY <1>1 DEF IInv, TypeOK, PendingHeld
<1>3. /\ reply[c] = "OK" /\ executed[c] = 0 /\ c \notin lost
      /\ \A e \in Daemons : pending[e] = c => e = d
  BY <1>1, <1>2 DEF IInv, PendingHeld
<1>4. /\ quitting' = [quitting EXCEPT ![d] = request[c] = "quit"]
      /\ executed' = [executed EXCEPT ![c] = executed[c] + 1]
  BY <1>2 DEF HandleRequest
<1>5. executed[c] + 1 = 1
  BY <1>3
<1> QED BY <1>2, <1>3, <1>4, <1>5

\* The request is carried out.
LEMMA HandleRequestKeeps ==
    ASSUME IInv, NEW d \in Daemons, HandleRequest(d)
    PROVE  IInv'
<1>1. PICK c \in Clients :
          /\ pending[d] = c /\ reply[c] = "OK" /\ executed[c] = 0 /\ c \notin lost
          /\ \A e \in Daemons : pending[e] = c => e = d
          /\ quitting' = [quitting EXCEPT ![d] = request[c] = "quit"]
          /\ executed' = [executed EXCEPT ![c] = 1]
  BY Handling
<1>2. /\ at[d] = "handling"
      /\ at' = [at EXCEPT ![d] = "asleep"]
      /\ pending' = [pending EXCEPT ![d] = Nobody]
      /\ UNCHANGED <<pipeVars, clientVars, reply, lost>>
  BY DEF HandleRequest, Return, Move
<1> USE NobodyAssumption DEF IInv, pipeVars, clientVars
<1>3. TypeOK'
  <2>1. quitting' \in [Daemons -> BOOLEAN]
    BY <1>1, <1>2 DEF TypeOK
  <2> QED BY <1>1, <1>2, <2>1 DEF TypeOK, Places
<1>4. PipeHeld'
  BY <1>1, <1>2 DEF TypeOK, PipeHeld
<1>5. Unanswered'
  BY <1>1, <1>2 DEF TypeOK, PipeHeld, Unanswered
<1>6. PendingHeld'
  BY <1>1, <1>2 DEF TypeOK, PendingHeld
<1>7. RepliesTrue'
  <2>1. \A e \in Clients : e # c => (Accepted(e)' <=> Accepted(e))
    BY <1>1, <1>2 DEF TypeOK, Accepted
  <2>2. Accepted(c)'
    BY <1>1, <1>2 DEF TypeOK, Accepted
  <2> QED BY <1>1, <1>2, <2>1, <2>2 DEF TypeOK, RepliesTrue
<1> QED BY <1>3, <1>4, <1>5, <1>6, <1>7

\* A daemon that ends, in whatever way, disconnects the client of its pipe; if it had
\* a request in hand, that is lost.
LEMMA EndKeeps ==
    ASSUME IInv, NEW d \in Daemons, Close(d) \/ Crash(d)
    PROVE  IInv'
<1>1. End(d) /\ lost' = lost \union ({pending[d]} \ {Nobody})
  BY DEF Close, Crash, IInv, PendingHeld
<1> USE <1>1, NobodyAssumption DEF IInv, End, Return, Release, Move, pipeVars, clientVars
<1>2. TypeOK'
  BY DEF TypeOK, Places
<1>3. PipeHeld'
  BY DEF TypeOK, PipeHeld
<1>4. Unanswered'
  BY DEF TypeOK, PipeHeld, Unanswered
<1>5. PendingHeld'
  BY DEF TypeOK, PendingHeld
<1>6. RepliesTrue'
  <2>1. \A c \in Clients : Accepted(c)' <=> Accepted(c)
    BY DEF TypeOK, Accepted
  <2> QED BY <2>1 DEF TypeOK, RepliesTrue
<1> QED BY <1>2, <1>3, <1>4, <1>5, <1>6

(***************************************************************************)
(* The client                                                              *)
(***************************************************************************)

\* Whoever waits, sends, reads or leaves knows what it was told and no more.
LEMMA ClientKeeps ==
    ASSUME IInv, NEW c \in Clients, ClientStep(c)
    PROVE  IInv'
<1> USE NobodyAssumption DEF IInv, daemonVars, pipeVars
<1>5. /\ UNCHANGED <<pending, at, executed, reply, lost, request>>
      /\ \A e \in Clients : sent[e] => sent'[e]
      /\ \A e \in Clients : result'[e] = "ok" => result[e] = "ok" \/ reply[e] = "OK"
  BY DEF ClientStep, Wait, WaitEnds, Connect, Send, Receive, Dropped, Interrupt, Leave,
         Go, TypeOK
<1>6. PendingHeld' /\ RepliesTrue'
  BY <1>5 DEF PendingHeld, RepliesTrue, Accepted
<1>1. CASE Connect(c)
  <2>1. TypeOK' /\ PipeHeld'
    BY <1>1 DEF Connect, Go, Leave, TypeOK, PipeHeld, Stages
  <2>2. Unanswered'
    BY <1>1 DEF Connect, Go, Leave, TypeOK, PipeHeld, Unanswered
  <2> QED BY <1>6, <2>1, <2>2
<1>2. CASE Send(c)
  <2>1. TypeOK' /\ PipeHeld'
    BY <1>2 DEF Send, Go, Leave, TypeOK, PipeHeld, Stages
  <2>2. Unanswered'
    BY <1>2 DEF Send, Go, Leave, TypeOK, PipeHeld, Unanswered
  <2> QED BY <1>6, <2>1, <2>2
<1>3. CASE Wait(c) \/ WaitEnds(c)
  <2>1. TypeOK' /\ PipeHeld'
    BY <1>3 DEF Wait, WaitEnds, Go, Leave, TypeOK, PipeHeld, Stages
  <2>2. Unanswered'
    BY <1>3 DEF Wait, WaitEnds, Go, Leave, TypeOK, PipeHeld, Unanswered
  <2> QED BY <1>6, <2>1, <2>2
<1>4. CASE Receive(c) \/ Dropped(c) \/ Interrupt(c)
  <2>1. TypeOK' /\ PipeHeld'
    BY <1>4 DEF Receive, Dropped, Interrupt, Go, Leave, TypeOK, PipeHeld, Stages
  <2>2. Unanswered'
    BY <1>4 DEF Receive, Dropped, Interrupt, Go, Leave, TypeOK, PipeHeld, Unanswered
  <2> QED BY <1>6, <2>1, <2>2
<1> QED BY <1>1, <1>2, <1>3, <1>4 DEF ClientStep

-----------------------------------------------------------------------------
LEMMA Stepwise == IInv /\ [Next]_vars => IInv'
<1> SUFFICES ASSUME IInv, [Next]_vars PROVE IInv'
  OBVIOUS
<1>1. ASSUME NEW d \in Daemons, Open(d) \/ DaemonStep(d) \/ Crash(d)
      PROVE  IInv'
  BY <1>1, MovesKeep, OwnersKeep, RefusalsKeep, ReadRequestKeeps,
     HandleRequestKeeps, EndKeeps
     DEF DaemonStep
<1>2. ASSUME NEW c \in Clients, ClientStep(c)
      PROVE  IInv'
  BY <1>2, ClientKeeps
<1>3. CASE UNCHANGED vars
  BY <1>3 DEF vars, daemonVars, pipeVars, clientVars, IInv, TypeOK, PipeHeld,
              Unanswered, PendingHeld, RepliesTrue, Accepted
<1> QED BY <1>1, <1>2, <1>3 DEF Next

\* The inductive invariant holds for every set of daemons and clients
\* (control.c:221-325, 327-385).
THEOREM Invariance == Spec => []IInv
  BY Initially, Stepwise, PTL DEF Spec

\* Success is only reported to a client whose own request has been carried out, is in the
\* hands of a daemon that runs, or went with one that crashed
\* (control.c:221-234, 287-315, 375-384; main.c:247-278).
THEOREM OkIsTrue == Spec => []OkIsKept
<1>1. IInv => OkIsKept
  BY DEF IInv, RepliesTrue, Accepted, OkIsKept
<1> QED BY <1>1, Invariance, PTL

\* No request is carried out twice, and none that was not sent, whoever had the pipe
\* before (control.c:221-234, 293-313).
THEOREM ExecutedOnce == Spec => []ExecutedAtMostOnce
<1>1. IInv => ExecutedAtMostOnce
  <2> SUFFICES ASSUME IInv, NEW c \in Clients
               PROVE  executed[c] <= (IF sent[c] THEN 1 ELSE 0)
    BY DEF ExecutedAtMostOnce
  <2>1. executed[c] \in {0, 1} /\ (executed[c] = 1 => sent[c])
    BY DEF IInv, RepliesTrue, Accepted
  <2> QED BY <2>1
<1> QED BY <1>1, Invariance, PTL

(***************************************************************************)
(* The abstract service                                                    *)
(***************************************************************************)

\* Who has not left has not been told anything.
Untold == \A c \in Clients : stage[c] # "left" => result[c] = "none"

LEMMA UntoldInductive == IInv /\ Untold /\ [Next]_vars => Untold'
<1> SUFFICES ASSUME IInv, Untold, [Next]_vars PROVE Untold'
  OBVIOUS
<1>1. ASSUME NEW d \in Daemons, Open(d) \/ DaemonStep(d) \/ Crash(d)
      PROVE  UNCHANGED <<stage, result>>
  BY <1>1 DEF Open, DaemonStep, PollNobody, PollGone, Accept, Deny, ReadNothing,
              ReadUnknown, ReadRequest, Reset, Recreate, HandleRequest, Wake, Close,
              Crash, End, clientVars
<1>2. ASSUME NEW c \in Clients, ClientStep(c)
      PROVE  \/ \E place \in Stages : Go(c, place) /\ UNCHANGED result /\ stage[c] # "left"
             \/ \E how : Leave(c, how)
  BY <1>2 DEF ClientStep, Wait, WaitEnds, Connect, Send, Receive, Dropped, Interrupt,
              Stages
<1>3. CASE \E c \in Clients : ClientStep(c)
  BY <1>2, <1>3 DEF Go, Leave, Untold, IInv, TypeOK
<1>4. CASE UNCHANGED vars
  BY <1>4 DEF vars, clientVars, Untold
<1> QED
  BY <1>1, <1>3, <1>4 DEF Next, Untold

LEMMA UntoldHolds == Spec => []Untold
<1>1. Init => Untold
  BY DEF Init, Untold
<1> QED BY <1>1, UntoldInductive, Invariance, PTL DEF Spec

\* Fate by cases.
LEMMA Fates ==
    ASSUME IInv, NEW c \in Clients
    PROVE  /\ Fate(c) = "done" <=> executed[c] = 1
           /\ Fate(c) = "lost" <=> executed[c] = 0 /\ c \in lost
           /\ Fate(c) = "promised" <=>
                  executed[c] = 0 /\ c \notin lost /\ reply[c] = "OK"
           /\ Fate(c) = "refused" <=> reply[c] = "ERR"
           /\ Fate(c) = "asked" <=> reply[c] = "none" /\ sent[c]
           /\ Fate(c) = "new" <=> reply[c] = "none" /\ ~sent[c]
BY DEF IInv, TypeOK, RepliesTrue, Accepted, Fate

\* What leaves the requests and their replies alone is nothing to the service.
LEMMA Unnoticed ==
    ASSUME UNCHANGED <<request, sent, reply, result, executed, lost>>
    PROVE  UNCHANGED Service!serviceVars
BY DEF Service!serviceVars, Fate, Heard

\* One request gets a new fate.
LEMMA FateChanges ==
    ASSUME NEW c \in Clients, NEW next, UNCHANGED <<request, result>>,
           Fate(c)' = next,
           \A d \in Clients : d # c => Fate(d)' = Fate(d)
    PROVE  Service!Becomes(c, next)
<1>1. UNCHANGED [d \in Clients |-> Heard(d)]
  BY DEF Heard
<1>2. [d \in Clients |-> Fate(d)]' = [[d \in Clients |-> Fate(d)] EXCEPT ![c] = next]
  OBVIOUS
<1> QED BY <1>1, <1>2 DEF Service!Becomes

\* A client that leaves hears "yes" only if its request was accepted.
LEMMA LeaveIsHeard ==
    ASSUME IInv, Untold, NEW c \in Clients, NEW how, Leave(c, how),
           stage[c] # "left", how \in {"ok", "failed"}, how = "ok" => reply[c] = "OK",
           UNCHANGED <<request, sent, reply, executed, lost>>
    PROVE  Service!Hear(c, "yes") \/ Service!Hear(c, "no")
<1>1. result[c] = "none" /\ result' = [result EXCEPT ![c] = how]
  BY DEF Leave, Untold
<1>2. UNCHANGED <<request, [d \in Clients |-> Fate(d)]>>
  BY DEF Fate
<1>3. Heard(c) = "nothing"
  BY <1>1 DEF Heard
<1>4. ASSUME NEW answer, answer = IF how = "ok" THEN "yes" ELSE "no"
      PROVE  [d \in Clients |-> Heard(d)]' =
                 [[d \in Clients |-> Heard(d)] EXCEPT ![c] = answer]
  <2>1. \A d \in Clients : Heard(d)' = IF d = c THEN answer ELSE Heard(d)
    BY <1>1, <1>4 DEF Heard, IInv, TypeOK
  <2> QED BY <2>1
<1>5. CASE how = "ok"
  <2>1. Fate(c) \in {"promised", "done", "lost"}
    BY <1>5, Fates DEF IInv, RepliesTrue
  <2>2. Service!Hear(c, "yes")
    BY <1>2, <1>3, <1>4, <1>5, <2>1 DEF Service!Hear
  <2> QED BY <2>2
<1>6. CASE how # "ok"
  <2>1. Service!Hear(c, "no")
    BY <1>2, <1>3, <1>4, <1>6 DEF Service!Hear
  <2> QED BY <2>1
<1> QED BY <1>5, <1>6

\* What a client does is to ask, to hear, or nothing to the service.
LEMMA ClientServed ==
    ASSUME IInv, Untold, NEW c \in Clients, ClientStep(c)
    PROVE  [Service!ServiceNext]_Service!serviceVars
<1>1. CASE Send(c)
  <2>1. /\ sent' = [sent EXCEPT ![c] = TRUE]
        /\ UNCHANGED <<request, reply, result, executed, lost>>
    BY <1>1 DEF Send
  <2>2. sent'[c] = TRUE /\ \A d \in Clients : d # c => sent'[d] = sent[d]
    BY <2>1 DEF IInv, TypeOK
  <2>3. \A d \in Clients : d # c => Fate(d)' = Fate(d)
    BY <2>1, <2>2 DEF Fate
  <2>4. CASE Fate(c) = "new"
    <3>1. reply[c] = "none" /\ executed[c] = 0 /\ c \notin lost
      BY <2>4, Fates DEF IInv, RepliesTrue, Accepted
    <3>2. Fate(c)' = "asked"
      BY <2>1, <2>2, <3>1 DEF Fate
    <3>3. Service!Becomes(c, "asked")
      BY <2>1, <2>3, <3>2, FateChanges
    <3>4. Service!Ask(c)
      BY <2>4, <3>3 DEF Service!Ask
    <3> QED BY <3>4 DEF Service!ServiceNext
  <2>5. CASE Fate(c) # "new"
    <3>1. Fate(c)' = Fate(c)
      <4>1. sent[c] \/ reply[c] \in {"OK", "ERR"}
        BY <2>5, Fates DEF IInv, TypeOK
      <4>2. executed[c] = 1 \/ c \in lost \/ reply[c] \in {"none", "OK", "ERR"}
        BY DEF IInv, TypeOK
      <4> QED BY <2>1, <2>2, <4>1, <4>2 DEF Fate
    <3>2. UNCHANGED [d \in Clients |-> Fate(d)]
      BY <2>3, <3>1
    <3> QED BY <2>1, <3>2 DEF Service!serviceVars, Heard
  <2> QED BY <2>4, <2>5
<1>2. CASE ~Send(c)
  <2>1. UNCHANGED <<request, sent, reply, executed, lost>>
    BY <1>2 DEF ClientStep, Wait, WaitEnds, Connect, Receive, Dropped, Interrupt
  <2>2. CASE UNCHANGED result
    BY <2>1, <2>2, Unnoticed
  <2>3. CASE \E how \in {"ok", "failed"} :
                 Leave(c, how) /\ (how = "ok" => reply[c] = "OK")
    <3>1. stage[c] # "left"
      BY <1>2 DEF ClientStep, Wait, WaitEnds, Connect, Receive, Dropped, Interrupt
    <3>2. Service!Hear(c, "yes") \/ Service!Hear(c, "no")
      BY <2>1, <2>3, <3>1, LeaveIsHeard
    <3> QED BY <3>2 DEF Service!ServiceNext
  <2> QED BY <1>2, <2>2, <2>3
          DEF ClientStep, Wait, WaitEnds, Connect, Receive, Dropped, Interrupt
<1> QED BY <1>1, <1>2

\* An error refuses the client of the pipe.
LEMMA RefusalServed ==
    ASSUME IInv, NEW d \in Daemons, Deny(d) \/ ReadNothing(d) \/ ReadUnknown(d)
    PROVE  Service!ServiceNext
<1>1. PICK c \in Clients :
          /\ c = peer /\ reply[c] = "none" /\ executed[c] = 0 /\ c \notin lost
          /\ reply' = [reply EXCEPT ![c] = "ERR"]
          /\ UNCHANGED <<request, sent, result, executed, lost>>
  <2>1. at[d] = "reading"
    BY DEF Deny, ReadNothing, ReadUnknown
  <2>2. peer \in Clients /\ reply[peer] = "none"
    BY <2>1, NobodyAssumption DEF IInv, TypeOK, PipeHeld, Unanswered
  <2>3. executed[peer] = 0 /\ peer \notin lost
    BY <2>2 DEF IInv, RepliesTrue, Accepted
  <2> QED BY <2>2, <2>3 DEF Deny, ReadNothing, ReadUnknown, Answer, clientVars
<1>2. /\ reply'[c] = "ERR"
      /\ \A e \in Clients : e # c => reply'[e] = reply[e]
  BY <1>1 DEF IInv, TypeOK
<1>3. Fate(c) \in {"new", "asked"}
  <2>1. sent[c] \/ ~sent[c]
    OBVIOUS
  <2> QED BY <1>1, <2>1, Fates
<1>4. \A e \in Clients : Fate(e)' = IF e = c THEN "refused" ELSE Fate(e)
  <2>1. Fate(c)' = "refused"
    BY <1>1, <1>2 DEF Fate
  <2>2. \A e \in Clients : e # c => Fate(e)' = Fate(e)
    BY <1>1, <1>2 DEF Fate
  <2> QED BY <2>1, <2>2
<1>5. UNCHANGED <<request, [e \in Clients |-> Heard(e)]>>
  BY <1>1 DEF Heard
<1>6. Service!Refuse({c})
  BY <1>3, <1>4, <1>5 DEF Service!Refuse
<1> QED BY <1>6 DEF Service!ServiceNext

\* An OK is a promise; a single daemon owes nobody anything by then.
LEMMA PromiseServed ==
    ASSUME IInv, NEW d, Daemons = {d}, ReadRequest(d)
    PROVE  Service!ServiceNext
<1>1. PICK c \in Clients :
          /\ c = peer /\ reply[c] = "none" /\ executed[c] = 0 /\ c \notin lost
          /\ sent[c] /\ request[c] # "unknown"
          /\ reply' = [reply EXCEPT ![c] = "OK"]
          /\ UNCHANGED <<request, sent, result, executed, lost>>
  <2>1. at[d] = "reading"
    BY DEF ReadRequest
  <2>2. peer \in Clients /\ reply[peer] = "none"
    BY <2>1, NobodyAssumption DEF IInv, TypeOK, PipeHeld, Unanswered
  <2>3. executed[peer] = 0 /\ peer \notin lost
    BY <2>2 DEF IInv, RepliesTrue, Accepted
  <2> QED BY <2>2, <2>3 DEF ReadRequest, Answer, clientVars
<1>2. /\ reply'[c] = "OK"
      /\ \A e \in Clients : e # c => reply'[e] = reply[e]
  BY <1>1 DEF IInv, TypeOK
<1>3. Fate(c) = "asked" /\ request[c] \in {"trigger", "quit"}
  BY <1>1, Fates DEF IInv, TypeOK, Kinds
<1>4. \A e \in Clients : Fate(e) # "promised"
  <2>1. pending[d] = Nobody
    BY DEF ReadRequest, IInv, PendingHeld
  <2>2. \A e \in Clients : reply[e] = "OK" => executed[e] = 1 \/ e \in lost
    BY <2>1, NobodyAssumption DEF IInv, RepliesTrue, Accepted
  <2> QED BY <2>2, Fates
<1>5. Fate(c)' = "promised"
  BY <1>1, <1>2 DEF Fate
<1>6. \A e \in Clients : e # c => Fate(e)' = Fate(e)
  BY <1>1, <1>2 DEF Fate
<1>7. Service!Becomes(c, "promised")
  BY <1>1, <1>5, <1>6, FateChanges
<1>8. Service!Promise(c)
  BY <1>3, <1>4, <1>7 DEF Service!Promise, Service!Acceptable
<1> QED BY <1>8 DEF Service!ServiceNext

\* To carry out the request is to keep the promise.
LEMMA HandleServed ==
    ASSUME IInv, NEW d \in Daemons, HandleRequest(d)
    PROVE  Service!ServiceNext
<1>1. PICK c \in Clients :
          /\ reply[c] = "OK" /\ executed[c] = 0 /\ c \notin lost
          /\ executed' = [executed EXCEPT ![c] = 1]
  BY Handling
<1>2. UNCHANGED <<request, sent, reply, result, lost>>
  BY DEF HandleRequest, clientVars
<1>3. executed'[c] = 1 /\ \A e \in Clients : e # c => executed'[e] = executed[e]
  BY <1>1 DEF IInv, TypeOK
<1>4. Fate(c) = "promised"
  BY <1>1, Fates
<1>5. Fate(c)' = "done"
  BY <1>3 DEF Fate
<1>6. \A e \in Clients : e # c => Fate(e)' = Fate(e)
  BY <1>2, <1>3 DEF Fate
<1>7. Service!Keep(c)
  BY <1>2, <1>4, <1>5, <1>6, FateChanges DEF Service!Keep
<1> QED BY <1>7 DEF Service!ServiceNext

\* A crash breaks the promise that was not kept yet, if there is one.
LEMMA CrashServed ==
    ASSUME IInv, NEW d \in Daemons, Crash(d)
    PROVE  [Service!ServiceNext]_Service!serviceVars
<1>1. /\ UNCHANGED <<request, sent, reply, result, executed>>
      /\ lost' = lost \union ({pending[d]} \ {Nobody})
  BY DEF Crash, End, clientVars
<1>2. CASE pending[d] = Nobody
  BY <1>1, <1>2, Unnoticed
<1>3. CASE pending[d] # Nobody
  <2>1. PICK c \in Clients : c = pending[d]
    BY <1>3 DEF IInv, TypeOK
  <2>2. reply[c] = "OK" /\ executed[c] = 0 /\ c \notin lost
    BY <1>3, <2>1 DEF IInv, PendingHeld
  <2>3. lost' = lost \union {c}
    BY <1>1, <1>3, <2>1
  <2>4. Fate(c) = "promised"
    BY <2>2, Fates
  <2>5. Fate(c)' = "lost"
    BY <1>1, <2>2, <2>3 DEF Fate
  <2>6. \A e \in Clients : e # c => Fate(e)' = Fate(e)
    BY <1>1, <2>3 DEF Fate
  <2>7. Service!Break(c)
    BY <1>1, <2>4, <2>5, <2>6, FateChanges DEF Service!Break
  <2> QED BY <2>7 DEF Service!ServiceNext
<1> QED BY <1>2, <1>3

\* Every step on the pipe of a single daemon is one of the service, or nothing to it.
LEMMA StepServed ==
    ASSUME NEW d, Daemons = {d}
    PROVE  IInv /\ Untold /\ [Next]_vars => [Service!ServiceNext]_Service!serviceVars
<1> SUFFICES ASSUME IInv, Untold, [Next]_vars
             PROVE  [Service!ServiceNext]_Service!serviceVars
  OBVIOUS
<1>1. CASE \E c \in Clients : ClientStep(c)
  BY <1>1, ClientServed
<1>2. CASE Open(d) \/ DaemonStep(d) \/ Crash(d)
  <2>1. CASE Deny(d) \/ ReadNothing(d) \/ ReadUnknown(d)
    BY <2>1, RefusalServed
  <2>2. CASE ReadRequest(d)
    BY <2>2, PromiseServed
  <2>3. CASE HandleRequest(d)
    BY <2>3, HandleServed
  <2>4. CASE Crash(d)
    BY <2>4, CrashServed
  <2>5. CASE Open(d) \/ PollNobody(d) \/ PollGone(d) \/ Accept(d) \/ Reset(d) \/
             Recreate(d) \/ Wake(d) \/ Close(d)
    <3>1. UNCHANGED <<request, sent, reply, result, executed, lost>>
      BY <2>5 DEF Open, PollNobody, PollGone, Accept, Reset, Recreate, Wake, Close,
                  End, clientVars
    <3> QED BY <3>1, Unnoticed
  <2> QED BY <1>2, <2>1, <2>2, <2>3, <2>4, <2>5 DEF DaemonStep
<1>3. CASE UNCHANGED vars
  BY <1>3, Unnoticed DEF vars, clientVars
<1> QED BY <1>1, <1>2, <1>3 DEF Next

\* As long as daemons run one at a time, wherever they crash and however often they are
\* started: a request is refused or accepted, an accepted one is carried out, once, and
\* before the next is accepted, unless the daemon crashes between the reply and the
\* execution; and success is reported only of one that was accepted
\* (control.c:221-325, 327-385; main.c:247-278).
THEOREM PipeKeepsService ==
    ASSUME NEW d, Daemons = {d}
    PROVE  Spec => Service!ServiceSafety
<1>1. Init => Service!ServiceInit
  BY DEF Init, Service!ServiceInit, Fate, Heard
<1>2. IInv /\ Untold /\ [Next]_vars => [Service!ServiceNext]_Service!serviceVars
  BY StepServed
<1> QED BY <1>1, <1>2, Invariance, UntoldHolds, PTL DEF Spec, Service!ServiceSafety

-----------------------------------------------------------------------------
(* One daemon                                                              *)

\* A single daemon has the pipe whenever it runs, but while it resets it.
OwnsIt(d) ==
    /\ owner \in {d, Nobody}
    /\ owner = d <=> at[d] \in {"serving", "reading", "flushing", "handling", "asleep"}

\* As long as no second daemon is ever started, the daemon that runs listens on its
\* pipe: the name is lost only to another one (control.c:221-234).
THEOREM SingleDaemonListens ==
    ASSUME NEW d, Daemons = {d}
    PROVE  Spec => []KeepsListening
<1>1. Init => OwnsIt(d)
  BY NobodyAssumption DEF Init, OwnsIt
<1>2. IInv /\ OwnsIt(d) /\ [Next]_vars => OwnsIt(d)'
  <2> SUFFICES ASSUME IInv, OwnsIt(d), [Next]_vars PROVE OwnsIt(d)'
    OBVIOUS
  <2>1. d # Nobody /\ at = [e \in {d} |-> at[d]]
    BY NobodyAssumption DEF IInv, TypeOK
  <2>2. CASE Open(d) \/ DaemonStep(d) \/ Crash(d)
    BY <2>1, <2>2 DEF Open, DaemonStep, PollNobody, PollGone, Accept, Deny,
       ReadNothing, ReadUnknown, ReadRequest, Reset, Recreate, AfterPoll, HandleRequest,
       Wake, Close, Crash, End, Release, Answer, Move, pipeVars, OwnsIt
  <2>3. CASE UNCHANGED <<at, owner>>
    BY <2>3 DEF OwnsIt
  <2>4. ASSUME NEW c \in Clients, ClientStep(c)
        PROVE  UNCHANGED <<at, owner>>
    BY <2>4 DEF ClientStep, Wait, WaitEnds, Connect, Send, Receive, Dropped,
                Interrupt, daemonVars, pipeVars
  <2> QED BY <2>2, <2>3, <2>4 DEF Next, vars, daemonVars, pipeVars
<1>3. OwnsIt(d) => KeepsListening
  BY DEF OwnsIt, KeepsListening
<1> QED BY <1>1, <1>2, <1>3, Invariance, PTL DEF Spec
=============================================================================
