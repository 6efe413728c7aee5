------------------------ MODULE ControlSocketProofs ------------------------
(* Theorems about ControlSocket for any number of daemons that start, end    *)
(* and crash as they like (Spec), as long as there is no Contest, and, at    *)
(* the end, about daemons that contend for the path at the start (StartSpec).*)
EXTENDS ControlSocket, TLAPS

USE NoFileAssumption DEF NoFileAssumption

LEMMA InitInv == Init => Inv
  <1> SUFFICES ASSUME Init
               PROVE  Inv
    OBVIOUS
  <1>1. TypeOK
    BY DEF Init, TypeOK, Places
  <1>2. Reachable /\ OnlyWithoutServer /\ SocketState
    BY DEF Init, Reachable, OnlyWithoutServer, Settled, SocketState
  <1> QED BY <1>1, <1>2 DEF Inv

\* A daemon that has tried the path and found nobody behind it knows that nobody
\* serves: whoever serves is behind the path.
LEMMA NobodyAnswers == Inv /\ ~Answered => NobodyServes
  BY DEF Inv, Reachable, SocketState, Answered, NobodyServes

\* While nobody serves and there is no contest, whoever is inside is alone there.
LEMMA AloneInside ==
    ASSUME ~Contest, NobodyServes, NEW d \in Daemons, at[d] \notin Settled,
           NEW e \in Daemons \ {d}
    PROVE  at[e] \in Settled
  BY DEF Contest

\* A step of a daemon that opens or closes its socket.
LEMMA OpeningInv ==
    ASSUME Inv, ~Contest, NEW d \in Daemons, Opening(d)
    PROVE  Inv'
  <1> USE DEF Inv, TypeOK, Reachable, OnlyWithoutServer, SocketState, Settled,
              Move, SetSocket, Places, NobodyServes
  <1>0. ASSUME NobodyServes, at[d] \notin Settled
        PROVE  \A e \in Daemons \ {d} : at[e] \in Settled
    BY <1>0, AloneInside
  <1>1. CASE Inspect(d)
    <2>1. CASE path = NoFile
      <3>1. NobodyServes
        BY <2>1
      <3> QED BY <1>1, <2>1, <3>1 DEF Inspect
    <2> QED BY <1>1, <2>1 DEF Inspect
  <1>2. CASE Refused(d)
    BY <1>2 DEF Refused
  <1>3. CASE FindStale(d)
    <2>1. NobodyServes
      BY <1>3, NobodyAnswers DEF FindStale
    <2> QED BY <1>3, <2>1 DEF FindStale
  <1>4. CASE RemoveStale(d)
    BY <1>0, <1>4 DEF RemoveStale
  <1>5. CASE RemoveStaleFails(d)
    BY <1>5 DEF RemoveStaleFails
  <1>6. CASE Bind(d)
    BY <1>0, <1>6 DEF Bind
  <1>7. CASE BindFails(d)
    BY <1>7 DEF BindFails
  <1>8. CASE Listen(d)
    BY <1>0, <1>8 DEF Listen
  <1>9. CASE Unlink(d)
    BY <1>0, <1>9 DEF Unlink
  <1> QED BY <1>1, <1>2, <1>3, <1>4, <1>5, <1>6, <1>7, <1>8, <1>9 DEF Opening

\* Starts, ends and crashes are the other steps; those that leave nobody serving
\* must leave one daemon inside at most.
LEMMA NextInv == Inv /\ ~Contest /\ ~Contest' /\ [Next]_vars => Inv'
  <1> SUFFICES ASSUME Inv, ~Contest, ~Contest', [Next]_vars
               PROVE  Inv'
    OBVIOUS
  <1>1. ASSUME NEW d \in Daemons, StartUp(d)
        PROVE  Inv'
    BY <1>1 DEF StartUp, Inv, TypeOK, Reachable, OnlyWithoutServer, SocketState,
                Settled, Move, Places, NobodyServes
  <1>2. ASSUME NEW d \in Daemons, Close(d)
        PROVE  Inv'
    <2>1. \A e \in Daemons \ {d} : at[e] # "serving"
      BY <1>2 DEF Close, Inv, Reachable
    <2>2. \A e \in Daemons \ {d} : at[e] \in Settled
      BY <1>2, <2>1
         DEF Close, Contest, NobodyServes, Inv, TypeOK, Settled, Move, Places
    <2> QED BY <1>2, <2>1, <2>2
            DEF Close, Inv, TypeOK, Reachable, OnlyWithoutServer, SocketState,
                Settled, Move, SetSocket, Places, NobodyServes
  <1>3. ASSUME NEW d \in Daemons, Crash(d)
        PROVE  Inv'
    BY <1>3 DEF Crash, Inv, TypeOK, Reachable, OnlyWithoutServer, SocketState,
                Settled, Move, SetSocket, Places, NobodyServes
  <1>4. CASE UNCHANGED vars
    BY <1>4 DEF vars, Inv, TypeOK, Reachable, OnlyWithoutServer, SocketState,
                NobodyServes
  <1> QED BY <1>1, <1>2, <1>3, <1>4, OpeningInv DEF Next

\* Daemons that start, end and crash whenever they like keep the path right, however
\* many they are, as long as no two of them are between the system calls on it while
\* nobody serves (control.c:522-610, 747-757).
THEOREM UncontestedInvariance == Spec /\ []~Contest => []Inv
  BY InitInv, NextInv, PTL DEF Spec

\* So whoever serves can then be reached, and is the only one that serves: starts
\* beside a daemon that serves do no harm (control.c:538-543).
THEOREM UncontestedInstance == Spec /\ []~Contest => [](Reachable /\ SingleInstance)
  <1>1. Inv => Reachable /\ SingleInstance
    BY DEF Inv, Reachable, SingleInstance
  <1> QED BY <1>1, UncontestedInvariance, PTL

\* Who is refused in a step has found a daemon that serves.
LEMMA RefusalStep ==
    ASSUME Inv, [Next]_vars, NEW d \in Daemons, at[d] # "refused", at'[d] = "refused"
    PROVE  \E e \in Daemons \ {d} : at[e] = "serving"
  <1> USE DEF Inv, TypeOK, Move
  <1>1. ASSUME NEW e \in Daemons, Opening(e)
        PROVE  e = d /\ Refused(d)
    <2>1. e = d
      BY <1>1 DEF Opening, Inspect, Refused, FindStale, RemoveStale,
                  RemoveStaleFails, Bind, BindFails, Listen, Unlink
    <2>2. ~RemoveStaleFails(d) /\ ~BindFails(d)
      BY DEF RemoveStaleFails, BindFails, SocketState
    <2>3. ~Unlink(d)
      BY DEF Unlink, SocketState
    <2> QED BY <1>1, <2>1, <2>2, <2>3
            DEF Opening, Inspect, FindStale, RemoveStale, Bind, Listen
  <1>2. ASSUME Refused(d)
        PROVE  \E e \in Daemons \ {d} : at[e] = "serving"
    BY <1>2 DEF Refused, Answered, SocketState
  <1>3. ASSUME NEW e \in Daemons, StartUp(e) \/ Close(e) \/ Crash(e)
        PROVE  FALSE
    BY <1>3 DEF StartUp, Close, Crash
  <1>4. CASE UNCHANGED vars
    BY <1>4 DEF vars
  <1> QED BY <1>1, <1>2, <1>3, <1>4 DEF Next

\* And no start-up is then refused but for the sake of a daemon that serves: neither
\* a file left by a crash nor a failing bind or unlink stops it
\* (control.c:522-606).
THEOREM UncontestedRefusals == Spec /\ []~Contest => RefusedOnlyIfServed
  <1>1. Inv /\ [Next]_vars =>
            [\A d \in Daemons : at[d] # "refused" /\ at'[d] = "refused" =>
                 \E e \in Daemons \ {d} : at[e] = "serving"]_vars
    BY RefusalStep
  <1> QED BY <1>1, UncontestedInvariance, PTL DEF Spec, RefusedOnlyIfServed

-----------------------------------------------------------------------------
(* Daemons that start at the same time                                       *)

\* One of them has bound its socket, and will serve.
Won == \E d \in Daemons : at[d] \in {"listen", "serving"}

\* Until then, no socket file has been removed but by one that is about to bind.
NoneWon ==
    /\ \A d \in Daemons : at[d] # "giveUp"
    /\ \A d \in Daemons : at[d] = "bind" => path = NoFile
    /\ \A d \in Daemons :
           at[d] = "refused" \/ (at[d] \in {"connect", "unlink"} /\ path = NoFile)
               => \E e \in Daemons : at[e] = "bind"

\* The inductive invariant of StartSpec.
Race ==
    /\ TypeOK
    /\ \A d \in Daemons : at[d] # "leave"
    /\ \A d \in Daemons : sock[d] = "listening" => at[d] = "serving"
    /\ Won \/ NoneWon

\* At first nobody is under way.
LEMMA InitRace == Init => Race
  BY DEF Init, Race, TypeOK, Places, Won, NoneWon

\* A step of one daemon keeps it: who has won stays.
LEMMA StartRace ==
    ASSUME Race, NEW d \in Daemons, StartUp(d) \/ Opening(d)
    PROVE  Race'
  <1> USE DEF Race, TypeOK, Places, Move, SetSocket
  <1>1. CASE StartUp(d)
    BY <1>1 DEF StartUp, Won, NoneWon
  <1>2. CASE Inspect(d)
    BY <1>2 DEF Inspect, Won, NoneWon
  <1>3. CASE Refused(d)
    BY <1>3 DEF Refused, Answered, Won, NoneWon
  <1>4. CASE FindStale(d)
    BY <1>4 DEF FindStale, Won, NoneWon
  <1>5. CASE RemoveStale(d)
    BY <1>5 DEF RemoveStale, Won, NoneWon
  <1>6. CASE RemoveStaleFails(d)
    BY <1>6 DEF RemoveStaleFails, Won, NoneWon
  <1>7. CASE Bind(d)
    BY <1>7 DEF Bind, Won, NoneWon
  <1>8. CASE BindFails(d)
    BY <1>8 DEF BindFails, Won, NoneWon
  <1>9. CASE Listen(d)
    BY <1>9 DEF Listen, Won, NoneWon
  <1>10. CASE Unlink(d)
    BY <1>10 DEF Unlink, Won, NoneWon
  <1> QED BY <1>1, <1>2, <1>3, <1>4, <1>5, <1>6, <1>7, <1>8, <1>9, <1>10 DEF Opening

\* However many daemons are started at whatever times, they are never all refused:
\* while one has been, another is on its way or serves (control.c:538-606).
THEOREM RaceHasSurvivor == StartSpec => []SomebodyIsThere
  <1>1. Race /\ [StartNext]_vars => Race'
    <2>1. Race /\ UNCHANGED vars => Race'
      BY DEF Race, vars, TypeOK, Won, NoneWon
    <2> QED BY <2>1, StartRace DEF StartNext
  <1>2. Race => SomebodyIsThere
    BY DEF Race, Won, NoneWon, SomebodyIsThere
  <1> QED BY InitRace, <1>1, <1>2, PTL DEF StartSpec

=============================================================================
